----------------------------- MODULE ScanLifecycle -----------------------------
(* What the web server promises about scans, without saying how: an accepted   *)
(* scan holds its name alone while it is pending, runs at most once and in one *)
(* of a fixed number of slots, and its first final state is its last.          *)
(* ScanManager implements this specification (see Lifecycle there).            *)

CONSTANTS Job,     \* scans that may be submitted, each at most once
          Base,    \* output base names, the public identifiers of scans
          Worker,  \* execution slots
          None     \* "no job" / "no name"

VARIABLES state,   \* state[j]: lifecycle state of scan j
          name,    \* name[j]: base name scan j was accepted under
          slot     \* slot[w]: scan executing in slot w

lifecycleVars == <<state, name, slot>>

Pending == {"queued", "running"}
Final   == {"done", "failed", "cancelled"}

Init == /\ state = [j \in Job |-> "none"]
        /\ name  = [j \in Job |-> None]
        /\ slot  = [w \in Worker |-> None]

\* A scan is accepted under a name that no pending scan holds.
Accept(j, b) ==
  /\ state[j] = "none"
  /\ \A k \in Job : state[k] \in Pending => name[k] # b
  /\ state' = [state EXCEPT ![j] = "queued"]
  /\ name' = [name EXCEPT ![j] = b]
  /\ UNCHANGED slot

Begin(j, w) ==
  /\ state[j] = "queued"
  /\ slot[w] = None
  /\ state' = [state EXCEPT ![j] = "running"]
  /\ slot' = [slot EXCEPT ![w] = j]
  /\ UNCHANGED name

\* The scan in slot w ends; the slot becomes free in the same instant.
Settle(w) ==
  /\ slot[w] # None
  /\ \E f \in Final : state' = [state EXCEPT ![slot[w]] = f]
  /\ slot' = [slot EXCEPT ![w] = None]
  /\ UNCHANGED name

\* A queued scan is cancelled and never runs.
Withdraw(j) ==
  /\ state[j] = "queued"
  /\ state' = [state EXCEPT ![j] = "cancelled"]
  /\ UNCHANGED <<name, slot>>

\* The server dies: pending scans are lost, final ones stay as they ended.
Crash ==
  /\ state' = [j \in Job |-> IF state[j] \in Pending THEN "lost" ELSE state[j]]
  /\ slot' = [w \in Worker |-> None]
  /\ UNCHANGED name

Next == \/ \E j \in Job, b \in Base : Accept(j, b)
        \/ \E j \in Job, w \in Worker : Begin(j, w)
        \/ \E w \in Worker : Settle(w)
        \/ \E j \in Job : Withdraw(j)
        \/ Crash

Spec == Init /\ [][Next]_lifecycleVars
================================================================================
