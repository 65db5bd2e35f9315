------------------------------- MODULE MCPBridge -------------------------------
(* The in-process MCP connection of the web server: MCPBridge.Scan and send,   *)
(* readLoop and drainPending (src/webui/mcpbridge.go) against the run loop and *)
(* the scan goroutines of the MCP server (src/internal/mcp/server.go).         *)
(*                                                                             *)
(* Both pipes are io.Pipe: a write returns when the other side has read it, so *)
(* a message is a rendezvous. Request ids come from an atomic counter and are  *)
(* unique: a call stands for its own id. Nothing closes the bridge while the   *)
(* web server lives, so writes block but never fail.                           *)
EXTENDS Naturals

CONSTANTS
  Scan,      \* calls of Scan
  Request,   \* calls of send: CallTool, Prompts, GetPrompt
  MaxNotes,  \* bound: notifications of one scan
  Oversize,  \* a response may exceed the 10 MB that readLoop's scanner takes
  None

Caller == Scan \cup Request

ASSUME CallerAssumption == Scan \cap Request = {} /\ None \notin Caller
ASSUME NoteAssumption == MaxNotes \in Nat
ASSUME OversizeAssumption == Oversize \in BOOLEAN

VARIABLES
  at,         \* where each call is
  result,     \* what it returned
  ctxDone,    \* scans whose context is cancelled
  pending,    \* MCPBridge.pending: ids with a channel
  inbox,      \* inbox[c]: the response in the channel of call c
  notifyFns,  \* MCPBridge.notifyFns: scans with a callback
  reader,     \* where readLoop is
  msg,        \* the message readLoop holds: the id or token, and what it is
  done,       \* MCPBridge.done is closed
  loop,       \* the server's run loop: None while it reads, else the call it executes
  task,       \* the server goroutine of each asynchronous call
  notes       \* notifications each scan still may send

callVars == <<at, result, ctxDone>>
tableVars == <<pending, inbox, notifyFns>>
readVars == <<reader, msg, done>>
serverVars == <<loop, task, notes>>
vars == <<callVars, tableVars, readVars, serverVars>>

Reply   == {"report", "error"}
Message == [of : Caller, what : Reply \cup {"progress", "log"}]

\* The error that drainPending makes up; it carries no id.
Lost == [of |-> None, what |-> "error"]

Waiting == {"writing", "waiting", "cancelling", "awaiting"}
At      == Waiting \cup {"idle", "hooked", "unhook", "returned"}
Reader  == {"reading", "response", "sending", "note", "callback",
            "closing", "draining", "exited"}

Init ==
  /\ at = [c \in Caller |-> "idle"]
  /\ result = [c \in Caller |-> "none"]
  /\ ctxDone = {}
  /\ pending = {} /\ notifyFns = {}
  /\ inbox = [c \in Caller |-> None]
  /\ reader = "reading" /\ msg = None /\ done = FALSE
  /\ loop = None
  /\ task = [c \in Caller |-> "none"]
  /\ notes = [s \in Scan |-> MaxNotes]

--------------------------------------------------------------------------------
\* The callers: Scan and send

Goto(c, l) == at' = [at EXCEPT ![c] = l]
ReturnWith(c, r) == result' = [result EXCEPT ![c] = r]

\* Scan installs its callback before anything is sent.
Hook(s) ==
  /\ at[s] = "idle"
  /\ notifyFns' = notifyFns \cup {s}
  /\ Goto(s, "hooked")
  /\ UNCHANGED <<result, ctxDone, pending, inbox, readVars, serverVars>>

Register(c) ==
  /\ at[c] = IF c \in Scan THEN "hooked" ELSE "idle"
  /\ pending' = pending \cup {c}
  /\ Goto(c, "writing")
  /\ UNCHANGED <<result, ctxDone, inbox, notifyFns, readVars, serverVars>>

\* The run loop reads the request. "scan", which the chat's CallTool may also
\* name, gets a goroutine; every other request is executed in the loop itself.
Write(c) ==
  /\ at[c] = "writing"
  /\ loop = None
  /\ Goto(c, "waiting")
  /\ \/ /\ task' = [task EXCEPT ![c] = "working"]
        /\ UNCHANGED loop
     \/ /\ c \in Request
        /\ loop' = c
        /\ UNCHANGED task
  /\ UNCHANGED <<result, ctxDone, tableVars, readVars, notes>>

\* Job.cancel (ScanManager) cancels the context at any time.
CancelContext(s) ==
  /\ s \notin ctxDone
  /\ at[s] # "returned"
  /\ ctxDone' = ctxDone \cup {s}
  /\ UNCHANGED <<at, result, tableVars, readVars, serverVars>>

\* Where a call goes with its result: Scan has a deferred removal to do.
Leave(c) == Goto(c, IF c \in Scan THEN "unhook" ELSE "returned")

TakeResponse(c) ==
  /\ at[c] = "waiting"
  /\ inbox[c] # None
  /\ inbox' = [inbox EXCEPT ![c] = None]
  /\ ReturnWith(c, inbox[c].what)
  /\ Leave(c)
  /\ UNCHANGED <<ctxDone, pending, notifyFns, readVars, serverVars>>

\* send alone also waits for done; its second look at the channel was empty.
\* The entry in pending is left to drainPending.
GiveUp(r) ==
  /\ at[r] = "waiting"
  /\ done
  /\ inbox[r] = None
  /\ ReturnWith(r, "lost")
  /\ Leave(r)
  /\ UNCHANGED <<ctxDone, tableVars, readVars, serverVars>>

NoticeCancel(s) ==
  /\ at[s] = "waiting"
  /\ s \in ctxDone
  /\ Goto(s, "cancelling")
  /\ UNCHANGED <<result, ctxDone, tableVars, readVars, serverVars>>

\* notifications/cancelled: handleCancelled needs no answer. A goroutine whose
\* context ends stops working at its next look at it.
WriteCancel(s) ==
  /\ at[s] = "cancelling"
  /\ loop = None
  /\ Goto(s, "awaiting")
  /\ task' = [task EXCEPT ![s] = IF @ = "working" THEN "stopping" ELSE @]
  /\ UNCHANGED <<result, ctxDone, tableVars, readVars, loop, notes>>

\* The response to a cancelled scan, a partial report, is thrown away.
DiscardResponse(s) ==
  /\ at[s] = "awaiting"
  /\ inbox[s] # None
  /\ inbox' = [inbox EXCEPT ![s] = None]
  /\ ReturnWith(s, "cancelled")
  /\ Leave(s)
  /\ UNCHANGED <<ctxDone, pending, notifyFns, readVars, serverVars>>

\* Mutant: the timeout leaves the entry in pending.
PendingKept(s) == pending

PendingAfterTimeout(s) == pending \ {s}

\* Mutant: the timer also runs for scans that nobody cancelled.
FiresWhileWaiting(s) == at[s] \in {"waiting", "awaiting"}

\* Mutant: the wait for the response is not bounded.
NeverFires(s) == FALSE

TimeoutFires(s) == at[s] = "awaiting"

TimeOut(s) ==
  /\ TimeoutFires(s)
  /\ pending' = PendingAfterTimeout(s)
  /\ ReturnWith(s, "cancelled")
  /\ Leave(s)
  /\ UNCHANGED <<ctxDone, inbox, notifyFns, readVars, serverVars>>

AwaitDone(s) ==
  /\ at[s] = "awaiting"
  /\ done
  /\ ReturnWith(s, "cancelled")
  /\ Leave(s)
  /\ UNCHANGED <<ctxDone, tableVars, readVars, serverVars>>

Unhook(s) ==
  /\ at[s] = "unhook"
  /\ notifyFns' = notifyFns \ {s}
  /\ Goto(s, "returned")
  /\ UNCHANGED <<result, ctxDone, pending, inbox, readVars, serverVars>>

--------------------------------------------------------------------------------
\* The server: every message is encoded under Server.mu and written to readLoop

ReaderTakes(m, l) ==
  /\ reader = "reading"
  /\ reader' = l
  /\ msg' = m
  /\ UNCHANGED done

Notify(s, k) ==
  /\ task[s] \in {"working", "stopping"}
  /\ notes[s] > 0
  /\ ReaderTakes([of |-> s, what |-> k], "note")
  /\ notes' = [notes EXCEPT ![s] = @ - 1]
  /\ UNCHANGED <<callVars, tableVars, loop, task>>

\* The modules end, fail, or reach max_duration_seconds.
WorkEnds(c) ==
  /\ task[c] \in {"working", "stopping"}
  /\ task' = [task EXCEPT ![c] = "answering"]
  /\ UNCHANGED <<callVars, tableVars, readVars, loop, notes>>

SendToolResult(c) ==
  /\ task[c] = "answering"
  /\ \E k \in Reply : ReaderTakes([of |-> c, what |-> k], "response")
  /\ task' = [task EXCEPT ![c] = "ended"]
  /\ UNCHANGED <<callVars, tableVars, loop, notes>>

\* The scanner of readLoop gives up in the middle of the line: the goroutine
\* that writes it keeps Server.mu for good, since nobody closes the pipe.
SendOversize(c) ==
  /\ Oversize
  /\ task[c] = "answering"
  /\ reader = "reading"
  /\ reader' = "closing"
  /\ UNCHANGED <<callVars, tableVars, msg, done, serverVars>>

LoopAnswers ==
  /\ loop # None
  /\ \E k \in Reply : ReaderTakes([of |-> loop, what |-> k], "response")
  /\ loop' = None
  /\ UNCHANGED <<callVars, tableVars, task, notes>>

--------------------------------------------------------------------------------
\* readLoop and drainPending

\* Mutant: responses are taken to come in the order of the requests.
FirstPending(m) == IF pending = {} THEN None ELSE CHOOSE c \in pending : TRUE

\* Mutant: a response that cannot be decoded is skipped.
AddresseeOfReport(m) == IF m.of \in pending /\ m.what = "report" THEN m.of ELSE None

Addressee(m) == IF m.of \in pending THEN m.of ELSE None

Found(c) == c # None

\* Mutant: the channel is looked up and not removed.
PendingAfterLookup(c) == pending

PendingAfterRoute(c) == pending \ {c}

RouteResponse ==
  LET c == Addressee(msg) IN
  /\ reader = "response"
  /\ pending' = PendingAfterRoute(c)
  /\ IF Found(c)
       THEN /\ reader' = "sending"
            /\ msg' = [to |-> c, body |-> msg]
       ELSE /\ reader' = "reading"
            /\ UNCHANGED msg
  /\ UNCHANGED <<callVars, inbox, notifyFns, done, serverVars>>

\* The send on a channel of capacity one blocks while it is full.
SendToCaller ==
  /\ reader = "sending"
  /\ inbox[msg.to] = None
  /\ inbox' = [inbox EXCEPT ![msg.to] = msg.body]
  /\ reader' = "reading" /\ msg' = None
  /\ UNCHANGED <<callVars, pending, notifyFns, done, serverVars>>

\* The token is in the params of a progress notification and of no other.
Token(m) == IF m.what = "progress" THEN m.of ELSE None

RouteNote ==
  /\ reader = "note"
  /\ reader' = IF Token(msg) \in notifyFns THEN "callback" ELSE "reading"
  /\ UNCHANGED <<callVars, tableVars, msg, done, serverVars>>

\* The callback runs with no lock; Scan may have returned since the lookup.
RunCallback ==
  /\ reader = "callback"
  /\ reader' = "reading"
  /\ UNCHANGED <<callVars, tableVars, msg, done, serverVars>>

CloseDone ==
  /\ reader = "closing"
  /\ reader' = "draining"
  /\ done' = TRUE
  /\ UNCHANGED <<callVars, tableVars, msg, serverVars>>

\* It sends with pendMu held, which would block on a full channel.
DrainPending ==
  /\ reader = "draining"
  /\ \A c \in pending : inbox[c] = None
  /\ inbox' = [c \in Caller |-> IF c \in pending THEN Lost ELSE inbox[c]]
  /\ pending' = {}
  /\ reader' = "exited"
  /\ UNCHANGED <<callVars, notifyFns, msg, done, serverVars>>

--------------------------------------------------------------------------------

ReadLoop == RouteResponse \/ SendToCaller \/ RouteNote \/ RunCallback
            \/ CloseDone \/ DrainPending

\* What a caller does when it is scheduled; its context is cancelled by others.
CallStep(c) ==
  \/ Register(c) \/ Write(c) \/ TakeResponse(c)
  \/ c \in Request /\ GiveUp(c)
  \/ c \in Scan /\ \/ NoticeCancel(c) \/ WriteCancel(c)
                   \/ DiscardResponse(c) \/ TimeOut(c) \/ AwaitDone(c) \/ Unhook(c)

TaskStep(c) == WorkEnds(c) \/ SendToolResult(c)

Next == \/ \E s \in Scan : Hook(s) \/ CancelContext(s)
        \/ \E c \in Caller : CallStep(c) \/ TaskStep(c) \/ SendOversize(c)
        \/ \E s \in Scan, k \in {"progress", "log"} : Notify(s, k)
        \/ LoopAnswers
        \/ ReadLoop

Spec == Init /\ [][Next]_vars

\* The goroutines of the connection run. A scan may work for ever: WorkEnds has
\* no fairness. Calls and notifications are finitely many, so weak fairness is
\* enough for a writer to find its reader in the end.
FairSpec ==
  /\ Spec
  /\ WF_vars(ReadLoop)
  /\ WF_vars(LoopAnswers)
  /\ \A c \in Caller : WF_vars(CallStep(c)) /\ WF_vars(SendToolResult(c))

--------------------------------------------------------------------------------
\* Properties

\* Concurrent calls never get one another's answers, whatever the order of the
\* answers (ids in readLoop).
OwnAnswer == \A c \in Caller : inbox[c] # None => inbox[c].of \in {c, None}

\* readLoop and drainPending never block on the channel of a caller, so one
\* slow or timed-out call cannot stop the answers to all others.
ReaderNeverBlocks ==
  /\ reader = "sending" => inbox[msg.to] = None
  /\ \A c \in pending : inbox[c] = None /\ (reader = "sending" => msg.to # c)

\* While the connection is up, every entry of the two tables belongs to a call
\* that is under way: timeouts and cancellations leave nothing behind.
NothingLeaks ==
  /\ ~done => \A c \in pending : at[c] \in Waiting
  /\ \A s \in notifyFns : at[s] \in Waiting \cup {"hooked", "unhook"}

\* A report is returned only for a scan that the server has finished, and a
\* cancellation only to a caller that asked for it (Scan, runMCP).
HonestOutcome ==
  \A s \in Scan :
    /\ result[s] = "report" => task[s] = "ended"
    /\ result[s] = "cancelled" => s \in ctxDone

\* A call returns once the server has done its work, whatever the other calls
\* and the server's run loop are blocked on: ScanManager assumes it of its
\* workers. (Unless readLoop itself ends: NobodyWaitsForever, below.)
AnsweredCallReturns ==
  \A c \in Caller :
    task[c] = "answering" \/ loop = c ~> at[c] = "returned" \/ reader = "exited"

\* A cancelled scan returns even if the server never answers it: the wait for
\* the acknowledgement is bounded (Scan).
CancelledScanReturns ==
  \A s \in Scan : at[s] # "idle" /\ s \in ctxDone ~> at[s] = "returned" \/ reader = "exited"

--------------------------------------------------------------------------------
\* What comments say, and the code does not do

\* "drainPending sends a synthetic error to every caller still waiting for a
\* response, preventing goroutine leaks when the read loop exits"
\* (mcpbridge.go): nobody waits for a response that cannot come.
NobodyWaitsForever ==
  reader = "exited" => \A s \in Scan : at[s] = "waiting" => inbox[s] # None
================================================================================
