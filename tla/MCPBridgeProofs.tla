---------------------------- MODULE MCPBridgeProofs ----------------------------
(* Theorems about MCPBridge, for every number of scans and requests that share  *)
(* the connection, any number of notifications, with and without the loss of    *)
(* the read loop.                                                               *)
EXTENDS MCPBridge, TLAPS

--------------------------------------------------------------------------------
\* The inductive invariant

Carried == [of : Caller, what : Reply]
Content == Carried \cup {Lost, None}

TypeOK ==
  /\ at \in [Caller -> At]
  /\ result \in [Caller -> Reply \cup {"none", "lost", "cancelled"}]
  /\ ctxDone \subseteq Scan
  /\ pending \subseteq Caller
  /\ inbox \in [Caller -> Content]
  /\ notifyFns \subseteq Scan
  /\ reader \in Reader
  /\ reader = "response" => msg \in Carried
  /\ reader = "sending" => msg \in [to : Caller, body : Carried]
  /\ done \in BOOLEAN
  /\ loop \in Request \cup {None}
  /\ task \in [Caller -> {"none", "working", "stopping", "answering", "ended"}]
  /\ notes \in [Scan -> 0..MaxNotes]

\* A call that is not registered has nothing in the tables or on its way, and the
\* server has not heard of it; registered, it still has to be written.
NewCallInv ==
  \A c \in Caller :
    /\ at[c] \in {"idle", "hooked"} =>
         /\ c \notin pending /\ inbox[c] = None
         /\ reader = "sending" => msg.to # c
    /\ at[c] \in {"idle", "hooked", "writing"} => task[c] = "none"

\* What readLoop is about to send is for the call whose id it carries, and the
\* answer to a scan comes from a goroutine that has ended.
InTransit(m) == m.of \in Scan => task[m.of] = "ended"
RouteInv ==
  /\ reader = "response" => InTransit(msg)
  /\ reader = "sending" => msg.body.of = msg.to /\ InTransit(msg.body)
  /\ \A s \in Scan : inbox[s] \notin {None, Lost} => task[s] = "ended"

\* Only a cancelled scan writes a cancellation or waits for its acknowledgement.
CancelInv == \A s \in Scan : at[s] \in {"cancelling", "awaiting"} => s \in ctxDone

IInv == /\ TypeOK
        /\ NewCallInv
        /\ RouteInv
        /\ CancelInv
        /\ OwnAnswer
        /\ ReaderNeverBlocks
        /\ NothingLeaks
        /\ HonestOutcome

USE DEF Caller, callVars, tableVars, readVars, serverVars

LEMMA InitInv ==
  ASSUME Init
  PROVE  IInv
<1>1. TypeOK
  <2>1. notes \in [Scan -> 0..MaxNotes]
    BY NoteAssumption DEF Init
  <2>2. inbox \in [Caller -> Content]
    BY DEF Init, Content
  <2> QED
    BY <2>1, <2>2 DEF Init, TypeOK, At, Reader
<1>2. NewCallInv /\ RouteInv /\ CancelInv
  BY DEF Init, NewCallInv, RouteInv, CancelInv
<1>3. OwnAnswer /\ ReaderNeverBlocks /\ NothingLeaks /\ HonestOutcome
  BY DEF Init, OwnAnswer, ReaderNeverBlocks, NothingLeaks, HonestOutcome
<1> QED
  BY <1>1, <1>2, <1>3 DEF IInv

USE CallerAssumption, NoteAssumption
USE DEF Content, Carried, Lost, Reply, Waiting, At, Reader
USE DEF IInv, TypeOK, NewCallInv, RouteInv, InTransit, CancelInv,
        OwnAnswer, ReaderNeverBlocks, NothingLeaks, HonestOutcome

--------------------------------------------------------------------------------
\* The callers

\* A call that is answered leaves nothing behind: what is in its channel was taken out
\* of `pending` when readLoop found it there.
LEMMA AnsweredIsUnregistered ==
  ASSUME IInv, NEW c \in Caller, inbox[c] # None
  PROVE  /\ c \notin pending /\ at[c] \notin {"idle", "hooked"}
         /\ reader = "sending" => msg.to # c
OBVIOUS

\* What both kinds of calls do.
LEMMA CallerStepInv ==
  ASSUME IInv, NEW c \in Caller, Register(c) \/ Write(c) \/ TakeResponse(c)
  PROVE  IInv'
<1>1. CASE Register(c)
  <2>1. inbox[c] = None /\ (reader = "sending" => msg.to # c) /\ task[c] = "none"
    BY <1>1 DEF Register
  <2> QED
    BY <1>1, <2>1 DEF Register, Goto
<1>2. CASE Write(c)
  BY <1>2 DEF Write, Goto
<1>3. CASE TakeResponse(c)
  <2>1. c \notin pending
    BY <1>3, AnsweredIsUnregistered DEF TakeResponse
  <2>2. inbox[c].what = "report" => (c \in Scan => task[c] = "ended")
    BY <1>3 DEF TakeResponse
  <2> QED
    BY <1>3, <2>1, <2>2 DEF TakeResponse, Goto, Leave, ReturnWith
<1> QED
  BY <1>1, <1>2, <1>3 DEF IInv

\* Scan: its callback, its cancellation, its ways out.
LEMMA ScanStepInv ==
  ASSUME IInv, NEW s \in Scan,
         \/ Hook(s) \/ CancelContext(s) \/ NoticeCancel(s) \/ WriteCancel(s)
         \/ DiscardResponse(s) \/ TimeOut(s) \/ AwaitDone(s) \/ Unhook(s)
  PROVE  IInv'
<1>1. CASE Hook(s)
  BY <1>1 DEF Hook, Goto
<1>2. CASE CancelContext(s)
  BY <1>2 DEF CancelContext
<1>3. CASE NoticeCancel(s)
  BY <1>3 DEF NoticeCancel, Goto
<1>4. CASE WriteCancel(s)
  BY <1>4 DEF WriteCancel, Goto
<1>5. CASE DiscardResponse(s)
  <2>1. s \notin pending
    BY <1>5, AnsweredIsUnregistered DEF DiscardResponse
  <2> QED
    BY <1>5, <2>1 DEF DiscardResponse, Goto, Leave, ReturnWith
<1>6. CASE TimeOut(s)
  BY <1>6 DEF TimeOut, Goto, Leave, ReturnWith, TimeoutFires, PendingAfterTimeout
<1>7. CASE AwaitDone(s)
  BY <1>7 DEF AwaitDone, Goto, Leave, ReturnWith
<1>8. CASE Unhook(s)
  BY <1>8 DEF Unhook, Goto
<1> QED
  BY <1>1, <1>2, <1>3, <1>4, <1>5, <1>6, <1>7, <1>8 DEF IInv

\* send alone gives up when the connection is lost; NothingLeaks speaks of the time before.
LEMMA GiveUpInv ==
  ASSUME IInv, NEW r \in Request, GiveUp(r)
  PROVE  IInv'
BY DEF GiveUp, Goto, Leave, ReturnWith

--------------------------------------------------------------------------------
\* The server

\* A goroutine of the server answers once, with the id of its own call.
LEMMA TaskStepInv ==
  ASSUME IInv, NEW c \in Caller, WorkEnds(c) \/ SendToolResult(c) \/ SendOversize(c)
  PROVE  IInv'
<1>1. CASE WorkEnds(c)
  BY <1>1 DEF WorkEnds
<1>2. CASE SendToolResult(c)
  BY <1>2 DEF SendToolResult, ReaderTakes
<1>3. CASE SendOversize(c)
  BY <1>3 DEF SendOversize
<1> QED
  BY <1>1, <1>2, <1>3 DEF IInv

\* Notifications carry a token that is never taken for an id.
LEMMA NotifyInv ==
  ASSUME IInv, NEW s \in Scan, NEW k \in {"progress", "log"}, Notify(s, k)
  PROVE  IInv'
BY DEF Notify, ReaderTakes

\* The run loop answers a request, never a scan.
LEMMA LoopAnswersInv ==
  ASSUME IInv, LoopAnswers
  PROVE  IInv'
BY DEF LoopAnswers, ReaderTakes

--------------------------------------------------------------------------------
\* readLoop

\* A channel gets one answer: its call leaves `pending` before the answer is sent, and
\* whoever is drained was still there.
LEMMA ReadLoopInv ==
  ASSUME IInv, ReadLoop
  PROVE  IInv'
<1>1. CASE RouteResponse
  <2>1. CASE msg.of \in pending
    <3>1. Addressee(msg) = msg.of /\ Found(msg.of)
      BY <1>1, <2>1 DEF RouteResponse, Addressee, Found
    <3>2. /\ reader' = "sending" /\ msg' = [to |-> msg.of, body |-> msg]
          /\ pending' = pending \ {msg.of}
      BY <1>1, <3>1 DEF RouteResponse, PendingAfterRoute
    <3>3. inbox[msg.of] = None
      BY <2>1
    <3> QED
      BY <1>1, <2>1, <3>2, <3>3 DEF RouteResponse
  <2>2. CASE msg.of \notin pending
    <3>1. reader' = "reading" /\ pending' = pending
      BY <1>1, <2>2 DEF RouteResponse, Addressee, Found, PendingAfterRoute
    <3> QED
      BY <1>1, <3>1 DEF RouteResponse
  <2> QED
    BY <2>1, <2>2
<1>2. CASE SendToCaller
  <2>1. msg.to \notin pending /\ at[msg.to] \notin {"idle", "hooked"}
    BY <1>2 DEF SendToCaller
  <2>2. msg.body.of = msg.to
    BY <1>2 DEF SendToCaller
  <2> QED
    BY <1>2, <2>1, <2>2 DEF SendToCaller
<1>3. CASE RouteNote
  BY <1>3 DEF RouteNote
<1>4. CASE RunCallback
  BY <1>4 DEF RunCallback
<1>5. CASE CloseDone
  BY <1>5 DEF CloseDone
<1>6. CASE DrainPending
  BY <1>6 DEF DrainPending
<1> QED
  BY <1>1, <1>2, <1>3, <1>4, <1>5, <1>6 DEF ReadLoop

--------------------------------------------------------------------------------
\* Theorems

LEMMA NextInv ==
  ASSUME IInv, Next
  PROVE  IInv'
<1>1. ASSUME NEW s \in Scan, Hook(s) \/ CancelContext(s) PROVE IInv'
  BY <1>1, ScanStepInv
<1>2. ASSUME NEW c \in Caller, CallStep(c) \/ TaskStep(c) \/ SendOversize(c) PROVE IInv'
  BY <1>2, CallerStepInv, ScanStepInv, GiveUpInv, TaskStepInv DEF CallStep, TaskStep
<1>3. ASSUME NEW s \in Scan, NEW k \in {"progress", "log"}, Notify(s, k) PROVE IInv'
  BY <1>3, NotifyInv
<1>4. CASE LoopAnswers
  BY <1>4, LoopAnswersInv
<1>5. CASE ReadLoop
  BY <1>5, ReadLoopInv
<1> QED
  BY <1>1, <1>2, <1>3, <1>4, <1>5 DEF Next

\* Every reachable state satisfies the inductive invariant, for any sets of scans and
\* requests, any number of notifications and responses of any length.
THEOREM Invariance == Spec => []IInv
<1>1. Init => IInv
  BY InitInv
<1>2. IInv /\ [Next]_vars => IInv'
  <2> SUFFICES ASSUME IInv, [Next]_vars PROVE IInv'
    OBVIOUS
  <2>1. CASE Next
    BY <2>1, NextInv
  <2>2. CASE UNCHANGED vars
    BY <2>2 DEF vars
  <2> QED
    BY <2>1, <2>2
<1> QED
  BY <1>1, <1>2, PTL DEF Spec

\* An answer never reaches another call than the one whose id it carries (readLoop).
THEOREM AnswersAreOwn == Spec => []OwnAnswer
BY Invariance, PTL

\* readLoop and drainPending never block on a caller: each channel gets one value
\* at most, so its capacity of one suffices (readLoop, drainPending).
THEOREM ReaderIsFree == Spec => []ReaderNeverBlocks
BY Invariance, PTL

\* While the connection is up, a call that is over has left both tables (Scan, send).
THEOREM TablesAreClean == Spec => []NothingLeaks
BY Invariance, PTL

\* A report comes from a scan that has ended, a cancellation was asked for (Scan).
THEOREM OutcomesAreHonest == Spec => []HonestOutcome
BY Invariance, PTL
================================================================================
