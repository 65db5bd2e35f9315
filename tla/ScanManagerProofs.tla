--------------------------- MODULE ScanManagerProofs ---------------------------
(* Theorems about ScanManager, for every number of jobs, names, workers and    *)
(* concurrent calls, every queue capacity and any number of restarts.          *)
EXTENDS ScanManager, TLAPS

--------------------------------------------------------------------------------
\* The inductive invariant

\* What the place a worker has reached says of the job it holds.
WorkerInv ==
  \A w \in Worker :
    /\ (pc[w] = "idle") <=> (cur[w] = None)
    /\ pc[w] = "start" => status[cur[w]] \in {"queued", "cancelled"}
    /\ pc[w] \in Executing => status[cur[w]] = "running"
    /\ pc[w] = "settle" =>
         /\ outcome[w] \in Terminal
         /\ \/ status[cur[w]] = "running"
            \/ status[cur[w]] = "cancelled" /\ outcome[w] = "cancelled"
    /\ pc[w] = "refresh" => status[cur[w]] \in Terminal

\* Two workers never hold the same job.
HolderInv == \A v, w \in Worker : v # w /\ cur[v] # None => cur[v] # cur[w]

\* A queued job is in the queue once, in no worker's hands, and not started.
QueueInv ==
  \A i \in 1..Len(queue) :
    /\ status[queue[i]] \in {"queued", "cancelled"}
    /\ \A w \in Worker : cur[w] # queue[i]
    /\ \A k \in 1..Len(queue) : k # i => queue[k] # queue[i]

\* An accepted job has a name.
NameInv == \A j \in Job : status[j] # "none" => base[j] \in Base

\* Only jobs whose server died have children without a server.
OrphanInv == \A j \in Job : orphan[j] # "none" => status[j] = "lost"

IInv == /\ TypeOK
        /\ WorkerInv
        /\ HolderInv
        /\ QueueInv
        /\ NameInv
        /\ OrphanInv
        /\ LiveJobIsListed
        /\ RunningIsCancellable
        /\ NoJobStranded
        /\ QueueNeverOverfull

USE DEF Job, jobVars, workVars, callVars, hostVars, diskVars

--------------------------------------------------------------------------------
\* Types

\* Replacing the content of one file keeps the results directory well formed.
LEMMA FileWrite ==
  ASSUME NEW f \in [Stem -> [Ext -> Content \cup {None}]],
         NEW s, NEW e, NEW v \in Content \cup {None}
  PROVE  [f EXCEPT ![s] = [@ EXCEPT ![e] = v]] \in [Stem -> [Ext -> Content \cup {None}]]
OBVIOUS

\* What is written is content, and tells its kind and its scan.
LEMMA Contents ==
  \A j \in Job :
    /\ {ReportOf(j), SidecarOf(j), CutOf(j), LogOf(j)} \subseteq Content \ {None}
    /\ ReportOf(j).kind = "report" /\ SidecarOf(j).kind = "sidecar" /\ CutOf(j).kind = "cut"
    /\ ReportOf(j).of = j /\ SidecarOf(j).of = j /\ CutOf(j).of = j
BY JobAssumption DEF Content, ReportOf, SidecarOf, CutOf, LogOf

\* Saving a report keeps the results directory well formed.
LEMMA SaveTypes ==
  ASSUME files \in [Stem -> [Ext -> Content \cup {None}]], NEW j \in Job, NEW e, Save(j, e)
  PROVE  files' \in [Stem -> [Ext -> Content \cup {None}]]
<1>1. ReportOf(j) \in Content \cup {None} BY Contents
<1> QED BY <1>1, FileWrite DEF Save

\* The steps of a worker keep the types.
LEMMA WorkerTypes ==
  ASSUME TypeOK, WorkerInv, NEW w \in Worker, WorkerStep(w)
  PROVE  TypeOK'
<1> USE JobAssumption DEF TypeOK, PC, Executing, ChildPC, Goto
<1>0. cur[w] \in Job \cup {None} /\ (pc[w] # "idle" => cur[w] \in Job)
  BY DEF WorkerInv
<1>1. CASE Dequeue(w)
  BY <1>1 DEF Dequeue
<1>2. CASE SkipCancelled(w)
  BY <1>2 DEF SkipCancelled, SettleWith, Outcome, Terminal
<1>3. CASE StartRun(w)
  BY <1>3 DEF StartRun, InstallCancel, Status, Live
<1>4. CASE SpawnFails(w)
  BY <1>4 DEF SpawnFails, SettleWith, Outcome, Terminal
<1>5. CASE Spawn(w)
  BY <1>5 DEF Spawn
<1>6. CASE ChildReports(w)
  BY <1>6 DEF ChildReports
<1>7. CASE ChildSavesJSON(w)
  <2>1. files' \in [Stem -> [Ext -> Content \cup {None}]]
    BY <1>0, <1>7, SaveTypes DEF ChildSavesJSON, SaveOrFail
  <2> QED BY <1>7, <2>1 DEF ChildSavesJSON
<1>8. CASE ChildSavesMarkdown(w)
  <2>1. files' \in [Stem -> [Ext -> Content \cup {None}]]
    BY <1>0, <1>8, SaveTypes DEF ChildSavesMarkdown, SaveOrFail
  <2> QED BY <1>8, <2>1 DEF ChildSavesMarkdown, Outcome
<1>9. CASE ChildDies(w)
  BY <1>9 DEF ChildDies, Outcome
<1>10. CASE Decide(w)
  BY <1>10 DEF Decide, SettleWith, Verdict, Outcome, Terminal
<1>11. CASE ScanFails(w)
  BY <1>11 DEF ScanFails, SettleWith, Outcome, Terminal
<1>12. CASE ScanReturns(w)
  BY <1>12 DEF ScanReturns
<1>13. CASE ResultSavesJSON(w)
  BY <1>0, <1>13, SaveTypes DEF ResultSavesJSON
<1>14. CASE ResultSavesMarkdown(w)
  BY <1>0, <1>14, SaveTypes DEF ResultSavesMarkdown, SettleWith, Outcome, Terminal
<1>15. CASE ResultFails(w)
  BY <1>15 DEF ResultFails, SettleWith, Outcome, Terminal
<1>16. CASE Finish(w)
  BY <1>16 DEF Finish, WorkerInv, Outcome, Status, Terminal
<1>17. CASE RefreshReportMeta(w)
  BY <1>17 DEF RefreshReportMeta, ReportFiles
<1> QED
  BY <1>1, <1>2, <1>3, <1>4, <1>5, <1>6, <1>7, <1>8, <1>9, <1>10, <1>11, <1>12,
     <1>13, <1>14, <1>15, <1>16, <1>17 DEF WorkerStep, RunCLI, RunMCP

\* Type correctness is preserved by every step; only the status that finish
\* writes needs more than the types, and that is in WorkerInv.
LEMMA NextTypes ==
  ASSUME TypeOK, WorkerInv, Next
  PROVE  TypeOK'
<1> USE JobAssumption DEF TypeOK
<1>1. ASSUME NEW j \in Job, NEW b \in Base, Submit(j, b) PROVE TypeOK'
  <2>1. PICK how \in {"saved"} \cup SidecarFailures :
          /\ files' = [files EXCEPT
               ![b] = [@ EXCEPT !["log"] = LogOf(j)],
               ![SidecarName[b]] = [@ EXCEPT !["json"] = SidecarAfter(how, j, b)]]
          /\ unsaved' = IF how = "open" THEN unsaved \cup {j} ELSE unsaved
    BY <1>1 DEF Submit
  <2>2. SidecarName[b] \in Stem /\ b \in Stem /\ SidecarName[b] # b
    BY NameAssumption DEF Stem
  <2>3. SidecarAfter(how, j, b) \in Content \cup {None} /\ LogOf(j) \in Content
    BY <2>2, Contents, SidecarAssumption DEF SidecarAfter, Ext
  <2>a. files' \in [Stem -> [Ext -> Content \cup {None}]] /\ unsaved' \subseteq Job
    BY <2>1, <2>2, <2>3
  <2>4. queue' \in Seq(Job)
    BY <1>1 DEF Submit, Register
  <2>5. /\ jobs' \in [Base -> Job \cup {None}]
        /\ status' \in [Job -> Status]
        /\ base' \in [Job -> Base \cup {None}]
    BY <1>1 DEF Submit, Register, Status, Live
  <2> QED BY <1>1, <2>a, <2>4, <2>5 DEF Submit
<1>2. ASSUME NEW c \in Canceller, NEW b \in Base, CancelLookup(c, b) PROVE TypeOK'
  BY <1>2 DEF CancelLookup
<1>3. ASSUME NEW c \in Canceller, CancelStep(c) PROVE TypeOK'
  <2>1. CASE CancelRunning(c) BY <2>1 DEF CancelRunning, Fire
  <2>2. CASE CancelQueued(c)  BY <2>2 DEF CancelQueued, Fire, Status, Terminal
  <2>3. CASE CancelRefused(c) BY <2>3 DEF CancelRefused
  <2> QED BY <1>3, <2>1, <2>2, <2>3 DEF CancelStep
<1>4. ASSUME NEW d \in Deleter, NEW b \in Base, DeleteEvict(d, b) PROVE TypeOK'
  BY <1>4 DEF DeleteEvict
<1>5. ASSUME NEW d \in Deleter, DeleteFile(d) PROVE TypeOK'
  <2>1. files' \in [Stem -> [Ext -> Content \cup {None}]]
    BY <1>5, FileWrite DEF DeleteFile
  <2>2. delNext' \in [Deleter -> 0..4]
    <3>1. Len(Removed) = 4
      BY DEF Removed
    <3>2. /\ delNext[d] \in 1..4
          /\ delNext' = [delNext EXCEPT ![d] = DeleteNext(delNext[d])]
      BY <1>5 DEF DeleteFile
    <3> QED BY <3>1, <3>2 DEF DeleteNext
  <2> QED BY <1>5, <2>1, <2>2 DEF DeleteFile
<1>6. ASSUME NEW w \in Worker, WorkerStep(w) PROVE TypeOK'
  BY <1>6, WorkerTypes
<1>7. CASE Restart
  BY <1>7, RestartAssumption
     DEF Restart, OrphanStage, PC, ChildPC, Outcome, Status, Live, Terminal
<1>8. ASSUME NEW j \in Job, NEW e \in Report, OrphanSaves(j, e) PROVE TypeOK'
  <2>1. files' \in [Stem -> [Ext -> Content \cup {None}]]
    BY <1>8, SaveTypes DEF OrphanSaves
  <2> QED BY <1>8, <2>1 DEF OrphanSaves, ChildPC
<1>9. ASSUME NEW j \in Job, OrphanDies(j) PROVE TypeOK'
  BY <1>9 DEF OrphanDies
<1> QED
  BY <1>1, <1>2, <1>3, <1>4, <1>5, <1>6, <1>7, <1>8, <1>9 DEF Next

--------------------------------------------------------------------------------
\* The other parts of the invariant

\* A step that leaves the queue, the workers and every status alone, and takes
\* no cancel func away, preserves the invariant.
LEMMA FrameStep ==
  ASSUME IInv, TypeOK',
         UNCHANGED <<jobs, queue, status, base, workVars>>,
         \A j \in Job : cancelFn'[j] = "nil" => cancelFn[j] = "nil",
         \A j \in Job : orphan'[j] # "none" => orphan[j] # "none"
  PROVE  IInv'
<1> USE DEF IInv
<1>1. WorkerInv' BY DEF WorkerInv
<1>2. HolderInv' BY DEF HolderInv
<1>3. QueueInv'  BY DEF QueueInv
<1>4. NameInv'   BY DEF NameInv
<1>5. OrphanInv' BY DEF OrphanInv
<1>6. LiveJobIsListed' BY DEF LiveJobIsListed
<1>7. RunningIsCancellable' BY DEF RunningIsCancellable
<1>8. NoJobStranded' BY DEF NoJobStranded, InQueue
<1>9. QueueNeverOverfull' BY DEF QueueNeverOverfull
<1> QED BY <1>1, <1>2, <1>3, <1>4, <1>5, <1>6, <1>7, <1>8, <1>9

\* So does a worker that moves on with a running job, or with one it found
\* cancelled, towards finish.
LEMMA MoveStep ==
  ASSUME IInv, TypeOK',
         NEW w \in Worker, NEW l \in Executing \cup {"settle"},
         UNCHANGED <<jobs, queue, status, base, cancelFn, cur, orphan>>,
         Goto(w, l),
         \A v \in Worker \ {w} : outcome'[v] = outcome[v],
         l = "settle" => outcome'[w] \in Terminal,
         \/ pc[w] \in Executing
         \/ /\ pc[w] = "start" /\ l = "settle"
            /\ status[cur[w]] = "cancelled" /\ outcome'[w] = "cancelled"
  PROVE  IInv'
<1> USE DEF IInv
<1>0. /\ pc'[w] = l /\ \A v \in Worker \ {w} : pc'[v] = pc[v]
      /\ l # "idle" /\ l # "start" /\ l # "refresh" /\ l \in Executing \cup {"settle"}
  BY DEF Goto, TypeOK, Executing, ChildPC
<1>1. WorkerInv'
  BY <1>0 DEF WorkerInv, Executing, ChildPC
<1>2. HolderInv' BY DEF HolderInv
<1>3. QueueInv'  BY DEF QueueInv
<1>4. NameInv'   BY DEF NameInv
<1>5. OrphanInv' BY DEF OrphanInv
<1>6. LiveJobIsListed' BY DEF LiveJobIsListed
<1>7. RunningIsCancellable' BY DEF RunningIsCancellable
<1>8. NoJobStranded'
  <2> SUFFICES ASSUME NEW j \in Job
               PROVE  /\ status[j] = "queued" =>
                           InQueue(j) \/ \E v \in Worker : cur[v] = j /\ pc'[v] = "start"
                      /\ status[j] = "running" =>
                           \E v \in Worker : cur[v] = j /\ pc'[v] \in Executing \cup {"settle"}
    BY DEF NoJobStranded, InQueue
  <2>1. CASE status[j] = "queued"
    <3>1. InQueue(j) \/ \E v \in Worker : cur[v] = j /\ pc[v] = "start"
      BY <2>1 DEF NoJobStranded
    <3>2. ASSUME NEW v \in Worker, cur[v] = j, pc[v] = "start" PROVE v # w
      BY <2>1, <3>2 DEF WorkerInv, Executing, ChildPC
    <3> QED BY <1>0, <2>1, <3>1, <3>2
  <2>2. CASE status[j] = "running"
    BY <1>0, <2>2 DEF NoJobStranded
  <2> QED BY <2>1, <2>2
<1>9. QueueNeverOverfull' BY DEF QueueNeverOverfull
<1> QED BY <1>1, <1>2, <1>3, <1>4, <1>5, <1>6, <1>7, <1>8, <1>9

\* Submit keeps the invariant: the new scan is in the queue, and nowhere else.
LEMMA SubmitStep ==
  ASSUME IInv, TypeOK', NEW j \in Job, NEW b \in Base, Submit(j, b)
  PROVE  IInv'
<1> USE DEF IInv
<1>0. /\ status[j] = "none" /\ jobs[b] = None /\ Len(queue) < QueueCapacity
      /\ jobs' = [jobs EXCEPT ![b] = j]
      /\ queue' = Append(queue, j)
      /\ status' = [status EXCEPT ![j] = "queued"]
      /\ base' = [base EXCEPT ![j] = b]
      /\ UNCHANGED <<cancelFn, workVars, orphan>>
  BY DEF Submit, Accepts, Register
<1>a. /\ Len(queue') = Len(queue) + 1 /\ queue'[Len(queue) + 1] = j
      /\ \A i \in 1..Len(queue) : queue'[i] = queue[i]
      /\ Len(queue) \in Nat
  BY <1>0 DEF TypeOK
<1>b. /\ \A w \in Worker : cur[w] # j
      /\ \A i \in 1..Len(queue) : queue[i] # j
  <2>1. ASSUME NEW w \in Worker, cur[w] = j PROVE FALSE
    <3>1. pc[w] \in PC /\ pc[w] # "idle"
      BY <2>1, JobAssumption DEF WorkerInv, TypeOK
    <3> QED BY <1>0, <2>1, <3>1 DEF WorkerInv, PC, Terminal
  <2>2. \A i \in 1..Len(queue) : queue[i] # j
    BY <1>0 DEF QueueInv
  <2> QED BY <2>1, <2>2
<1>1. WorkerInv'
  BY <1>0, <1>b, JobAssumption DEF WorkerInv, TypeOK
<1>2. HolderInv' BY <1>0 DEF HolderInv
<1>3. QueueInv'
  <2> SUFFICES ASSUME NEW i \in 1..Len(queue')
               PROVE  /\ status'[queue'[i]] \in {"queued", "cancelled"}
                      /\ \A w \in Worker : cur'[w] # queue'[i]
                      /\ \A k \in 1..Len(queue') : k # i => queue'[k] # queue'[i]
    BY DEF QueueInv
  <2>1. CASE i = Len(queue) + 1
    BY <1>0, <1>a, <1>b, <2>1 DEF TypeOK
  <2>2. CASE i \in 1..Len(queue)
    <3>1. queue'[i] = queue[i] /\ queue[i] \in Job /\ queue[i] # j
      BY <1>a, <1>b, <2>2 DEF TypeOK
    <3>2. /\ status[queue[i]] \in {"queued", "cancelled"}
          /\ \A w \in Worker : cur[w] # queue[i]
          /\ \A k \in 1..Len(queue) : k # i => queue[k] # queue[i]
      BY <2>2 DEF QueueInv
    <3>3. \A k \in 1..Len(queue') : k # i => queue'[k] # queue'[i]
      BY <1>a, <3>1, <3>2
    <3> QED BY <1>0, <3>1, <3>2, <3>3 DEF TypeOK
  <2> QED BY <1>a, <2>1, <2>2
<1>4. NameInv'   BY <1>0 DEF NameInv, TypeOK
<1>5. OrphanInv' BY <1>0 DEF OrphanInv, TypeOK
<1>6. LiveJobIsListed'
  BY <1>0, JobAssumption DEF LiveJobIsListed, NameInv, TypeOK, Live
<1>7. RunningIsCancellable' BY <1>0 DEF RunningIsCancellable, TypeOK
<1>8. NoJobStranded'
  <2>1. \A k \in Job : InQueue(k) => InQueue(k)'
    BY <1>a DEF InQueue
  <2>2. InQueue(j)'
    BY <1>a DEF InQueue
  <2> QED BY <1>0, <2>1, <2>2 DEF NoJobStranded, TypeOK
<1>9. QueueNeverOverfull'
  BY <1>0, <1>a, QueueAssumption DEF QueueNeverOverfull
<1> QED BY <1>1, <1>2, <1>3, <1>4, <1>5, <1>6, <1>7, <1>8, <1>9

\* Cancelling a queued scan keeps the invariant; it stays in the queue.
LEMMA CancelQueuedStep ==
  ASSUME IInv, TypeOK', NEW c \in Canceller, CancelQueued(c)
  PROVE  IInv'
<1> USE DEF IInv
<1> DEFINE j == held[c]
<1>0. /\ j \in Job /\ status[j] = "queued"
      /\ status' = [status EXCEPT ![j] = "cancelled"]
      /\ \A k \in Job : cancelFn'[k] = "nil" => cancelFn[k] = "nil"
      /\ UNCHANGED <<jobs, queue, base, workVars, orphan>>
  BY DEF CancelQueued, Fire, TypeOK
<1> HIDE DEF j
<1>1. WorkerInv'
  BY <1>0, JobAssumption DEF WorkerInv, TypeOK, PC, Executing, ChildPC, Terminal
<1>2. HolderInv' BY <1>0 DEF HolderInv
<1>3. QueueInv'  BY <1>0 DEF QueueInv, TypeOK
<1>4. NameInv'   BY <1>0 DEF NameInv, TypeOK
<1>5. OrphanInv' BY <1>0 DEF OrphanInv, TypeOK
<1>6. LiveJobIsListed' BY <1>0 DEF LiveJobIsListed, TypeOK, Live
<1>7. RunningIsCancellable' BY <1>0 DEF RunningIsCancellable, TypeOK
<1>8. NoJobStranded' BY <1>0 DEF NoJobStranded, InQueue, TypeOK
<1>9. QueueNeverOverfull' BY <1>0 DEF QueueNeverOverfull
<1> QED BY <1>1, <1>2, <1>3, <1>4, <1>5, <1>6, <1>7, <1>8, <1>9

\* Evicting a job whose status is not pending takes no pending job off the map.
LEMMA DeleteEvictStep ==
  ASSUME IInv, TypeOK', NEW d \in Deleter, NEW b \in Base, DeleteEvict(d, b)
  PROVE  IInv'
<1> USE DEF IInv
<1>0. /\ jobs' = [jobs EXCEPT ![b] = None]
      /\ \A j \in Job : jobs[b] = j => status[j] \notin Live
      /\ UNCHANGED <<queue, jobVars, workVars, orphan>>
  BY DEF DeleteEvict, MayDelete
<1>1. WorkerInv' BY <1>0 DEF WorkerInv
<1>2. HolderInv' BY <1>0 DEF HolderInv
<1>3. QueueInv'  BY <1>0 DEF QueueInv
<1>4. NameInv'   BY <1>0 DEF NameInv
<1>5. OrphanInv' BY <1>0 DEF OrphanInv
<1>6. LiveJobIsListed' BY <1>0 DEF LiveJobIsListed, TypeOK
<1>7. RunningIsCancellable' BY <1>0 DEF RunningIsCancellable
<1>8. NoJobStranded' BY <1>0 DEF NoJobStranded, InQueue
<1>9. QueueNeverOverfull' BY <1>0 DEF QueueNeverOverfull
<1> QED BY <1>1, <1>2, <1>3, <1>4, <1>5, <1>6, <1>7, <1>8, <1>9

\* Taking a scan from the queue keeps the invariant: it is now held by one worker.
LEMMA DequeueStep ==
  ASSUME IInv, TypeOK', NEW w \in Worker, Dequeue(w)
  PROVE  IInv'
<1> USE DEF IInv
<1> DEFINE j == Head(queue)
<1>0. /\ pc[w] = "idle" /\ queue # <<>>
      /\ cur' = [cur EXCEPT ![w] = j]
      /\ queue' = Tail(queue)
      /\ pc' = [pc EXCEPT ![w] = "start"]
      /\ UNCHANGED <<jobs, jobVars, outcome, orphan>>
  BY DEF Dequeue, Goto
<1>a. /\ j = queue[1] /\ Len(queue) \in Nat /\ 1 \in 1..Len(queue)
      /\ Len(queue') = Len(queue) - 1
      /\ \A i \in 1..Len(queue') : queue'[i] = queue[i + 1] /\ i + 1 \in 1..Len(queue)
  BY <1>0 DEF TypeOK
<1>b. /\ j \in Job /\ status[j] \in {"queued", "cancelled"}
      /\ \A v \in Worker : cur[v] # j
      /\ \A k \in 1..Len(queue) : k # 1 => queue[k] # j
  BY <1>a DEF QueueInv, TypeOK
<1> HIDE DEF j
<1>1. WorkerInv'
  BY <1>0, <1>b, JobAssumption DEF WorkerInv, TypeOK, Executing, ChildPC
<1>2. HolderInv'
  BY <1>0, <1>b DEF HolderInv, TypeOK
<1>3. QueueInv'
  <2> SUFFICES ASSUME NEW i \in 1..Len(queue')
               PROVE  /\ status'[queue'[i]] \in {"queued", "cancelled"}
                      /\ \A v \in Worker : cur'[v] # queue'[i]
                      /\ \A k \in 1..Len(queue') : k # i => queue'[k] # queue'[i]
    BY DEF QueueInv
  <2>1. /\ queue'[i] = queue[i + 1] /\ i + 1 \in 1..Len(queue) /\ i + 1 # 1
        /\ \A k \in 1..Len(queue') : queue'[k] = queue[k + 1] /\ k + 1 \in 1..Len(queue)
    BY <1>a
  <2>2. /\ status[queue[i + 1]] \in {"queued", "cancelled"}
        /\ \A v \in Worker : cur[v] # queue[i + 1]
        /\ \A k \in 1..Len(queue) : k # i + 1 => queue[k] # queue[i + 1]
    BY <2>1 DEF QueueInv
  <2>3. \A k \in 1..Len(queue') : k # i => queue'[k] # queue'[i]
    BY <2>1, <2>2
  <2>4. queue'[i] # j
    BY <1>b, <2>1
  <2> QED BY <1>0, <2>1, <2>2, <2>3, <2>4 DEF TypeOK
<1>4. NameInv'   BY <1>0 DEF NameInv
<1>5. OrphanInv' BY <1>0 DEF OrphanInv
<1>6. LiveJobIsListed' BY <1>0 DEF LiveJobIsListed
<1>7. RunningIsCancellable' BY <1>0 DEF RunningIsCancellable
<1>8. NoJobStranded'
  <2> SUFFICES ASSUME NEW k \in Job
               PROVE  /\ status[k] = "queued" =>
                           \/ InQueue(k)'
                           \/ \E v \in Worker : cur'[v] = k /\ pc'[v] = "start"
                      /\ status[k] = "running" =>
                           \E v \in Worker : cur'[v] = k /\ pc'[v] \in Executing \cup {"settle"}
    BY <1>0 DEF NoJobStranded
  <2>1. ASSUME NEW v \in Worker, cur[v] = k PROVE cur'[v] = k /\ pc'[v] = pc[v]
    BY <1>0, <2>1, JobAssumption DEF WorkerInv, TypeOK
  <2>2. CASE InQueue(k)
    <3>1. PICK i \in 1..Len(queue) : queue[i] = k
      BY <2>2 DEF InQueue
    <3>2. CASE i = 1
      BY <1>0, <1>a, <1>b, <3>1, <3>2 DEF TypeOK
    <3>3. CASE i # 1
      <4>1. i - 1 \in 1..Len(queue') /\ queue'[i - 1] = k
        BY <1>a, <3>1, <3>3
      <4>2. InQueue(k)'
        BY <4>1 DEF InQueue
      <4>3. status[k] # "running"
        BY <3>1 DEF QueueInv
      <4> QED BY <4>2, <4>3
    <3> QED BY <3>2, <3>3
  <2>3. CASE ~InQueue(k)
    BY <2>1, <2>3 DEF NoJobStranded
  <2> QED BY <2>2, <2>3
<1>9. QueueNeverOverfull'
  BY <1>a, QueueAssumption DEF QueueNeverOverfull
<1> QED BY <1>1, <1>2, <1>3, <1>4, <1>5, <1>6, <1>7, <1>8, <1>9

\* No other worker holds the job that w holds, and it is not in the queue.
LEMMA HeldOnce ==
  ASSUME IInv, NEW w \in Worker, cur[w] \in Job
  PROVE  /\ \A v \in Worker \ {w} : cur[v] # cur[w]
         /\ ~InQueue(cur[w])
BY JobAssumption DEF IInv, HolderInv, QueueInv, InQueue

\* Starting a scan keeps the invariant.
LEMMA StartRunStep ==
  ASSUME IInv, TypeOK', NEW w \in Worker, StartRun(w)
  PROVE  IInv'
<1> USE DEF IInv
<1> DEFINE j == cur[w]
<1>0. /\ pc[w] = "start" /\ status[j] # "cancelled"
      /\ cancelFn' = [cancelFn EXCEPT ![j] = "armed"]
      /\ status' = [status EXCEPT ![j] = "running"]
      /\ pc' = [pc EXCEPT ![w] = IF j \in CliJob THEN "spawn" ELSE "bridge"]
      /\ UNCHANGED <<jobs, queue, base, cur, outcome, orphan>>
  BY DEF StartRun, Startable, InstallCancel, Goto
<1>a. j \in Job /\ status[j] = "queued"
  BY <1>0 DEF WorkerInv, TypeOK
<1>b. (\A v \in Worker \ {w} : cur[v] # j) /\ ~InQueue(j)
  BY <1>a, HeldOnce
<1>c. pc'[w] \in Executing /\ pc'[w] \notin {"idle", "start", "settle", "refresh"}
  BY <1>0 DEF TypeOK, Executing, ChildPC
<1> HIDE DEF j
<1>1. WorkerInv'
  <2>1. j = cur[w] BY DEF j
  <2> QED BY <1>0, <1>a, <1>b, <1>c, <2>1, JobAssumption DEF WorkerInv, TypeOK
<1>2. HolderInv' BY <1>0 DEF HolderInv
<1>3. QueueInv'
  BY <1>0, <1>a, <1>b DEF QueueInv, InQueue, TypeOK
<1>4. NameInv'   BY <1>0, <1>a DEF NameInv, TypeOK
<1>5. OrphanInv' BY <1>0, <1>a DEF OrphanInv, TypeOK
<1>6. LiveJobIsListed' BY <1>0, <1>a DEF LiveJobIsListed, TypeOK, Live
<1>7. RunningIsCancellable' BY <1>0, <1>a DEF RunningIsCancellable, TypeOK
<1>8. NoJobStranded'
  <2>1. j = cur[w] BY DEF j
  <2>2. \A k \in Job \ {j} : \A v \in Worker : cur[v] = k => pc'[v] = pc[v]
    BY <1>0, <2>1 DEF TypeOK
  <2> SUFFICES ASSUME NEW k \in Job
               PROVE  /\ status'[k] = "queued" =>
                           \/ InQueue(k)'
                           \/ \E v \in Worker : cur'[v] = k /\ pc'[v] = "start"
                      /\ status'[k] = "running" =>
                           \E v \in Worker : cur'[v] = k /\ pc'[v] \in Executing \cup {"settle"}
    BY DEF NoJobStranded
  <2>3. CASE k = j
    BY <1>0, <1>a, <1>c, <2>1, <2>3 DEF TypeOK
  <2>4. CASE k # j
    <3>1. status'[k] = status[k] /\ (InQueue(k) => InQueue(k)')
      BY <1>0, <2>4 DEF InQueue, TypeOK
    <3> QED BY <1>0, <2>2, <2>4, <3>1 DEF NoJobStranded
  <2> QED BY <2>3, <2>4
<1>9. QueueNeverOverfull' BY <1>0 DEF QueueNeverOverfull
<1> QED BY <1>1, <1>2, <1>3, <1>4, <1>5, <1>6, <1>7, <1>8, <1>9

\* finish: the status becomes final while the worker still holds the job.
LEMMA FinishStep ==
  ASSUME IInv, TypeOK', NEW w \in Worker, Finish(w)
  PROVE  IInv'
<1> USE DEF IInv
<1> DEFINE j == cur[w]
<1>0. /\ pc[w] = "settle"
      /\ status' = [status EXCEPT ![j] = outcome[w]]
      /\ pc' = [pc EXCEPT ![w] = "refresh"]
      /\ outcome' = [outcome EXCEPT ![w] = "none"]
      /\ UNCHANGED <<jobs, queue, base, cancelFn, cur, orphan>>
  BY DEF Finish, Goto
<1>a. /\ j \in Job /\ status[j] \in {"running", "cancelled"} /\ outcome[w] \in Terminal
  BY <1>0 DEF WorkerInv, TypeOK
<1>b. (\A v \in Worker \ {w} : cur[v] # j) /\ ~InQueue(j)
  BY <1>a, HeldOnce
<1>c. j = cur[w] OBVIOUS
<1> HIDE DEF j
<1>1. WorkerInv'
  BY <1>0, <1>a, <1>b, <1>c, JobAssumption DEF WorkerInv, TypeOK, Executing, ChildPC
<1>2. HolderInv' BY <1>0 DEF HolderInv
<1>3. QueueInv'
  BY <1>0, <1>a, <1>b DEF QueueInv, InQueue, TypeOK
<1>4. NameInv'   BY <1>0, <1>a DEF NameInv, TypeOK
<1>5. OrphanInv' BY <1>0, <1>a DEF OrphanInv, TypeOK
<1>6. LiveJobIsListed' BY <1>0, <1>a DEF LiveJobIsListed, TypeOK, Live, Terminal
<1>7. RunningIsCancellable' BY <1>0, <1>a DEF RunningIsCancellable, TypeOK, Terminal
<1>8. NoJobStranded'
  <2>1. \A k \in Job \ {j} : \A v \in Worker : cur[v] = k => pc'[v] = pc[v]
    BY <1>0, <1>c DEF TypeOK
  <2> SUFFICES ASSUME NEW k \in Job
               PROVE  /\ status'[k] = "queued" =>
                           \/ InQueue(k)'
                           \/ \E v \in Worker : cur'[v] = k /\ pc'[v] = "start"
                      /\ status'[k] = "running" =>
                           \E v \in Worker : cur'[v] = k /\ pc'[v] \in Executing \cup {"settle"}
    BY DEF NoJobStranded
  <2>2. CASE k = j
    BY <1>0, <1>a, <2>2 DEF TypeOK, Terminal
  <2>3. CASE k # j
    <3>1. status'[k] = status[k] /\ (InQueue(k) => InQueue(k)')
      BY <1>0, <2>3 DEF InQueue, TypeOK
    <3> QED BY <1>0, <2>1, <2>3, <3>1 DEF NoJobStranded
  <2> QED BY <2>2, <2>3
<1>9. QueueNeverOverfull' BY <1>0 DEF QueueNeverOverfull
<1> QED BY <1>1, <1>2, <1>3, <1>4, <1>5, <1>6, <1>7, <1>8, <1>9

\* A worker that lets go of its scan keeps the invariant.
LEMMA RefreshStep ==
  ASSUME IInv, TypeOK', NEW w \in Worker, RefreshReportMeta(w)
  PROVE  IInv'
<1> USE DEF IInv
<1>0. /\ pc[w] = "refresh"
      /\ pc' = [pc EXCEPT ![w] = "idle"]
      /\ cur' = [cur EXCEPT ![w] = None]
      /\ UNCHANGED <<jobs, queue, status, base, cancelFn, outcome, orphan>>
  BY DEF RefreshReportMeta, Goto
<1>1. WorkerInv' BY <1>0 DEF WorkerInv, TypeOK, Executing, ChildPC
<1>2. HolderInv' BY <1>0 DEF HolderInv, TypeOK
<1>3. QueueInv'
  BY <1>0, JobAssumption DEF QueueInv, TypeOK
<1>4. NameInv'   BY <1>0 DEF NameInv
<1>5. OrphanInv' BY <1>0 DEF OrphanInv
<1>6. LiveJobIsListed' BY <1>0 DEF LiveJobIsListed
<1>7. RunningIsCancellable' BY <1>0 DEF RunningIsCancellable
<1>8. NoJobStranded'
  <2>1. ASSUME NEW v \in Worker, pc[v] \in Executing \cup {"settle", "start"}
        PROVE  cur'[v] = cur[v] /\ pc'[v] = pc[v]
    BY <1>0, <2>1 DEF TypeOK, Executing, ChildPC
  <2>2. \A k \in Job : InQueue(k)' <=> InQueue(k)
    BY <1>0 DEF InQueue
  <2> QED BY <1>0, <2>1, <2>2 DEF NoJobStranded
<1>9. QueueNeverOverfull' BY <1>0 DEF QueueNeverOverfull
<1> QED BY <1>1, <1>2, <1>3, <1>4, <1>5, <1>6, <1>7, <1>8, <1>9

\* Nothing is pending after a restart, so most parts hold for want of a job.
LEMMA RestartStep ==
  ASSUME IInv, TypeOK', Restart
  PROVE  IInv'
<1> USE DEF IInv
<1>0. /\ jobs' = [b \in Base |-> None]
      /\ queue' = <<>>
      /\ status' = [j \in Job |-> IF status[j] \in Live THEN "lost" ELSE status[j]]
      /\ pc' = [w \in Worker |-> "idle"]
      /\ cur' = [w \in Worker |-> None]
      /\ orphan' = [j \in Job |-> OrphanStage(j)]
      /\ base' = base
  BY DEF Restart
<1>1. WorkerInv' BY <1>0 DEF WorkerInv, Executing, ChildPC
<1>2. HolderInv' BY <1>0 DEF HolderInv
<1>3. QueueInv'  BY <1>0 DEF QueueInv
<1>4. NameInv'   BY <1>0 DEF NameInv, TypeOK, Live
<1>5. OrphanInv'
  <2> SUFFICES ASSUME NEW j \in Job, OrphanStage(j) # "none"
               PROVE  status'[j] = "lost"
    BY <1>0 DEF OrphanInv
  <2>1. CASE \E w \in Worker : cur[w] = j /\ pc[w] \in ChildPC
    BY <1>0, <2>1 DEF WorkerInv, Executing, Live
  <2>2. CASE ~\E w \in Worker : cur[w] = j /\ pc[w] \in ChildPC
    BY <1>0, <2>2 DEF OrphanStage, OrphanInv, Live
  <2> QED BY <2>1, <2>2
<1>6. \A j \in Job : status'[j] \notin Live
  BY <1>0 DEF Live
<1>7. LiveJobIsListed' BY <1>6 DEF LiveJobIsListed
<1>8. RunningIsCancellable' BY <1>6 DEF RunningIsCancellable, Live
<1>9. NoJobStranded' BY <1>6 DEF NoJobStranded, Live
<1>10. QueueNeverOverfull' BY <1>0, QueueAssumption DEF QueueNeverOverfull
<1> QED BY <1>1, <1>2, <1>3, <1>4, <1>5, <1>7, <1>8, <1>9, <1>10

\* Every step of a worker keeps the invariant.
LEMMA WorkerStepInv ==
  ASSUME IInv, TypeOK', NEW w \in Worker, WorkerStep(w)
  PROVE  IInv'
<1> USE DEF Executing, ChildPC, SettleWith, Terminal
<1>0. outcome \in [Worker -> Outcome]
  BY DEF IInv, TypeOK
<1>1. CASE Dequeue(w)        BY <1>1, DequeueStep
<1>2. CASE SkipCancelled(w)  BY <1>0, <1>2, MoveStep DEF SkipCancelled
<1>3. CASE StartRun(w)       BY <1>3, StartRunStep
<1>4. CASE SpawnFails(w)     BY <1>0, <1>4, MoveStep DEF SpawnFails
<1>5. CASE Spawn(w)          BY <1>5, MoveStep DEF Spawn
<1>6. CASE ChildReports(w)   BY <1>6, MoveStep DEF ChildReports
<1>7. CASE ChildSavesJSON(w) BY <1>7, MoveStep DEF ChildSavesJSON
<1>8. CASE ChildSavesMarkdown(w)
  BY <1>0, <1>8, MoveStep DEF ChildSavesMarkdown
<1>9. CASE ChildDies(w)      BY <1>0, <1>9, MoveStep DEF ChildDies
<1>10. CASE Decide(w)
  BY <1>0, <1>10, MoveStep DEF Decide, Verdict
<1>11. CASE ScanFails(w)     BY <1>0, <1>11, MoveStep DEF ScanFails
<1>12. CASE ScanReturns(w)   BY <1>12, MoveStep DEF ScanReturns
<1>13. CASE ResultSavesJSON(w) BY <1>13, MoveStep DEF ResultSavesJSON
<1>14. CASE ResultSavesMarkdown(w)
  BY <1>0, <1>14, MoveStep DEF ResultSavesMarkdown
<1>15. CASE ResultFails(w)   BY <1>0, <1>15, MoveStep DEF ResultFails
<1>16. CASE Finish(w)        BY <1>16, FinishStep
<1>17. CASE RefreshReportMeta(w) BY <1>17, RefreshStep
<1> QED
  BY <1>1, <1>2, <1>3, <1>4, <1>5, <1>6, <1>7, <1>8, <1>9, <1>10, <1>11, <1>12,
     <1>13, <1>14, <1>15, <1>16, <1>17 DEF WorkerStep, RunCLI, RunMCP

\* The invariant holds at the start.
LEMMA InitInv == Init => IInv
<1> SUFFICES ASSUME Init PROVE IInv
  OBVIOUS
<1> USE DEF Init
<1>1. TypeOK
  BY DEF TypeOK, Status, PC, Outcome, Ext
<1>2. /\ WorkerInv /\ HolderInv /\ QueueInv /\ NameInv /\ OrphanInv
  BY DEF WorkerInv, HolderInv, QueueInv, NameInv, OrphanInv, Executing, ChildPC
<1>3. LiveJobIsListed /\ RunningIsCancellable /\ NoJobStranded
  BY DEF LiveJobIsListed, RunningIsCancellable, NoJobStranded, Live
<1>4. QueueNeverOverfull
  BY QueueAssumption DEF QueueNeverOverfull
<1> QED BY <1>1, <1>2, <1>3, <1>4 DEF IInv

\* Every step keeps the invariant.
LEMMA NextInv ==
  ASSUME IInv, [Next]_vars
  PROVE  IInv'
<1>1. CASE UNCHANGED vars
  <2>1. TypeOK' BY <1>1 DEF vars, IInv, TypeOK
  <2> QED BY <1>1, <2>1, FrameStep DEF vars
<1>2. CASE Next
  <2>0. TypeOK'
    BY <1>2, NextTypes DEF IInv
  <2>1. ASSUME NEW j \in Job, NEW b \in Base, Submit(j, b) PROVE IInv'
    BY <2>0, <2>1, SubmitStep
  <2>2. ASSUME NEW c \in Canceller, NEW b \in Base, CancelLookup(c, b) PROVE IInv'
    BY <2>0, <2>2, FrameStep DEF CancelLookup
  <2>3. ASSUME NEW c \in Canceller, CancelStep(c) PROVE IInv'
    <3>1. CASE CancelRunning(c)
      <4>1. \A j \in Job : cancelFn'[j] = "nil" => cancelFn[j] = "nil"
        BY <3>1 DEF CancelRunning, Fire, IInv, TypeOK
      <4> QED BY <2>0, <3>1, <4>1, FrameStep DEF CancelRunning
    <3>2. CASE CancelQueued(c)  BY <2>0, <3>2, CancelQueuedStep
    <3>3. CASE CancelRefused(c) BY <2>0, <3>3, FrameStep DEF CancelRefused
    <3> QED BY <2>3, <3>1, <3>2, <3>3 DEF CancelStep
  <2>4. ASSUME NEW d \in Deleter, NEW b \in Base, DeleteEvict(d, b) PROVE IInv'
    BY <2>0, <2>4, DeleteEvictStep
  <2>5. ASSUME NEW d \in Deleter, DeleteFile(d) PROVE IInv'
    BY <2>0, <2>5, FrameStep DEF DeleteFile
  <2>6. ASSUME NEW w \in Worker, WorkerStep(w) PROVE IInv'
    BY <2>0, <2>6, WorkerStepInv
  <2>7. CASE Restart
    BY <2>0, <2>7, RestartStep
  <2>8. ASSUME NEW j \in Job, NEW e \in Report, OrphanSaves(j, e) PROVE IInv'
    <3>1. \A k \in Job : orphan'[k] # "none" => orphan[k] # "none"
      BY <2>8 DEF OrphanSaves, IInv, TypeOK
    <3> QED BY <2>0, <2>8, <3>1, FrameStep DEF OrphanSaves
  <2>9. ASSUME NEW j \in Job, OrphanDies(j) PROVE IInv'
    <3>1. \A k \in Job : orphan'[k] # "none" => orphan[k] # "none"
      BY <2>9 DEF OrphanDies, IInv, TypeOK
    <3> QED BY <2>0, <2>9, <3>1, FrameStep DEF OrphanDies
  <2> QED
    BY <1>2, <2>1, <2>2, <2>3, <2>4, <2>5, <2>6, <2>7, <2>8, <2>9 DEF Next
<1> QED BY <1>1, <1>2

\* The invariant holds in every reachable state of the scan manager: what the
\* place of each worker says of its job, who holds a job, and what is listed.
THEOREM Invariance == Spec => []IInv
<1>1. Init => IInv BY InitInv
<1>2. IInv /\ [Next]_vars => IInv' BY NextInv
<1> QED BY <1>1, <1>2, PTL DEF Spec

--------------------------------------------------------------------------------
\* The invariants the runs check

\* Every variable of the manager keeps its type.
THEOREM TypeCorrect == Spec => []TypeOK
<1>1. IInv => TypeOK BY DEF IInv
<1> QED BY <1>1, Invariance, PTL

\* An accepted scan is never lost sight of: a queued one is in the queue or in
\* the hands of a worker, a running one has a worker that will finish it
\* (Submit, worker, run, runMCP).
THEOREM NothingStranded == Spec => []NoJobStranded
<1>1. IInv => NoJobStranded BY DEF IInv
<1> QED BY <1>1, Invariance, PTL

\* Delete never evicts a pending scan and Submit never shadows one: the map
\* leads from its name to it.
THEOREM PendingIsListed == Spec => []LiveJobIsListed
<1>1. IInv => LiveJobIsListed BY DEF IInv
<1> QED BY <1>1, Invariance, PTL

\* F-7: whoever sees a scan Running under its lock also sees its cancel func.
THEOREM Cancellable == Spec => []RunningIsCancellable
<1>1. IInv => RunningIsCancellable BY DEF IInv
<1> QED BY <1>1, Invariance, PTL

\* The queue never holds more than its capacity, so Submit's send, made while
\* Manager.mu is held, does not block.
THEOREM QueueBounded == Spec => []QueueNeverOverfull
<1>1. IInv => QueueNeverOverfull BY DEF IInv
<1> QED BY <1>1, Invariance, PTL
================================================================================
