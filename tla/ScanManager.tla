------------------------------ MODULE ScanManager ------------------------------
(* The scan manager of the web server (src/webui/jobs.go): the map of live     *)
(* jobs, the bounded queue, the worker pool, Cancel and Delete, the files of a *)
(* scan in the results directory, and the loss of everything in memory when    *)
(* the server dies.                                                            *)
(*                                                                             *)
(* An action is one critical section (Manager.mu or Job.mu), one effect on the *)
(* disk, or one event of the CLI child process or of the MCP bridge.           *)
EXTENDS Naturals, Sequences

CONSTANTS
  CliJob,          \* *Job values Submit may allocate (Source "webui")
  McpJob,          \* *Job values SubmitMCP may allocate (Source "mcp")
  Base,            \* output base names
  SidecarName,     \* [Base -> names]: the base name whose .json is this name's sidecar
  Worker,          \* worker goroutines (numWorkers)
  Canceller,       \* concurrent calls of Cancel
  Deleter,         \* concurrent calls of Delete
  QueueCapacity,   \* queueCapacity
  HasBridge,       \* Manager.bridge # nil
  SidecarFailures, \* ways writeScanMeta may fail: "open", "write"
  MaxRestarts,     \* bound: how often the server dies and is started again
  None

Job == CliJob \cup McpJob

\* Files are named by a stem and an extension. The sidecar of "foo" is
\* "foo.meta.json", and "foo.meta" is an output base name too (outputNameRe), so
\* the sidecar of one scan and the JSON report of another may be one file.
Stem == Base \cup {SidecarName[b] : b \in Base}

\* What a file holds: a report, a sidecar or a log of the scan "of", or what a
\* failed write left of a sidecar, which exists but cannot be read.
Content == [kind : {"report", "sidecar", "cut", "log"}, of : Job]

ReportOf(j)  == [kind |-> "report", of |-> j]
SidecarOf(j) == [kind |-> "sidecar", of |-> j]
CutOf(j)     == [kind |-> "cut", of |-> j]
LogOf(j)     == [kind |-> "log", of |-> j]

ASSUME JobAssumption ==
  CliJob \cap McpJob = {} /\ None \notin Job \cup Base \cup Content
\* Appending ".meta" changes a name, and two names differently.
ASSUME NameAssumption ==
  /\ \A b \in Base : SidecarName[b] # b
  /\ \A a, b \in Base : SidecarName[a] = SidecarName[b] => a = b
ASSUME QueueAssumption == QueueCapacity \in Nat \ {0}
ASSUME BridgeAssumption == HasBridge \in BOOLEAN
ASSUME SidecarAssumption == SidecarFailures \subseteq {"open", "write"}
ASSUME RestartAssumption == MaxRestarts \in Nat

VARIABLES
  jobs,      \* Manager.jobs: [Base -> Job or None]
  queue,     \* Manager.queue
  status,    \* Job.Status; "none" before Submit, "lost" once the server died under it
  base,      \* Job.ID
  cancelFn,  \* Job.cancel: "nil", "armed" (installed), "fired" (context cancelled)
  closed,    \* Job.closed: the subscribers' channels and the log file are closed
  hasReport, \* Job.hasJSON and Job.hasMD, as the set of extensions seen
  files,     \* files[s][e]: what the file s.e holds, None if absent
  unsaved,   \* history: the scans whose sidecar could not be opened by Submit
  pc,        \* where each worker goroutine is
  cur,       \* the job a worker took from the queue
  outcome,   \* the exit of the child, then the status the worker will finish with
  held,      \* Cancel: the job found in the map, before its lock is taken
  delBase,   \* Delete: the base whose files are being removed
  delNext,   \* Delete: index in Removed of the next file to remove, 0 if none
  orphan,    \* children that outlived their server: what each is about to do
  restarts   \* how often the server has died

jobVars  == <<status, base, cancelFn, closed, hasReport>>
workVars == <<pc, cur, outcome>>
callVars == <<held, delBase, delNext>>
hostVars == <<orphan, restarts>>
diskVars == <<files, unsaved>>
vars == <<jobs, queue, jobVars, diskVars, workVars, callVars, hostVars>>

Live     == {"queued", "running"}
Terminal == {"done", "failed", "cancelled"}
Status   == Live \cup Terminal \cup {"none", "lost"}

Ext     == {"json", "md", "log"}
Report  == {"json", "md"}
Removed == <<"json", "md", "log", "meta">>

ChildPC   == {"child", "savejson", "savemd"}
Executing == ChildPC \cup {"spawn", "exited", "bridge", "result", "resultmd"}
PC        == Executing \cup {"idle", "start", "settle", "refresh"}
Outcome   == Terminal \cup {"none", "exit0", "exit130", "exiterr"}

Init ==
  /\ jobs = [b \in Base |-> None]
  /\ queue = <<>>
  /\ status = [j \in Job |-> "none"]
  /\ base = [j \in Job |-> None]
  /\ cancelFn = [j \in Job |-> "nil"]
  /\ closed = [j \in Job |-> FALSE]
  /\ hasReport = [j \in Job |-> {}]
  /\ files = [s \in Stem |-> [e \in Ext |-> None]]
  /\ unsaved = {}
  /\ pc = [w \in Worker |-> "idle"]
  /\ cur = [w \in Worker |-> None]
  /\ outcome = [w \in Worker |-> "none"]
  /\ held = [c \in Canceller |-> None]
  /\ delBase = [d \in Deleter |-> None]
  /\ delNext = [d \in Deleter |-> 0]
  /\ orphan = [j \in Job |-> "none"]
  /\ restarts = 0

--------------------------------------------------------------------------------
\* Submit and SubmitMCP

\* What the sidecar holds after writeScanMeta: a failed open leaves the old
\* file, a failed write a truncated one. The job is accepted in every case.
SidecarAfter(how, j, b) ==
  CASE how = "saved" -> SidecarOf(j)
    [] how = "write" -> CutOf(j)
    [] how = "open"  -> files[SidecarName[b]]["json"]

Register(j, b) ==
  /\ jobs' = [jobs EXCEPT ![b] = j]
  /\ queue' = Append(queue, j)
  /\ status' = [status EXCEPT ![j] = "queued"]
  /\ base' = [base EXCEPT ![j] = b]

\* Mutant: only the live jobs are asked whether the name is free.
AcceptsReportOnDisk(b) == jobs[b] = None /\ Len(queue) < QueueCapacity

\* Mutant: only the results directory is asked whether the name is free.
AcceptsLiveName(b) == files[b]["json"] = None /\ Len(queue) < QueueCapacity

\* Mutant: the full queue is noticed one job too late.
AcceptsOneTooMany(b) ==
  jobs[b] = None /\ files[b]["json"] = None /\ Len(queue) <= QueueCapacity

\* The name is free among the live jobs and the JSON files (os.Stat also finds
\* the sidecar of another name there), and the send on the queue will not block.
Accepts(b) ==
  /\ jobs[b] = None
  /\ files[b]["json"] = None
  /\ Len(queue) < QueueCapacity

\* One critical section of Manager.mu; the rejections change nothing.
Submit(j, b) ==
  /\ status[j] = "none"
  /\ Accepts(b)
  /\ \E how \in {"saved"} \cup SidecarFailures :
       /\ files' = [files EXCEPT
            ![b] = [@ EXCEPT !["log"] = LogOf(j)],
            ![SidecarName[b]] = [@ EXCEPT !["json"] = SidecarAfter(how, j, b)]]
       /\ unsaved' = IF how = "open" THEN unsaved \cup {j} ELSE unsaved
  /\ Register(j, b)
  /\ UNCHANGED <<cancelFn, closed, hasReport, workVars, callVars, hostVars>>

--------------------------------------------------------------------------------
\* Cancel: the lookup under Manager.mu and the effect under Job.mu

CancelLookup(c, b) ==
  /\ held[c] = None
  /\ jobs[b] # None
  /\ held' = [held EXCEPT ![c] = jobs[b]]
  /\ UNCHANGED <<jobs, queue, jobVars, diskVars, workVars, delBase, delNext, hostVars>>

Fire(j) ==
  cancelFn' = [cancelFn EXCEPT ![j] = IF @ = "nil" THEN "nil" ELSE "fired"]

CancelRunning(c) ==
  LET j == held[c] IN
  /\ j # None
  /\ status[j] = "running"
  /\ Fire(j)
  /\ held' = [held EXCEPT ![c] = None]
  /\ UNCHANGED <<jobs, queue, status, base, closed, hasReport, diskVars, workVars,
                 delBase, delNext, hostVars>>

\* Only the status changes: the job stays in the queue and its subscribers
\* wait until a worker takes it out.
CancelQueued(c) ==
  LET j == held[c] IN
  /\ j # None
  /\ status[j] = "queued"
  /\ Fire(j)
  /\ status' = [status EXCEPT ![j] = "cancelled"]
  /\ held' = [held EXCEPT ![c] = None]
  /\ UNCHANGED <<jobs, queue, base, closed, hasReport, diskVars, workVars,
                 delBase, delNext, hostVars>>

\* "the scan already finished"
CancelRefused(c) ==
  LET j == held[c] IN
  /\ j # None
  /\ status[j] \in Terminal
  /\ held' = [held EXCEPT ![c] = None]
  /\ UNCHANGED <<jobs, queue, jobVars, diskVars, workVars, delBase, delNext, hostVars>>

--------------------------------------------------------------------------------
\* Delete: eviction under Manager.mu, then the files one by one with no lock.
\* A terminal status never changes (TerminalIsFinal), so reading it and
\* evicting the job are one step.

\* Mutant: only a running scan is protected.
MayDeleteQueued(b) == \A j \in Job : jobs[b] = j => status[j] # "running"

MayDelete(b) == \A j \in Job : jobs[b] = j => status[j] \notin Live

DeleteEvict(d, b) ==
  /\ delNext[d] = 0
  /\ MayDelete(b)
  /\ jobs' = [jobs EXCEPT ![b] = None]
  /\ delBase' = [delBase EXCEPT ![d] = b]
  /\ delNext' = [delNext EXCEPT ![d] = 1]
  /\ UNCHANGED <<queue, jobVars, diskVars, workVars, held, hostVars>>

\* Mutant: the loop runs past the last extension.
DeleteNextTooFar(n) == IF n > Len(Removed) THEN 0 ELSE n + 1

DeleteNext(n) == IF n = Len(Removed) THEN 0 ELSE n + 1

\* The path that the n-th turn of the loop removes.
RemovedStem(b, n) == IF Removed[n] = "meta" THEN SidecarName[b] ELSE b
RemovedExt(n) == IF Removed[n] = "meta" THEN "json" ELSE Removed[n]

DeleteFile(d) ==
  LET n == delNext[d] IN
  /\ n # 0
  /\ files' = [files EXCEPT ![RemovedStem(delBase[d], n)] =
                 [@ EXCEPT ![RemovedExt(n)] = None]]
  /\ delNext' = [delNext EXCEPT ![d] = DeleteNext(n)]
  /\ delBase' = [delBase EXCEPT ![d] = IF DeleteNext(n) = 0 THEN None ELSE @]
  /\ UNCHANGED <<jobs, queue, unsaved, jobVars, workVars, held, hostVars>>

--------------------------------------------------------------------------------
\* worker: take a job, run it, finish it

Goto(w, l) == pc' = [pc EXCEPT ![w] = l]

\* The worker has decided the status it will pass to finish.
SettleWith(w, s) ==
  /\ Goto(w, "settle")
  /\ outcome' = [outcome EXCEPT ![w] = s]

Dequeue(w) ==
  /\ pc[w] = "idle"
  /\ queue # <<>>
  /\ cur' = [cur EXCEPT ![w] = Head(queue)]
  /\ queue' = Tail(queue)
  /\ Goto(w, "start")
  /\ UNCHANGED <<jobs, jobVars, diskVars, outcome, callVars, hostVars>>

\* Mutant: the worker returns without calling finish.
SkipSilently(w) ==
  /\ pc[w] = "start"
  /\ status[cur[w]] = "cancelled"
  /\ Goto(w, "idle")
  /\ cur' = [cur EXCEPT ![w] = None]
  /\ UNCHANGED <<jobs, queue, jobVars, diskVars, outcome, callVars, hostVars>>

SkipCancelled(w) ==
  /\ pc[w] = "start"
  /\ status[cur[w]] = "cancelled"
  /\ SettleWith(w, "cancelled")
  /\ UNCHANGED <<jobs, queue, jobVars, diskVars, cur, callVars, hostVars>>

\* Mutant: a job is started whatever Cancel did to it in the queue.
StartsAnyway(j) == TRUE

Startable(j) == status[j] # "cancelled"

\* Mutant: the status is set and the cancel func is not.
InstallNothing(j) == UNCHANGED cancelFn

InstallCancel(j) == cancelFn' = [cancelFn EXCEPT ![j] = "armed"]

\* F-7: the cancel func and the Running status are set in one critical section.
StartRun(w) ==
  LET j == cur[w] IN
  /\ pc[w] = "start"
  /\ Startable(j)
  /\ InstallCancel(j)
  /\ status' = [status EXCEPT ![j] = "running"]
  /\ Goto(w, IF j \in CliJob THEN "spawn" ELSE "bridge")
  /\ UNCHANGED <<jobs, queue, base, closed, hasReport, diskVars, cur, outcome,
                 callVars, hostVars>>

\* Pipes or cmd.Start fail; cmd.Start also fails when ctx is already cancelled.
SpawnFails(w) ==
  /\ pc[w] = "spawn"
  /\ SettleWith(w, "failed")
  /\ UNCHANGED <<jobs, queue, jobVars, diskVars, cur, callVars, hostVars>>

Spawn(w) ==
  /\ pc[w] = "spawn"
  /\ cancelFn[cur[w]] = "armed"
  /\ Goto(w, "child")
  /\ UNCHANGED <<jobs, queue, jobVars, diskVars, cur, outcome, callVars, hostVars>>

\* The child: the modules end, or SIGINT cuts them short; either way
\* GenerateReport saves the JSON and then the Markdown, each best-effort.
ChildReports(w) ==
  /\ pc[w] = "child"
  /\ Goto(w, "savejson")
  /\ UNCHANGED <<jobs, queue, jobVars, diskVars, cur, outcome, callVars, hostVars>>

Save(j, e) == files' = [files EXCEPT ![base[j]] = [@ EXCEPT ![e] = ReportOf(j)]]

SaveOrFail(j, e) == Save(j, e) \/ UNCHANGED files

ChildSavesJSON(w) ==
  /\ pc[w] = "savejson"
  /\ SaveOrFail(cur[w], "json")
  /\ Goto(w, "savemd")
  /\ UNCHANGED <<jobs, queue, unsaved, jobVars, cur, outcome, callVars, hostVars>>

ChildSavesMarkdown(w) ==
  /\ pc[w] = "savemd"
  /\ SaveOrFail(cur[w], "md")
  /\ Goto(w, "exited")
  /\ \E x \in {"exit0", "exit130"} : outcome' = [outcome EXCEPT ![w] = x]
  /\ UNCHANGED <<jobs, queue, unsaved, jobVars, cur, callVars, hostVars>>

\* Exit with another code: bad arguments, a crash, the SIGKILL that WaitDelay
\* sends after a cancellation.
ChildDies(w) ==
  /\ pc[w] \in ChildPC
  /\ Goto(w, "exited")
  /\ outcome' = [outcome EXCEPT ![w] = "exiterr"]
  /\ UNCHANGED <<jobs, queue, jobVars, diskVars, cur, callVars, hostVars>>

\* The switch after cmd.Wait.
Verdict(j, x) ==
  IF cancelFn[j] = "fired" \/ x = "exit130" THEN "cancelled"
  ELSE IF x = "exit0" THEN "done" ELSE "failed"

Decide(w) ==
  /\ pc[w] = "exited"
  /\ SettleWith(w, Verdict(cur[w], outcome[w]))
  /\ UNCHANGED <<jobs, queue, jobVars, diskVars, cur, callVars, hostVars>>

\* runMCP: there is no bridge, or Scan returns an error (it does when ctx ends).
ScanFails(w) ==
  /\ pc[w] = "bridge"
  /\ SettleWith(w, IF HasBridge /\ cancelFn[cur[w]] = "fired"
                     THEN "cancelled" ELSE "failed")
  /\ UNCHANGED <<jobs, queue, jobVars, diskVars, cur, callVars, hostVars>>

ScanReturns(w) ==
  /\ pc[w] = "bridge"
  /\ HasBridge
  /\ Goto(w, "result")
  /\ UNCHANGED <<jobs, queue, jobVars, diskVars, cur, outcome, callVars, hostVars>>

\* writeReportToDisk: the JSON, then the Markdown; the first error fails the job.
ResultSavesJSON(w) ==
  /\ pc[w] = "result"
  /\ Save(cur[w], "json")
  /\ Goto(w, "resultmd")
  /\ UNCHANGED <<jobs, queue, unsaved, jobVars, cur, outcome, callVars, hostVars>>

ResultSavesMarkdown(w) ==
  /\ pc[w] = "resultmd"
  /\ Save(cur[w], "md")
  /\ SettleWith(w, "done")
  /\ UNCHANGED <<jobs, queue, unsaved, jobVars, cur, callVars, hostVars>>

\* Mutant: recover logs the panic and does not finish the job.
ResultForgotten(w) ==
  /\ pc[w] \in {"bridge", "result", "resultmd"}
  /\ HasBridge
  /\ Goto(w, "idle")
  /\ cur' = [cur EXCEPT ![w] = None]
  /\ UNCHANGED <<jobs, queue, jobVars, diskVars, outcome, callVars, hostVars>>

\* A write of the report fails, or the bridge call or the rendering panics and
\* worker's recover takes over.
ResultFails(w) ==
  /\ pc[w] \in {"bridge", "result", "resultmd"}
  /\ HasBridge
  /\ SettleWith(w, "failed")
  /\ UNCHANGED <<jobs, queue, jobVars, diskVars, cur, callVars, hostVars>>

\* finish, first critical section: the subscribers are released here.
Finish(w) ==
  LET j == cur[w] IN
  /\ pc[w] = "settle"
  /\ status' = [status EXCEPT ![j] = outcome[w]]
  /\ closed' = [closed EXCEPT ![j] = TRUE]
  /\ Goto(w, "refresh")
  /\ outcome' = [outcome EXCEPT ![w] = "none"]
  /\ UNCHANGED <<jobs, queue, base, cancelFn, hasReport, diskVars, cur, callVars, hostVars>>

\* Mutant: the flag of the Markdown file is taken from the JSON file.
ReportFilesByJSON(j) == {e \in Report : files[base[j]]["json"] # None}

ReportFiles(j) == {e \in Report : files[base[j]][e] # None}

\* finish, second critical section, and the worker is free again.
RefreshReportMeta(w) ==
  LET j == cur[w] IN
  /\ pc[w] = "refresh"
  /\ hasReport' = [hasReport EXCEPT ![j] = ReportFiles(j)]
  /\ Goto(w, "idle")
  /\ cur' = [cur EXCEPT ![w] = None]
  /\ UNCHANGED <<jobs, queue, status, base, cancelFn, closed, diskVars, outcome,
                 callVars, hostVars>>

--------------------------------------------------------------------------------
\* Death of the server and NewManager of the next one

OrphanStage(j) ==
  IF \E w \in Worker : cur[w] = j /\ pc[w] \in ChildPC
    THEN pc[CHOOSE w \in Worker : cur[w] = j] ELSE orphan[j]

Restart ==
  /\ restarts < MaxRestarts
  /\ restarts' = restarts + 1
  /\ jobs' = [b \in Base |-> None]
  /\ queue' = <<>>
  /\ status' = [j \in Job |-> IF status[j] \in Live THEN "lost" ELSE status[j]]
  /\ cancelFn' = [j \in Job |-> "nil"]
  /\ hasReport' = [j \in Job |-> {}]
  /\ orphan' = [j \in Job |-> OrphanStage(j)]
  /\ pc' = [w \in Worker |-> "idle"]
  /\ cur' = [w \in Worker |-> None]
  /\ outcome' = [w \in Worker |-> "none"]
  /\ held' = [c \in Canceller |-> None]
  /\ delBase' = [d \in Deleter |-> None]
  /\ delNext' = [d \in Deleter |-> 0]
  /\ UNCHANGED <<base, closed, diskVars>>

\* A child that outlived its server still writes its report, or dies on the
\* first line it prints to the broken pipe.
OrphanSaves(j, e) ==
  /\ orphan[j] # "none"
  /\ e = "json" => orphan[j] \in {"child", "savejson"}
  /\ Save(j, e)
  /\ orphan' = [orphan EXCEPT ![j] = IF e = "json" THEN "savemd" ELSE "none"]
  /\ UNCHANGED <<jobs, queue, unsaved, jobVars, workVars, callVars, restarts>>

OrphanDies(j) ==
  /\ orphan[j] # "none"
  /\ orphan' = [orphan EXCEPT ![j] = "none"]
  /\ UNCHANGED <<jobs, queue, jobVars, diskVars, workVars, callVars, restarts>>

--------------------------------------------------------------------------------

CancelStep(c) == CancelRunning(c) \/ CancelQueued(c) \/ CancelRefused(c)

RunCLI(w) == \/ SpawnFails(w) \/ Spawn(w) \/ ChildReports(w) \/ ChildSavesJSON(w)
             \/ ChildSavesMarkdown(w) \/ ChildDies(w) \/ Decide(w)

RunMCP(w) == \/ ScanFails(w) \/ ScanReturns(w) \/ ResultSavesJSON(w)
             \/ ResultSavesMarkdown(w) \/ ResultFails(w)

WorkerStep(w) == \/ Dequeue(w) \/ SkipCancelled(w) \/ StartRun(w)
                 \/ RunCLI(w) \/ RunMCP(w)
                 \/ Finish(w) \/ RefreshReportMeta(w)

Next == \/ \E j \in Job, b \in Base : Submit(j, b)
        \/ \E c \in Canceller, b \in Base : CancelLookup(c, b)
        \/ \E c \in Canceller : CancelStep(c)
        \/ \E d \in Deleter, b \in Base : DeleteEvict(d, b)
        \/ \E d \in Deleter : DeleteFile(d)
        \/ \E w \in Worker : WorkerStep(w)
        \/ Restart
        \/ \E j \in Job, e \in Report : OrphanSaves(j, e)
        \/ \E j \in Job : OrphanDies(j)

Spec == Init /\ [][Next]_vars

\* Worker goroutines are always runnable, a child ends within its timeouts and
\* the bridge answers; nobody is obliged to call Submit, Cancel or Delete.
FairSpec == Spec /\ \A w \in Worker : WF_vars(WorkerStep(w))

--------------------------------------------------------------------------------
\* Properties

\* Types, and no index beyond the four files that Delete removes.
TypeOK ==
  /\ jobs \in [Base -> Job \cup {None}]
  /\ queue \in Seq(Job)
  /\ status \in [Job -> Status]
  /\ base \in [Job -> Base \cup {None}]
  /\ cancelFn \in [Job -> {"nil", "armed", "fired"}]
  /\ closed \in [Job -> BOOLEAN]
  /\ hasReport \in [Job -> SUBSET Report]
  /\ files \in [Stem -> [Ext -> Content \cup {None}]]
  /\ unsaved \subseteq Job
  /\ pc \in [Worker -> PC]
  /\ cur \in [Worker -> Job \cup {None}]
  /\ outcome \in [Worker -> Outcome]
  /\ held \in [Canceller -> Job \cup {None}]
  /\ delBase \in [Deleter -> Base \cup {None}]
  /\ delNext \in [Deleter -> 0..4]
  /\ orphan \in [Job -> {"none"} \cup ChildPC]
  /\ restarts \in Nat

InQueue(j) == \E i \in 1..Len(queue) : queue[i] = j

\* A pending scan is always on its way: a queued one waits in the queue or in
\* the hands of a worker about to start it, a running one has a worker that
\* will finish it (Submit, worker and its recover, run, runMCP).
NoJobStranded ==
  \A j \in Job :
    /\ status[j] = "queued" =>
         InQueue(j) \/ \E w \in Worker : cur[w] = j /\ pc[w] = "start"
    /\ status[j] = "running" =>
         \E w \in Worker : cur[w] = j /\ pc[w] \in Executing \cup {"settle"}

\* A pending scan is the one its name leads to, so that it can be found,
\* cancelled and watched, and no second pending scan shares the name
\* (Submit's map check against Delete's eviction).
LiveJobIsListed ==
  \A j \in Job : status[j] \in Live => base[j] # None /\ jobs[base[j]] = j

\* A Cancel that observes Running finds a cancel func to call (F-7 in run).
RunningIsCancellable ==
  \A j \in Job : status[j] = "running" => cancelFn[j] # "nil"

\* Submit's send on the queue never blocks while it holds Manager.mu: the
\* capacity test and the send are one critical section.
QueueNeverOverfull == Len(queue) <= QueueCapacity

\* The first final status of a scan is its last; in particular a scan that was
\* cancelled in the queue is never started (Cancel against run and runMCP).
TerminalIsFinal ==
  [][\A j \in Job : status[j] \in Terminal => status'[j] = status[j]]_vars

\* A sidecar, whole or cut, of the scan whose sidecar has the name s.
IsSidecarAt(s, c) == c.kind \in {"sidecar", "cut"} /\ SidecarName[base[c.of]] = s

\* The JSON report of a scan is never replaced by another scan's, as long as
\* neither of the two lost its server; only the sidecar of the scan whose name
\* makes it the same file can take its place (Submit's two uniqueness checks
\* against every writer of a report and of a sidecar).
ReportNeverOverwritten ==
  [][\A b \in Base, j \in Job :
       files[b]["json"] = ReportOf(j) /\ status[j] # "lost" =>
         \/ files'[b]["json"] \in {ReportOf(j), None}
         \/ status[files'[b]["json"].of] = "lost"
         \/ IsSidecarAt(b, files[b]["json"])']_vars

\* The ownership sidecar beside a report, if it can be read, is the one of the
\* scan that wrote the report, unless that scan could not open it: then the
\* sidecar of an earlier scan of the name may still be there (writeScanMeta in
\* Submit against Delete, restarts and the names that end in ".meta").
ReportIsAttributed ==
  \A b \in Base, j, k \in Job :
    /\ files[b]["json"] = ReportOf(j) /\ status[j] # "lost"
    /\ files[SidecarName[b]]["json"] = SidecarOf(k)
    => j = k \/ j \in unsaved

\* The JSON file found under the name of a listed scan is that scan's own
\* report, one that outlived its server, or the sidecar that has the same name:
\* summaries, downloads and access checks go by the name alone (Submit's checks
\* against every writer of a report and of a sidecar).
ListedReportIsOwn ==
  \A b \in Base, j \in Job : jobs[b] = j =>
    LET c == files[b]["json"] IN
    \/ c \in {None, ReportOf(j)}
    \/ c.kind = "report" /\ status[c.of] = "lost"
    \/ IsSidecarAt(b, c)

\* No report is hidden: a listed scan that its worker has left shows each report
\* that it wrote and that is still on the disk, though finish looks only once and
\* other calls remove and replace files before and after it does (finish and
\* refreshReportMeta against the writers of the reports and Delete).
OwnReportsAreShown ==
  \A b \in Base, j \in Job, e \in Report :
    /\ jobs[b] = j /\ closed[j]
    /\ \A w \in Worker : cur[w] # j
    /\ files[b][e] = ReportOf(j)
    => e \in hasReport[j]

\* Every accepted scan reaches the end at which its subscribers are released,
\* a scan cancelled in the queue included, unless the server dies first.
AcceptedScanCloses ==
  \A j \in Job, r \in 0..MaxRestarts :
    status[j] = "queued" /\ restarts = r ~> closed[j] \/ restarts > r

\* The scan each worker is running, as a slot of ScanLifecycle.
Slot == [w \in Worker |->
           IF cur[w] # None /\ status[cur[w]] = "running" THEN cur[w] ELSE None]

\* The manager implements the lifecycle it promises: names held alone by the
\* pending scans, at most one scan per worker, first final status is the last.
Lifecycle == INSTANCE ScanLifecycle WITH state <- status, name <- base, slot <- Slot
ImplementsLifecycle == Lifecycle!Spec

--------------------------------------------------------------------------------
\* What comments and tests say, and the code does not do

\* Delete removes the files of a completed scan only: "It refuses to delete a
\* scan that is still queued or running" (jobs.go, comment of Delete).
DeleteSparesPendingScans ==
  [][\A s \in Stem, e \in Ext :
       files[s][e] # None /\ files'[s][e] = None =>
         status[files[s][e].of] \notin Live]_vars

\* Once Running, "a single Cancel must take effect": the scan ends cancelled
\* (jobs_test.go, TestCancelRunningJob).
AcknowledgedCancelTakesEffect ==
  [][\A j \in Job :
       status[j] = "running" /\ cancelFn[j] = "fired" /\ status'[j] # "running" =>
         status'[j] \in {"cancelled", "lost"}]_vars
================================================================================
