------------------------- MODULE ScanManagerGuarantees -------------------------
(* What the invariant of ScanManagerProofs gives: a final status stays, reports*)
(* are not overwritten, are attributed to their scan and shown by it, and      *)
(* ScanManager implements ScanLifecycle.                                       *)
EXTENDS ScanManagerProofs

USE DEF Job, jobVars, workVars, callVars, hostVars, diskVars

--------------------------------------------------------------------------------
\* How a step changes the status of a job

\* A status only changes along the lifecycle, whatever step is taken.
StatusStep(j) ==
  \/ status'[j] = status[j]
  \/ status[j] = "none" /\ status'[j] = "queued" /\ \E b \in Base : Submit(j, b)
  \/ status[j] = "queued" /\ status'[j] \in {"running", "cancelled"}
  \/ status[j] = "running" /\ status'[j] \in Terminal
  \/ status[j] \in Live /\ status'[j] = "lost" /\ Restart

\* Every step changes the status of a scan as StatusStep says.
LEMMA StatusMoves ==
  ASSUME IInv, [Next]_vars, NEW j \in Job
  PROVE  StatusStep(j)
<1> USE DEF IInv, TypeOK, StatusStep
<1>1. CASE UNCHANGED vars
  BY <1>1 DEF vars
<1>2. ASSUME NEW k \in Job, NEW b \in Base, Submit(k, b) PROVE StatusStep(j)
  <2>1. status' = [status EXCEPT ![k] = "queued"] /\ status[k] = "none"
    BY <1>2 DEF Submit, Register
  <2>2. \E a \in Base : Submit(k, a)
    BY <1>2
  <2> QED BY <2>1, <2>2
<1>3. ASSUME NEW c \in Canceller, NEW b \in Base, CancelLookup(c, b) PROVE StatusStep(j)
  BY <1>3 DEF CancelLookup
<1>4. ASSUME NEW c \in Canceller, CancelStep(c) PROVE StatusStep(j)
  BY <1>4 DEF CancelStep, CancelRunning, CancelQueued, CancelRefused
<1>5. ASSUME NEW d \in Deleter, NEW b \in Base, DeleteEvict(d, b) PROVE StatusStep(j)
  BY <1>5 DEF DeleteEvict
<1>6. ASSUME NEW d \in Deleter, DeleteFile(d) PROVE StatusStep(j)
  BY <1>6 DEF DeleteFile
<1>7. ASSUME NEW w \in Worker, WorkerStep(w) PROVE StatusStep(j)
  <2>1. CASE StartRun(w)
    BY <2>1 DEF StartRun, Startable, WorkerInv
  <2>2. CASE Finish(w)
    BY <2>2 DEF Finish, WorkerInv
  <2>3. CASE UNCHANGED status
    BY <2>3
  <2> QED
    BY <1>7, <2>1, <2>2, <2>3
       DEF WorkerStep, RunCLI, RunMCP, Dequeue, SkipCancelled, SpawnFails, Spawn,
           ChildReports, ChildSavesJSON, ChildSavesMarkdown, ChildDies, Decide,
           ScanFails, ScanReturns, ResultSavesJSON, ResultSavesMarkdown, ResultFails,
           RefreshReportMeta
<1>8. CASE Restart
  BY <1>8 DEF Restart
<1>9. ASSUME NEW k \in Job, NEW e \in Report, OrphanSaves(k, e) PROVE StatusStep(j)
  BY <1>9 DEF OrphanSaves
<1>10. ASSUME NEW k \in Job, OrphanDies(k) PROVE StatusStep(j)
  BY <1>10 DEF OrphanDies
<1> QED
  BY <1>1, <1>2, <1>3, <1>4, <1>5, <1>6, <1>7, <1>8, <1>9, <1>10 DEF Next

\* A scan that is done, failed or cancelled stays so; one cancelled in the
\* queue is never started (Cancel against run and runMCP).
THEOREM FinalStays == Spec => TerminalIsFinal
<1>1. ASSUME IInv, [Next]_vars
      PROVE  \A j \in Job : status[j] \in Terminal => status'[j] = status[j]
  BY <1>1, StatusMoves DEF StatusStep, Live, Terminal
<1>2. IInv /\ [Next]_vars =>
        [\A j \in Job : status[j] \in Terminal => status'[j] = status[j]]_vars
  BY <1>1
<1> QED BY <1>2, Invariance, PTL DEF Spec, TerminalIsFinal

--------------------------------------------------------------------------------
\* How a step changes the files

\* Every step but Submit: a file stays, is removed, or becomes the report of the
\* scan that has its name, which is running or lost its server.
FileStep ==
  /\ base' = base /\ unsaved' = unsaved
  /\ \A b \in Base : jobs'[b] = jobs[b] \/ jobs'[b] = None
  /\ \A j \in Job : status[j] = "none" => status'[j] = "none"
  /\ \A s \in Stem, e \in Ext :
       \/ files'[s][e] \in {files[s][e], None}
       \/ \E j \in Job : /\ files'[s][e] = ReportOf(j)
                         /\ base[j] = s
                         /\ status[j] \in {"running", "lost"}

\* Writing the report of job j changes nothing but base[j].json or base[j].md.
LEMMA ReportWrite ==
  ASSUME IInv, NEW j \in Job, status[j] \in {"running", "lost"}, NEW e \in Report,
         Save(j, e), base' = base, jobs' = jobs, unsaved' = unsaved,
         \A k \in Job : status[k] = "none" => status'[k] = "none"
  PROVE  FileStep
<1>1. base[j] \in Stem /\ e \in Ext
  BY DEF IInv, NameInv, Stem, Ext, Report
<1>2. ASSUME NEW s \in Stem, NEW x \in Ext, s # base[j] \/ x # e
      PROVE  files'[s][x] = files[s][x]
  BY <1>2 DEF Save, IInv, TypeOK
<1>3. files'[base[j]][e] = ReportOf(j)
  BY <1>1 DEF Save, IInv, TypeOK
<1> QED BY <1>2, <1>3 DEF FileStep

\* A step that leaves files, jobs and names alone, and brings no scan to life, is a FileStep.
LEMMA FilesUnchanged ==
  ASSUME IInv, UNCHANGED <<files, unsaved, jobs, base>>,
         \A k \in Job : status[k] = "none" => status'[k] = "none"
  PROVE  FileStep
BY DEF FileStep

\* Every step is a FileStep or an accepted Submit.
LEMMA FileMoves ==
  ASSUME IInv, [Next]_vars
  PROVE  FileStep \/ \E j \in Job, b \in Base : Submit(j, b)
<1>1. CASE UNCHANGED vars
  BY <1>1, FilesUnchanged DEF vars
<1>2. ASSUME Next, NEW j \in Job, status[j] = "none", status'[j] # "none",
             ~\E k \in Job, b \in Base : Submit(k, b)
      PROVE  FALSE
  BY <1>2, StatusMoves DEF StatusStep, Live
<1>3. ASSUME Next, ~\E j \in Job, b \in Base : Submit(j, b)
      PROVE  FileStep
  <2>0. \A k \in Job : status[k] = "none" => status'[k] = "none"
    BY <1>2, <1>3
  <2>1. ASSUME NEW c \in Canceller, NEW b \in Base, CancelLookup(c, b) PROVE FileStep
    BY <2>0, <2>1, FilesUnchanged DEF CancelLookup
  <2>2. ASSUME NEW c \in Canceller, CancelStep(c) PROVE FileStep
    BY <2>0, <2>2, FilesUnchanged DEF CancelStep, CancelRunning, CancelQueued, CancelRefused
  <2>3. ASSUME NEW d \in Deleter, NEW b \in Base, DeleteEvict(d, b) PROVE FileStep
    <3>1. /\ jobs' = [jobs EXCEPT ![b] = None]
          /\ UNCHANGED <<files, unsaved, base, status>>
      BY <2>3 DEF DeleteEvict
    <3> QED BY <3>1 DEF FileStep, IInv, TypeOK
  <2>4. ASSUME NEW d \in Deleter, DeleteFile(d) PROVE FileStep
    <3>1. PICK s, e : files' = [files EXCEPT ![s] = [@ EXCEPT ![e] = None]]
      BY <2>4 DEF DeleteFile
    <3>2. UNCHANGED <<jobs, unsaved, base, status>>
      BY <2>4 DEF DeleteFile
    <3>3. \A t \in Stem, x \in Ext : files'[t][x] \in {files[t][x], None}
      BY <3>1 DEF IInv, TypeOK
    <3> QED BY <3>2, <3>3 DEF FileStep
  <2>5. ASSUME NEW w \in Worker, WorkerStep(w) PROVE FileStep
    <3>0. /\ pc[w] \in Executing => cur[w] \in Job /\ status[cur[w]] = "running"
          /\ {"json", "md"} \subseteq Report
      BY JobAssumption DEF IInv, TypeOK, WorkerInv, Executing, ChildPC, Report
    <3>1. CASE UNCHANGED <<files, unsaved, jobs, base>>
      BY <2>0, <3>1, FilesUnchanged
    <3>2. CASE ChildSavesJSON(w)
      BY <2>0, <3>0, <3>2, ReportWrite, FilesUnchanged
         DEF ChildSavesJSON, SaveOrFail, Executing, ChildPC
    <3>3. CASE ChildSavesMarkdown(w)
      BY <2>0, <3>0, <3>3, ReportWrite, FilesUnchanged
         DEF ChildSavesMarkdown, SaveOrFail, Executing, ChildPC
    <3>4. CASE ResultSavesJSON(w)
      BY <2>0, <3>0, <3>4, ReportWrite DEF ResultSavesJSON, Executing
    <3>5. CASE ResultSavesMarkdown(w)
      BY <2>0, <3>0, <3>5, ReportWrite DEF ResultSavesMarkdown, Executing
    <3> QED
      BY <2>5, <3>1, <3>2, <3>3, <3>4, <3>5
         DEF WorkerStep, RunCLI, RunMCP, Dequeue, SkipCancelled, StartRun, SpawnFails,
             Spawn, ChildReports, ChildDies, Decide, ScanFails, ScanReturns, ResultFails,
             Finish, RefreshReportMeta
  <2>6. CASE Restart
    BY <2>0, <2>6 DEF Restart, FileStep
  <2>7. ASSUME NEW j \in Job, NEW e \in Report, OrphanSaves(j, e) PROVE FileStep
    BY <2>0, <2>7, ReportWrite DEF OrphanSaves, IInv, OrphanInv
  <2>8. ASSUME NEW j \in Job, OrphanDies(j) PROVE FileStep
    BY <2>0, <2>8, FilesUnchanged DEF OrphanDies
  <2> QED BY <1>3, <2>1, <2>2, <2>3, <2>4, <2>5, <2>6, <2>7, <2>8 DEF Next
<1> QED BY <1>1, <1>3

\* What Submit does to the job map and to the files: the sidecar is the only JSON
\* file it writes, and the scan is remembered if that file could not be opened.
LEMMA SubmitEffect ==
  ASSUME IInv, NEW j \in Job, NEW b \in Base, Submit(j, b)
  PROVE  /\ status[j] = "none" /\ jobs[b] = None /\ files[b]["json"] = None
         /\ jobs' = [jobs EXCEPT ![b] = j]
         /\ base' = [base EXCEPT ![j] = b]
         /\ status' = [status EXCEPT ![j] = "queued"]
         /\ \A s \in Stem : files'[s]["md"] = files[s]["md"]
         /\ \A s \in Stem \ {SidecarName[b]} : files'[s]["json"] = files[s]["json"]
         /\ \/ files'[SidecarName[b]]["json"] \in {SidecarOf(j), CutOf(j)}
            \/ /\ files'[SidecarName[b]]["json"] = files[SidecarName[b]]["json"]
               /\ j \in unsaved'
         /\ unsaved \subseteq unsaved'
<1>1. PICK how \in {"saved"} \cup SidecarFailures :
        /\ files' = [files EXCEPT
             ![b] = [@ EXCEPT !["log"] = LogOf(j)],
             ![SidecarName[b]] = [@ EXCEPT !["json"] = SidecarAfter(how, j, b)]]
        /\ unsaved' = IF how = "open" THEN unsaved \cup {j} ELSE unsaved
  BY DEF Submit
<1>2. SidecarName[b] \in Stem /\ SidecarName[b] # b
  BY NameAssumption DEF Stem
<1>3. /\ \A s \in Stem : files'[s]["md"] = files[s]["md"]
      /\ \A s \in Stem \ {SidecarName[b]} : files'[s]["json"] = files[s]["json"]
      /\ files'[SidecarName[b]]["json"] = SidecarAfter(how, j, b)
  BY <1>1, <1>2 DEF IInv, TypeOK, Ext
<1>4. CASE how = "open"
  BY <1>1, <1>3, <1>4 DEF Submit, Accepts, Register, SidecarAfter
<1>5. CASE how # "open"
  <2>1. how \in {"saved", "write"}
    BY <1>5, SidecarAssumption
  <2> QED BY <1>1, <1>3, <2>1 DEF Submit, Accepts, Register, SidecarAfter
<1> QED BY <1>4, <1>5

--------------------------------------------------------------------------------
\* Reports

\* A listed scan is listed under its own name, and its server is alive.
ListInv ==
  \A b \in Base, j \in Job :
    jobs[b] = j => base[j] = b /\ status[j] \notin {"none", "lost"}

\* A JSON file is the work of an accepted scan.
AuthorInv ==
  \A s \in Stem : files[s]["json"] # None => status[files[s]["json"].of] # "none"

ReportInv == IInv /\ ListInv /\ AuthorInv /\ ListedReportIsOwn

\* The scan of a JSON file is a scan.
LEMMA Author ==
  ASSUME TypeOK, NEW s \in Stem, files[s]["json"] # None
  PROVE  files[s]["json"].of \in Job
BY DEF TypeOK, Ext, Content

\* The names are stems, so what is said of every stem is said of every name.
LEMMA BaseIsStem == Base \subseteq Stem /\ \A b \in Base : SidecarName[b] \in Stem
BY DEF Stem

\* A scan stays accepted, a lost scan stays lost, and no listed scan is lost.
LEMMA ListNext ==
  ASSUME IInv, ListInv, [Next]_vars
  PROVE  /\ ListInv'
         /\ \A j \in Job : status[j] # "none" => status'[j] # "none"
         /\ \A j \in Job : status[j] = "lost" => status'[j] = "lost"
<1>1. /\ \A j \in Job : status[j] # "none" => status'[j] # "none"
      /\ \A j \in Job : status[j] = "lost" => status'[j] = "lost"
  BY StatusMoves DEF StatusStep, Live, Terminal
<1>2. ListInv'
  <2>1. CASE Restart
    BY <2>1, JobAssumption DEF Restart, ListInv
  <2>2. CASE FileStep /\ ~Restart
    <3>1. \A j \in Job : status'[j] = "lost" => status[j] = "lost"
      BY <2>2, StatusMoves DEF StatusStep, Live, Terminal
    <3> QED BY <1>1, <2>2, <3>1, JobAssumption DEF FileStep, ListInv
  <2>3. ASSUME NEW j \in Job, NEW b \in Base, Submit(j, b) PROVE ListInv'
    <3>1. /\ status' = [status EXCEPT ![j] = "queued"] /\ status[j] = "none"
          /\ base' = [base EXCEPT ![j] = b] /\ jobs' = [jobs EXCEPT ![b] = j]
      BY <2>3, SubmitEffect
    <3> SUFFICES ASSUME NEW a \in Base, NEW k \in Job, jobs'[a] = k
                 PROVE  base'[k] = a /\ status'[k] \notin {"none", "lost"}
      BY DEF ListInv
    <3>2. CASE a = b
      BY <3>1, <3>2 DEF IInv, TypeOK
    <3>3. CASE a # b
      <4>1. jobs[a] = k
        BY <3>1, <3>3 DEF IInv, TypeOK
      <4> QED BY <3>1, <4>1 DEF ListInv, IInv, TypeOK
    <3> QED BY <3>2, <3>3
  <2> QED BY <2>1, <2>2, <2>3, FileMoves
<1> QED BY <1>1, <1>2

\* Every step keeps ReportInv.
LEMMA ReportInvNext ==
  ASSUME ReportInv, [Next]_vars
  PROVE  ReportInv'
<1> USE DEF ReportInv
<1>1. IInv' /\ TypeOK /\ TypeOK'
  BY NextInv DEF IInv
<1>2. ListInv'
  BY ListNext
<1>3. CASE FileStep
  <2>1. AuthorInv'
    <3> SUFFICES ASSUME NEW s \in Stem, files'[s]["json"] # None
                 PROVE  status'[files'[s]["json"].of] # "none"
      BY DEF AuthorInv
    <3>1. CASE files'[s]["json"] = files[s]["json"]
      BY <1>1, <3>1, Author, ListNext DEF AuthorInv
    <3>2. ASSUME NEW i \in Job, files'[s]["json"] = ReportOf(i), status[i] \in {"running", "lost"}
          PROVE  status'[files'[s]["json"].of] # "none"
      BY <3>2, Contents, ListNext
    <3> QED BY <1>3, <3>1, <3>2 DEF FileStep, Ext
  <2>2. ListedReportIsOwn'
    <3> SUFFICES ASSUME NEW b \in Base, NEW j \in Job, jobs'[b] = j
                 PROVE  \/ files'[b]["json"] \in {None, ReportOf(j)}
                        \/ /\ files'[b]["json"].kind = "report"
                           /\ status'[files'[b]["json"].of] = "lost"
                        \/ IsSidecarAt(b, files[b]["json"])'
      BY DEF ListedReportIsOwn
    <3>1. jobs[b] = j /\ base' = base /\ b \in Stem
      BY <1>3, JobAssumption, BaseIsStem DEF FileStep
    <3>2. \/ files[b]["json"] \in {None, ReportOf(j)}
          \/ files[b]["json"].kind = "report" /\ status[files[b]["json"].of] = "lost"
          \/ IsSidecarAt(b, files[b]["json"])
      BY <3>1 DEF ListedReportIsOwn
    <3>3. CASE files'[b]["json"] = files[b]["json"]
      BY <1>1, <3>1, <3>2, <3>3, Author, ListNext DEF IsSidecarAt
    <3>4. ASSUME NEW i \in Job, files'[b]["json"] = ReportOf(i), base[i] = b,
                 status[i] \in {"running", "lost"}
          PROVE  files'[b]["json"] = ReportOf(j) \/ status'[i] = "lost"
      BY <3>1, <3>4, ListNext DEF IInv, LiveJobIsListed, Live
    <3> QED BY <1>3, <3>1, <3>3, <3>4, Contents DEF FileStep, Ext
  <2> QED BY <1>1, <1>2, <2>1, <2>2
<1>4. ASSUME NEW k \in Job, NEW a \in Base, Submit(k, a) PROVE ReportInv'
  <2>1. AuthorInv'
    <3> SUFFICES ASSUME NEW s \in Stem, files'[s]["json"] # None
                 PROVE  status'[files'[s]["json"].of] # "none"
      BY DEF AuthorInv
    <3>1. CASE files'[s]["json"] = files[s]["json"]
      BY <1>1, <3>1, Author, ListNext DEF AuthorInv
    <3>2. CASE files'[s]["json"] \in {SidecarOf(k), CutOf(k)}
      BY <1>1, <1>4, <3>2, Contents, SubmitEffect DEF TypeOK
    <3> QED BY <1>4, <3>1, <3>2, SubmitEffect
  <2>2. ListedReportIsOwn'
    <3> SUFFICES ASSUME NEW b \in Base, NEW j \in Job, jobs'[b] = j
                 PROVE  \/ files'[b]["json"] \in {None, ReportOf(j)}
                        \/ /\ files'[b]["json"].kind = "report"
                           /\ status'[files'[b]["json"].of] = "lost"
                        \/ IsSidecarAt(b, files[b]["json"])'
      BY DEF ListedReportIsOwn
    <3>1. CASE b = SidecarName[a] /\ files'[b]["json"] \in {SidecarOf(k), CutOf(k)}
      <4>1. base'[k] = a
        BY <1>1, <1>4, SubmitEffect DEF TypeOK
      <4> QED BY <3>1, <4>1, Contents DEF IsSidecarAt
    <3>2. CASE files'[b]["json"] = files[b]["json"] /\ b = a
      BY <1>4, <3>2, SubmitEffect
    <3>3. CASE files'[b]["json"] = files[b]["json"] /\ b # a /\ files[b]["json"] # None
      <4>1. jobs[b] = j
        BY <1>1, <1>4, <3>3, SubmitEffect DEF TypeOK
      <4>2. \/ files[b]["json"] = ReportOf(j)
            \/ files[b]["json"].kind = "report" /\ status[files[b]["json"].of] = "lost"
            \/ IsSidecarAt(b, files[b]["json"])
        BY <3>3, <4>1 DEF ListedReportIsOwn
      <4>3. files[b]["json"].of \in Job /\ files[b]["json"].of # k
        <5>1. b \in Stem /\ status[k] = "none"
          BY <1>4, SubmitEffect, BaseIsStem
        <5> QED BY <1>1, <3>3, <5>1, Author DEF AuthorInv
      <4>4. base'[files[b]["json"].of] = base[files[b]["json"].of]
        BY <1>1, <1>4, <4>3, SubmitEffect DEF TypeOK
      <4> QED BY <3>3, <4>2, <4>3, <4>4, ListNext DEF IsSidecarAt
    <3> QED BY <1>4, <3>1, <3>2, <3>3, SubmitEffect, BaseIsStem
  <2> QED BY <1>1, <1>2, <2>1, <2>2
<1> QED BY <1>3, <1>4, FileMoves

\* ReportInv holds at the start: nothing is listed and nothing is on the disk.
LEMMA ReportInvInit ==
  ASSUME Init
  PROVE  ReportInv
<1>1. IInv
  BY InitInv
<1>2. \A b \in Base, j \in Job : jobs[b] # j
  BY JobAssumption DEF Init
<1>3. \A s \in Stem : files[s]["json"] = None
  BY DEF Init, Ext
<1> QED BY <1>1, <1>2, <1>3, BaseIsStem DEF ReportInv, ListInv, AuthorInv, ListedReportIsOwn

\* ReportInv holds at every step of every execution.
LEMMA ReportInvariance == Spec => []ReportInv
<1>1. Init => ReportInv
  BY ReportInvInit
<1>2. ReportInv /\ [Next]_vars => ReportInv'
  BY ReportInvNext
<1> QED BY <1>1, <1>2, PTL DEF Spec

\* While a scan is listed, the JSON file under its name is its own report, one
\* that a child without a server left there, or the sidecar of the scan whose
\* sidecar has that name (Submit's two uniqueness checks).
THEOREM OwnReport == Spec => []ListedReportIsOwn
<1>1. ReportInv => ListedReportIsOwn BY DEF ReportInv
<1> QED BY <1>1, ReportInvariance, PTL

\* No scan replaces the JSON report of another by its own, as long as neither of
\* them lost its server; only a sidecar of the same name can take its place (the
\* checks in Submit, and Delete refusing pending scans).
THEOREM ReportsSurvive == Spec => ReportNeverOverwritten
<1>1. ASSUME ReportInv, [Next]_vars, NEW b \in Base, NEW j \in Job,
             files[b]["json"] = ReportOf(j), status[j] # "lost"
      PROVE  \/ files'[b]["json"] \in {ReportOf(j), None}
             \/ status[files'[b]["json"].of] = "lost"
             \/ IsSidecarAt(b, files[b]["json"])'
  <2>0. IInv /\ b \in Stem
    BY <1>1, BaseIsStem DEF ReportInv
  <2>1. CASE FileStep
    <3>1. ASSUME NEW i \in Job, files'[b]["json"] = ReportOf(i), base[i] = b,
                 status[i] = "running"
          PROVE  i = j
      <4>1. jobs[b] = i
        BY <2>0, <3>1 DEF IInv, LiveJobIsListed, Live
      <4>2. ReportOf(j) \in {None, ReportOf(i)} \/ ReportOf(j).kind # "report"
        BY <1>1, <4>1, Contents DEF ReportInv, ListedReportIsOwn, IsSidecarAt
      <4> QED BY <4>2, Contents
    <3>2. ASSUME NEW i \in Job, files'[b]["json"] = ReportOf(i), status[i] = "lost"
          PROVE  status[files'[b]["json"].of] = "lost"
      BY <3>2, Contents
    <3> QED BY <1>1, <2>0, <2>1, <3>1, <3>2 DEF FileStep, Ext
  <2>2. ASSUME NEW k \in Job, NEW a \in Base, Submit(k, a)
        PROVE  files'[b]["json"] = ReportOf(j) \/ IsSidecarAt(b, files[b]["json"])'
    <3>1. CASE b = SidecarName[a] /\ files'[b]["json"] \in {SidecarOf(k), CutOf(k)}
      <4>1. base'[k] = a
        BY <2>0, <2>2, SubmitEffect DEF IInv, TypeOK
      <4> QED BY <3>1, <4>1, Contents DEF IsSidecarAt
    <3> QED BY <1>1, <2>0, <2>2, <3>1, SubmitEffect
  <2> QED BY <2>0, <1>1, <2>1, <2>2, FileMoves
<1>2. ReportInv /\ [Next]_vars =>
        [\A b \in Base, j \in Job :
           files[b]["json"] = ReportOf(j) /\ status[j] # "lost" =>
             \/ files'[b]["json"] \in {ReportOf(j), None}
             \/ status[files'[b]["json"].of] = "lost"
             \/ IsSidecarAt(b, files[b]["json"])']_vars
  BY <1>1
<1> QED BY <1>2, ReportInvariance, PTL DEF Spec, ReportNeverOverwritten

--------------------------------------------------------------------------------
\* Sidecars

\* A sidecar that can be read is that of the listed scan, unless the scan could
\* not open it.
SidecarInv ==
  \A b \in Base, j, k \in Job :
    jobs[b] = j /\ files[SidecarName[b]]["json"] = SidecarOf(k) => j = k \/ j \in unsaved

AttributionInv == ReportInv /\ SidecarInv /\ ReportIsAttributed

\* Every step but Submit keeps the sidecars of listed scans and reports.
LEMMA AttributionStep ==
  ASSUME AttributionInv, [Next]_vars, FileStep
  PROVE  SidecarInv' /\ ReportIsAttributed'
<1>0. IInv /\ unsaved' = unsaved
  BY DEF AttributionInv, ReportInv, FileStep
<1>1. ASSUME NEW b \in Base, NEW k \in Job, files'[SidecarName[b]]["json"] = SidecarOf(k)
      PROVE  files[SidecarName[b]]["json"] = SidecarOf(k)
  <2>1. \A i \in Job : ReportOf(i) # SidecarOf(k)
    BY Contents
  <2> QED BY <1>1, <2>1, Contents, BaseIsStem DEF FileStep, Ext
<1>2. SidecarInv'
  BY <1>0, <1>1, JobAssumption DEF AttributionInv, SidecarInv, FileStep
<1>3. ReportIsAttributed'
  <2> SUFFICES ASSUME NEW b \in Base, NEW j \in Job, NEW k \in Job,
                      files'[b]["json"] = ReportOf(j), status'[j] # "lost",
                      files'[SidecarName[b]]["json"] = SidecarOf(k)
               PROVE  j = k \/ j \in unsaved'
    BY DEF ReportIsAttributed
  <2>1. status[j] # "lost" /\ files[SidecarName[b]]["json"] = SidecarOf(k)
    BY <1>0, <1>1, StatusMoves DEF StatusStep, Live
  <2>2. CASE files[b]["json"] = ReportOf(j)
    BY <1>0, <2>1, <2>2 DEF AttributionInv, ReportIsAttributed
  <2>3. CASE base[j] = b /\ status[j] = "running"
    BY <1>0, <2>1, <2>3 DEF AttributionInv, SidecarInv, IInv, LiveJobIsListed, Live
  <2>4. \/ files'[b]["json"] \in {files[b]["json"], None}
        \/ \E i \in Job : /\ files'[b]["json"] = ReportOf(i) /\ base[i] = b
                          /\ status[i] \in {"running", "lost"}
    BY BaseIsStem DEF FileStep, Ext
  <2>5. \A i \in Job : ReportOf(i) = ReportOf(j) => i = j
    BY Contents
  <2> QED BY <2>1, <2>2, <2>3, <2>4, <2>5, Contents
<1> QED BY <1>2, <1>3

\* A Submit writes its own sidecar, or remembers that it did not, and it finds
\* no report beside it.
LEMMA AttributionSubmit ==
  ASSUME AttributionInv, [Next]_vars, NEW i \in Job, NEW a \in Base, Submit(i, a)
  PROVE  SidecarInv' /\ ReportIsAttributed'
<1>0. IInv /\ TypeOK
  BY DEF AttributionInv, ReportInv, IInv
<1>1. ASSUME NEW b \in Base, b # a
      PROVE  files'[SidecarName[b]]["json"] = files[SidecarName[b]]["json"]
  BY <1>0, <1>1, SubmitEffect, NameAssumption, BaseIsStem
<1>2. ASSUME NEW k \in Job, files'[SidecarName[a]]["json"] = SidecarOf(k)
      PROVE  i = k \/ i \in unsaved'
  <2>1. CutOf(i) # SidecarOf(k) /\ (SidecarOf(i) = SidecarOf(k) => i = k)
    BY Contents
  <2> QED BY <1>0, <1>2, <2>1, SubmitEffect
<1>3. SidecarInv'
  <2> SUFFICES ASSUME NEW b \in Base, NEW j \in Job, NEW k \in Job, jobs'[b] = j,
                      files'[SidecarName[b]]["json"] = SidecarOf(k)
               PROVE  j = k \/ j \in unsaved'
    BY DEF SidecarInv
  <2>1. CASE b = a
    BY <1>0, <1>2, <2>1, SubmitEffect DEF TypeOK
  <2>2. CASE b # a
    <3>1. jobs[b] = j /\ unsaved \subseteq unsaved'
      BY <1>0, <2>2, SubmitEffect DEF TypeOK
    <3> QED BY <1>1, <2>2, <3>1 DEF AttributionInv, SidecarInv
  <2> QED BY <2>1, <2>2
<1>4. ReportIsAttributed'
  <2> SUFFICES ASSUME NEW b \in Base, NEW j \in Job, NEW k \in Job,
                      files'[b]["json"] = ReportOf(j), status'[j] # "lost",
                      files'[SidecarName[b]]["json"] = SidecarOf(k)
               PROVE  j = k \/ j \in unsaved'
    BY DEF ReportIsAttributed
  <2>1. files[b]["json"] = ReportOf(j)
    <3>1. ReportOf(j) \notin {SidecarOf(i), CutOf(i)}
      BY Contents
    <3> QED BY <1>0, <3>1, SubmitEffect, BaseIsStem
  <2>2. b # a /\ status[j] # "lost"
    BY <1>0, <2>1, SubmitEffect, StatusMoves, Contents DEF StatusStep, Live
  <2>3. unsaved \subseteq unsaved'
    BY <1>0, SubmitEffect
  <2> QED BY <1>1, <2>1, <2>2, <2>3 DEF AttributionInv, ReportIsAttributed
<1> QED BY <1>3, <1>4

\* A readable sidecar beside a report is that of the scan which wrote the report,
\* unless that scan could not open it, whatever is deleted, overwritten and
\* restarted in between (writeScanMeta in Submit).
THEOREM Attribution == Spec => []ReportIsAttributed
<1>1. Init => AttributionInv
  <2> SUFFICES ASSUME Init PROVE AttributionInv
    OBVIOUS
  <2>1. ReportInv
    BY ReportInvInit
  <2>2. \A b \in Base, j \in Job : jobs[b] # j /\ files[b]["json"] # ReportOf(j)
    BY JobAssumption, BaseIsStem, Contents DEF Init, Ext
  <2> QED BY <2>1, <2>2 DEF AttributionInv, SidecarInv, ReportIsAttributed
<1>2. AttributionInv /\ [Next]_vars => AttributionInv'
  BY ReportInvNext, FileMoves, AttributionStep, AttributionSubmit DEF AttributionInv, ReportInv
<1>3. AttributionInv => ReportIsAttributed
  BY DEF AttributionInv
<1> QED BY <1>1, <1>2, <1>3, PTL DEF Spec

--------------------------------------------------------------------------------
\* The report flags

\* A scan is closed by the worker that took it from the queue.
ClosedInv == \A j \in Job : status[j] = "none" => ~closed[j]

ShownInv == ReportInv /\ ClosedInv /\ OwnReportsAreShown

\* A step that changes no flag, and neither closes nor lets go of a scan, hides no
\* report: the report of a listed scan is written by the worker that runs it.
LEMMA FlagsStay ==
  ASSUME ShownInv, FileStep, hasReport' = hasReport,
         \A w \in Worker : cur'[w] = cur[w] \/ cur[w] = None,
         \A j \in Job : closed'[j] => closed[j] \/ \E w \in Worker : cur'[w] = j
  PROVE  OwnReportsAreShown'
<1> SUFFICES ASSUME NEW b \in Base, NEW j \in Job, NEW e \in Report,
                    jobs'[b] = j, closed'[j], \A w \in Worker : cur'[w] # j,
                    files'[b][e] = ReportOf(j)
             PROVE  e \in hasReport[j]
  BY DEF OwnReportsAreShown
<1>0. IInv /\ b \in Stem /\ e \in Ext
  BY BaseIsStem DEF ShownInv, ReportInv, Ext, Report
<1>1. jobs[b] = j /\ closed[j] /\ \A w \in Worker : cur[w] # j
  BY JobAssumption DEF FileStep
<1>2. status[j] \notin {"running", "lost"}
  BY <1>0, <1>1 DEF ShownInv, ReportInv, ListInv, IInv, NoJobStranded
<1>3. files[b][e] = ReportOf(j)
  <2>1. \A i \in Job : ReportOf(i) = ReportOf(j) => i = j
    BY Contents
  <2>2. ReportOf(j) # None
    BY Contents
  <2> QED BY <1>0, <1>2, <2>1, <2>2 DEF FileStep
<1> QED BY <1>1, <1>3 DEF ShownInv, OwnReportsAreShown

\* refreshReportMeta looks at the disk when the worker has written all it will.
LEMMA RefreshShows ==
  ASSUME ShownInv, NEW v \in Worker, RefreshReportMeta(v)
  PROVE  OwnReportsAreShown'
<1>1. /\ hasReport' = [hasReport EXCEPT ![cur[v]] = ReportFiles(cur[v])]
      /\ cur' = [cur EXCEPT ![v] = None] /\ cur[v] \in Job
      /\ UNCHANGED <<jobs, closed, files>> /\ TypeOK
  BY JobAssumption DEF RefreshReportMeta, ShownInv, ReportInv, IInv, WorkerInv, TypeOK
<1> SUFFICES ASSUME NEW b \in Base, NEW j \in Job, NEW e \in Report,
                    jobs[b] = j, closed[j], \A w \in Worker : cur'[w] # j,
                    files[b][e] = ReportOf(j)
             PROVE  e \in hasReport'[j]
  BY <1>1 DEF OwnReportsAreShown
<1>2. CASE cur[v] = j
  <2>1. base[j] = b /\ files[b][e] # None
    BY Contents DEF ShownInv, ReportInv, ListInv
  <2>2. hasReport'[j] = ReportFiles(j)
    BY <1>1, <1>2 DEF TypeOK
  <2> QED BY <2>1, <2>2 DEF ReportFiles
<1>3. CASE cur[v] # j
  <2>1. \A w \in Worker : cur[w] # j
    BY <1>1, <1>3 DEF TypeOK
  <2>2. hasReport'[j] = hasReport[j]
    BY <1>1, <1>3 DEF TypeOK
  <2> QED BY <2>1, <2>2 DEF ShownInv, OwnReportsAreShown
<1> QED BY <1>2, <1>3

\* Submit closes nothing and writes no report.
LEMMA SubmitShows ==
  ASSUME ShownInv, NEW i \in Job, NEW a \in Base, Submit(i, a)
  PROVE  OwnReportsAreShown'
<1>0. /\ IInv /\ TypeOK /\ status[i] = "none" /\ jobs' = [jobs EXCEPT ![a] = i]
      /\ UNCHANGED <<hasReport, closed, cur>>
  BY SubmitEffect DEF Submit, ShownInv, ReportInv, IInv
<1> SUFFICES ASSUME NEW b \in Base, NEW j \in Job, NEW e \in Report,
                    jobs'[b] = j, closed[j], \A w \in Worker : cur[w] # j,
                    files'[b][e] = ReportOf(j)
             PROVE  e \in hasReport[j]
  BY <1>0 DEF OwnReportsAreShown
<1>1. jobs[b] = j
  BY <1>0 DEF ShownInv, ClosedInv, TypeOK
<1>2. files[b][e] = ReportOf(j)
  <2>1. ReportOf(j) \notin {SidecarOf(i), CutOf(i)}
    BY Contents
  <2> QED BY <1>0, <2>1, SubmitEffect, BaseIsStem DEF Report
<1> QED BY <1>1, <1>2 DEF ShownInv, OwnReportsAreShown

\* Only finish closes a scan, and only a worker lets go of one.
LEMMA ShownNext ==
  ASSUME ShownInv, [Next]_vars
  PROVE  ShownInv'
<1>0. IInv /\ TypeOK /\ ReportInv'
  BY ReportInvNext DEF ShownInv, ReportInv, IInv
<1>1. CASE UNCHANGED <<closed, hasReport, cur>> /\ FileStep
  <2>1. ClosedInv'
    BY <1>0, <1>1, StatusMoves DEF ShownInv, ClosedInv, StatusStep, Live, Terminal
  <2> QED BY <1>0, <1>1, <2>1, FlagsStay DEF ShownInv
<1>2. ASSUME NEW i \in Job, NEW a \in Base, Submit(i, a) PROVE ShownInv'
  <2>1. ClosedInv'
    BY <1>0, <1>2, StatusMoves DEF ShownInv, ClosedInv, StatusStep, Live, Terminal, Submit
  <2> QED BY <1>0, <1>2, <2>1, SubmitShows DEF ShownInv
<1>3. ASSUME NEW w \in Worker, Dequeue(w) PROVE ShownInv'
  <2>1. /\ UNCHANGED <<closed, hasReport, status>>
        /\ cur[w] = None /\ cur' = [cur EXCEPT ![w] = Head(queue)]
    BY <1>0, <1>3 DEF Dequeue, IInv, WorkerInv
  <2>2. FileStep /\ \A v \in Worker : cur'[v] = cur[v] \/ cur[v] = None
    BY <1>0, <1>3, <2>1, FilesUnchanged DEF Dequeue, TypeOK
  <2> QED BY <1>0, <2>1, <2>2, FlagsStay DEF ShownInv, ClosedInv
<1>4. ASSUME NEW w \in Worker, Finish(w) PROVE ShownInv'
  <2>1. /\ closed' = [closed EXCEPT ![cur[w]] = TRUE]
        /\ status' = [status EXCEPT ![cur[w]] = outcome[w]]
        /\ cur[w] \in Job /\ status[cur[w]] # "none" /\ outcome[w] # "none"
        /\ UNCHANGED <<jobs, base, hasReport, cur, files, unsaved>>
    BY <1>0, <1>4, JobAssumption DEF Finish, IInv, WorkerInv, TypeOK, Terminal
  <2>2. ClosedInv'
    BY <1>0, <2>1 DEF ShownInv, ClosedInv, TypeOK
  <2>3. FileStep /\ \A j \in Job : closed'[j] => closed[j] \/ \E v \in Worker : cur'[v] = j
    BY <1>0, <2>1, FilesUnchanged DEF TypeOK
  <2> QED BY <1>0, <2>1, <2>2, <2>3, FlagsStay DEF ShownInv
<1>5. ASSUME NEW w \in Worker, RefreshReportMeta(w) PROVE ShownInv'
  <2>1. ClosedInv'
    BY <1>5 DEF ShownInv, ClosedInv, RefreshReportMeta
  <2> QED BY <1>0, <1>5, <2>1, RefreshShows DEF ShownInv
<1>6. CASE Restart
  <2>1. ClosedInv'
    BY <1>0, <1>6, StatusMoves DEF ShownInv, ClosedInv, StatusStep, Live, Terminal, Restart
  <2>2. OwnReportsAreShown'
    BY <1>6, JobAssumption DEF Restart, OwnReportsAreShown
  <2> QED BY <1>0, <2>1, <2>2 DEF ShownInv
<1>7. CASE UNCHANGED <<closed, hasReport, cur>> /\ \E i \in Job, a \in Base : Submit(i, a)
  BY <1>2, <1>7
<1>8. CASE UNCHANGED <<closed, hasReport, cur>>
  BY <1>0, <1>1, <1>7, <1>8, FileMoves
<1> QED
  BY <1>2, <1>3, <1>4, <1>5, <1>6, <1>8
     DEF Next, vars, CancelLookup, CancelStep, CancelRunning, CancelQueued, CancelRefused, Fire,
         DeleteEvict, DeleteFile, WorkerStep, RunCLI, RunMCP, SkipCancelled, StartRun, SpawnFails,
         Spawn, ChildReports, ChildSavesJSON, ChildSavesMarkdown, ChildDies, Decide, ScanFails,
         ScanReturns, ResultSavesJSON, ResultSavesMarkdown, ResultFails, OrphanSaves, OrphanDies

\* A listed scan at rest shows every report of its own that is on the disk: no one
\* but its worker writes it, and that worker looks when it has written all it will
\* (finish, refreshReportMeta), whatever Delete, Submit and restarts do meanwhile.
THEOREM ReportsShown == Spec => []OwnReportsAreShown
<1>1. Init => ShownInv
  BY ReportInvInit, JobAssumption DEF Init, ShownInv, ClosedInv, OwnReportsAreShown
<1>2. ShownInv /\ [Next]_vars => ShownInv'
  BY ShownNext
<1>3. ShownInv => OwnReportsAreShown
  BY DEF ShownInv
<1> QED BY <1>1, <1>2, <1>3, PTL DEF Spec

--------------------------------------------------------------------------------
\* Refinement

\* A step that changes no status is invisible in ScanLifecycle, if no worker
\* takes up or lets go of a running job.
LEMMA Stutter ==
  ASSUME UNCHANGED <<status, base>>,
         \A w \in Worker : cur'[w] # cur[w] =>
           /\ cur[w] # None => status[cur[w]] # "running"
           /\ cur'[w] # None => status[cur'[w]] # "running"
  PROVE  UNCHANGED <<status, base, Slot>>
BY DEF Slot

\* Only a job that some worker executes is running, so a slot is empty or
\* holds the job of an executing worker.
LEMMA SlotValues ==
  ASSUME IInv, NEW w \in Worker
  PROVE  /\ Slot[w] = IF cur[w] # None /\ status[cur[w]] = "running" THEN cur[w] ELSE None
         /\ Slot \in [Worker -> Job \cup {None}]
BY DEF Slot, IInv, TypeOK

\* Submit is Accept in the lifecycle.
LEMMA SubmitSimulates ==
  ASSUME IInv, NEW j \in Job, NEW b \in Base, Submit(j, b)
  PROVE  Lifecycle!Accept(j, b)
<1>1. /\ status[j] = "none" /\ jobs[b] = None
      /\ base' = [base EXCEPT ![j] = b]
      /\ status' = [status EXCEPT ![j] = "queued"]
      /\ cur' = cur
  BY SubmitEffect DEF Submit
<1>2. \A k \in Job : status[k] \in Lifecycle!Pending => base[k] # b
  BY <1>1, JobAssumption DEF Lifecycle!Pending, Live, IInv, LiveJobIsListed
<1>3. \A w \in Worker : cur[w] # None =>
        (status'[cur[w]] = "running" <=> status[cur[w]] = "running")
  BY <1>1 DEF IInv, TypeOK
<1>4. Slot' = Slot
  BY <1>1, <1>3 DEF Slot
<1> QED BY <1>1, <1>2, <1>4 DEF Lifecycle!Accept

\* Cancelling a queued scan is Withdraw in the lifecycle.
LEMMA CancelSimulates ==
  ASSUME IInv, NEW c \in Canceller, CancelQueued(c)
  PROVE  \E j \in Job : Lifecycle!Withdraw(j)
<1> DEFINE j == held[c]
<1>1. /\ j \in Job /\ status[j] = "queued"
      /\ status' = [status EXCEPT ![j] = "cancelled"]
      /\ UNCHANGED <<base, cur>>
  BY DEF CancelQueued, IInv, TypeOK
<1> HIDE DEF j
<1>2. \A w \in Worker : cur[w] # None =>
        (status'[cur[w]] = "running" <=> status[cur[w]] = "running")
  BY <1>1 DEF IInv, TypeOK
<1>3. Slot' = Slot
  BY <1>1, <1>2 DEF Slot
<1> QED BY <1>1, <1>3 DEF Lifecycle!Withdraw

\* The start of a scan is Begin in the lifecycle.
LEMMA StartSimulates ==
  ASSUME IInv, NEW w \in Worker, StartRun(w)
  PROVE  \E j \in Job : Lifecycle!Begin(j, w)
<1> DEFINE j == cur[w]
<1>1. /\ j \in Job /\ status[j] = "queued" /\ j = cur[w]
      /\ status' = [status EXCEPT ![j] = "running"]
      /\ UNCHANGED <<base, cur>>
  BY DEF StartRun, Startable, IInv, WorkerInv, TypeOK
<1>2. \A v \in Worker \ {w} : cur[v] # j
  BY <1>1, HeldOnce
<1> HIDE DEF j
<1>3. Slot[w] = None
  BY <1>1, SlotValues
<1>4. \A v \in Worker \ {w} : cur[v] # None =>
        (status'[cur[v]] = "running" <=> status[cur[v]] = "running")
  BY <1>1, <1>2 DEF IInv, TypeOK
<1>5. status'[j] = "running" /\ j # None
  BY <1>1, JobAssumption DEF IInv, TypeOK
<1>6. Slot' = [Slot EXCEPT ![w] = j]
  BY <1>1, <1>4, <1>5 DEF Slot
<1> QED BY <1>1, <1>3, <1>6 DEF Lifecycle!Begin

\* finish settles a running scan; for one cancelled in the queue it is a stutter.
LEMMA FinishSimulates ==
  ASSUME IInv, NEW w \in Worker, Finish(w)
  PROVE  Lifecycle!Settle(w) \/ UNCHANGED <<status, base, Slot>>
<1> DEFINE j == cur[w]
<1>0. /\ pc[w] = "settle"
      /\ status' = [status EXCEPT ![j] = outcome[w]]
      /\ UNCHANGED <<base, cur>>
  BY DEF Finish
<1>1. /\ j \in Job /\ j = cur[w] /\ j # None
      /\ outcome[w] \in Terminal
      /\ status[j] = "running" \/ (status[j] = "cancelled" /\ outcome[w] = "cancelled")
      /\ status' = [status EXCEPT ![j] = outcome[w]]
      /\ UNCHANGED <<base, cur>>
  BY <1>0, JobAssumption DEF IInv, WorkerInv, TypeOK
<1>2. \A v \in Worker \ {w} : cur[v] # j
  BY <1>1, HeldOnce
<1> HIDE DEF j
<1>3. CASE status[j] = "cancelled"
  <2>1. status' = status
    BY <1>1, <1>3 DEF IInv, TypeOK
  <2> QED BY <1>1, <2>1 DEF Slot
<1>4. CASE status[j] = "running"
  <2>1. Slot[w] = j
    BY <1>1, <1>4, SlotValues
  <2>2. \A v \in Worker \ {w} : cur[v] # None =>
          (status'[cur[v]] = "running" <=> status[cur[v]] = "running")
    BY <1>1, <1>2 DEF IInv, TypeOK
  <2>3. status'[j] # "running"
    BY <1>1 DEF IInv, TypeOK, Terminal
  <2>4. Slot' = [Slot EXCEPT ![w] = None]
    BY <1>1, <2>2, <2>3 DEF Slot
  <2> QED BY <1>1, <2>1, <2>4 DEF Lifecycle!Settle, Lifecycle!Final, Terminal
<1> QED BY <1>1, <1>3, <1>4

\* The death of the server is Crash in the lifecycle.
LEMMA RestartSimulates ==
  ASSUME IInv, Restart
  PROVE  Lifecycle!Crash
<1>1. Slot' = [w \in Worker |-> None]
  BY DEF Restart, Slot
<1> QED BY <1>1 DEF Restart, Lifecycle!Crash, Lifecycle!Pending, Live

\* Every step of the manager is one of the lifecycle or none.
LEMMA StepSimulates ==
  ASSUME IInv, [Next]_vars
  PROVE  [Lifecycle!Next]_(Lifecycle!lifecycleVars)
<1> USE DEF Lifecycle!lifecycleVars
<1>1. CASE UNCHANGED vars
  BY <1>1 DEF vars, Slot
<1>2. ASSUME NEW j \in Job, NEW b \in Base, Submit(j, b) PROVE Lifecycle!Next
  BY <1>2, SubmitSimulates DEF Lifecycle!Next
<1>3. ASSUME NEW c \in Canceller, CancelQueued(c) PROVE Lifecycle!Next
  BY <1>3, CancelSimulates DEF Lifecycle!Next
<1>4. ASSUME NEW w \in Worker, StartRun(w) PROVE Lifecycle!Next
  BY <1>4, StartSimulates DEF Lifecycle!Next
<1>5. ASSUME NEW w \in Worker, Finish(w)
      PROVE  Lifecycle!Next \/ UNCHANGED <<status, base, Slot>>
  BY <1>5, FinishSimulates DEF Lifecycle!Next
<1>6. CASE Restart
  BY <1>6, RestartSimulates DEF Lifecycle!Next
<1>7. ASSUME NEW w \in Worker, Dequeue(w) PROVE UNCHANGED <<status, base, Slot>>
  <2>1. /\ status[Head(queue)] \in {"queued", "cancelled"}
        /\ pc[w] = "idle" /\ cur' = [cur EXCEPT ![w] = Head(queue)]
        /\ UNCHANGED <<status, base>>
    <3>1. Head(queue) = queue[1] /\ 1 \in 1..Len(queue)
      BY <1>7 DEF Dequeue, IInv, TypeOK
    <3> QED BY <1>7, <3>1 DEF Dequeue, IInv, QueueInv
  <2>2. cur[w] = None
    BY <2>1 DEF IInv, WorkerInv
  <2> QED BY <2>1, <2>2, Stutter DEF IInv, TypeOK
<1>8. ASSUME NEW w \in Worker, RefreshReportMeta(w) PROVE UNCHANGED <<status, base, Slot>>
  <2>1. /\ status[cur[w]] # "running" /\ cur' = [cur EXCEPT ![w] = None]
        /\ UNCHANGED <<status, base>>
    BY <1>8 DEF RefreshReportMeta, IInv, WorkerInv, Terminal
  <2> QED BY <2>1, Stutter DEF IInv, TypeOK
<1>9. CASE UNCHANGED <<status, base, cur>>
  BY <1>9 DEF Slot
<1> QED
  BY <1>1, <1>2, <1>3, <1>4, <1>5, <1>6, <1>7, <1>8, <1>9
     DEF Next, CancelLookup, CancelStep, CancelRunning, CancelRefused, DeleteEvict,
         DeleteFile, WorkerStep, RunCLI, RunMCP, SkipCancelled, SpawnFails, Spawn,
         ChildReports, ChildSavesJSON, ChildSavesMarkdown, ChildDies, Decide, ScanFails,
         ScanReturns, ResultSavesJSON, ResultSavesMarkdown, ResultFails, OrphanSaves,
         OrphanDies

\* The scan manager implements ScanLifecycle: names are held alone by pending
\* scans, each worker is one slot, a first final status is the last.
THEOREM Refinement == Spec => ImplementsLifecycle
<1>1. Init => Lifecycle!Init
  BY DEF Init, Lifecycle!Init, Slot
<1>2. IInv /\ [Next]_vars => [Lifecycle!Next]_(Lifecycle!lifecycleVars)
  BY StepSimulates
<1> QED BY <1>1, <1>2, Invariance, PTL DEF Spec, ImplementsLifecycle, Lifecycle!Spec
================================================================================
