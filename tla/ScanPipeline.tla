------------------------------ MODULE ScanPipeline -----------------------------
(* One scan, from its flags to its report: main of the command line (main.go) and    *)
(* the executeScan tool of the MCP server (internal/mcp/tools.go). Both run the        *)
(* selected modules one after the other, contain the panic of a module, add a summary  *)
(* of the shared lists and write the findings down: main to two files, executeScan     *)
(* into its answer.                                                                   *)
(*                                                                                   *)
(* An interrupt of main starts a second goroutine, the handler of the signal. It        *)
(* cancels the context of the modules, writes the same two files and exits, while main   *)
(* goes on: with its context done, each module ends soon, and main may come to its own    *)
(* report before the handler has exited. The request of executeScan may be cancelled,     *)
(* or its deadline pass; it then runs to its end, with a context that is done.            *)
EXTENDS RateLimiter, ScanContext, SequencesExt

CONSTANTS
  Scans,        \* [front : {"cli", "mcp"}, modules : set of names, passive : BOOLEAN,
                \*  threads : Int, rate : Int, severe : BOOLEAN]
  DefaultWidth, \* 20
  LastThreads,  \* the largest width: 100000 of the command line, 500 of the tool
  InfoTopics,   \* what findings of severity INFO are about
  MaxFaults,    \* bound: calls of os.WriteFile that fail
  Nobody

\* The phases of main and the module registry of the tools.
ModuleOrder ==
  <<"whois", "asnmap", "passivesrc", "dns", "wayback", "permute", "httprobe",
    "webserver", "metafiles", "headers", "content", "portscan", "cors", "cloud",
    "dirbrute", "apiscan", "saasenum", "crawler", "jsdeep", "endprobe", "takeover">>

ASSUME PipelineAssumption ==
  /\ DefaultWidth \in Nat \ {0} /\ LastThreads \in Nat \ {0}
  /\ \A s \in Scans : s.front \in {"cli", "mcp"} /\ s.threads \in Int /\ s.rate \in Int
  /\ Nobody \notin ToSet(ModuleOrder)

VARIABLES
  scan,      \* the flags
  pending,   \* the modules that are still to run
  running,   \* the module that runs, or Nobody
  finished,  \* history: the modules that have had their turn, in order
  stage,     \* writer -> "off", "modules", then where it is in GenerateReport, "over"
  snap,      \* writer -> the snapshot it writes
  file,      \* "json", "md" -> [text : the findings in it, state : "absent", "empty",
             \*                   "whole", "torn"]
  answer,    \* what executeScan returns: the findings of it
  heard,     \* history: the findings at the interrupt, once there was one
  faults,    \* bound
  process    \* "up", "exited"

pipelineVars == <<scan, pending, running, finished, stage, snap, file, answer, heard, faults, process>>

Writer == {"main", "handler"}

--------------------------------------------------------------------------------
\* Flags

\* Mutant: -c goes to the semaphores as it was given.
AsGiven(s) == s.threads

\* -c, clamped by main; executeScan ignores a width out of its range.
Width(s) ==
  CASE s.front = "cli" /\ s.threads < 1 -> 1
    [] s.front = "cli" /\ s.threads > LastThreads -> LastThreads
    [] s.front = "mcp" /\ s.threads \notin 1..LastThreads -> DefaultWidth
    [] OTHER -> s.threads

Active == ToSet(ModuleOrder) \ {"whois", "asnmap", "passivesrc", "dns", "wayback"}

ShouldRun(s, m) ==
  /\ ~(s.passive /\ m \in Active)
  /\ IF s.front = "cli" THEN m \in s.modules \/ "all" \in s.modules
     ELSE m \in s.modules \/ s.modules = {}

Plan(s) == {m \in ToSet(ModuleOrder) : ShouldRun(s, m)}

Place(m) == CHOOSE i \in DOMAIN ModuleOrder : ModuleOrder[i] = m

--------------------------------------------------------------------------------
\* Modules

PipelineInit ==
  /\ scan \in Scans
  /\ width = Width(scan)
  /\ LimiterInit(scan.rate)
  /\ cancelled = FALSE /\ subdomains = {} /\ endpoints = {} /\ findings = {}
  /\ pending = Plan(scan) /\ running = Nobody /\ finished = <<>>
  /\ stage = [main |-> "modules", handler |-> "off"]
  /\ snap = [w \in Writer |-> {}]
  /\ file = [name \in {"json", "md"} |-> [text |-> {}, state |-> "absent"]]
  /\ answer = {} /\ heard = <<>> /\ faults = 0
  /\ process = "up"

\* if shouldRun(...) { safeRun(...) }
StartModule ==
  /\ stage["main"] = "modules" /\ running = Nobody
  /\ running' \in {m \in pending : \A n \in pending : Place(m) <= Place(n)}
  /\ pending' = pending \ {running'}
  /\ UNCHANGED <<scan, finished, stage, snap, file, answer, heard, faults, process>>
  /\ UNCHANGED <<limiterVars, contextVars>>

\* The module returns. executeScan reports its progress.
EndModule ==
  /\ finished' = Append(finished, running)
  /\ running' = Nobody
  /\ UNCHANGED <<scan, pending, stage, snap, file, answer, heard, faults, process>>
  /\ UNCHANGED <<limiterVars, contextVars>>

\* A module that is not modelled in detail adds what it finds ...
AddFinding ==
  /\ Finding(running, "result") \notin findings
  /\ Add({Finding(running, "result")})
  /\ UNCHANGED <<width, cancelled, subdomains, endpoints, limiterVars, pipelineVars>>

\* Mutant: a panic ends the modules.
PanicIsLast(left) == {}

AfterPanic(left) == left

\* ... and may panic before or after: safeRun logs it and goes on.
PanicModule ==
  /\ finished' = Append(finished, running)
  /\ running' = Nobody
  /\ pending' = AfterPanic(pending)
  /\ UNCHANGED <<scan, stage, snap, file, answer, heard, faults, process>>
  /\ UNCHANGED <<limiterVars, contextVars>>

\* RunSurfaceSummary, always the last.
Surface ==
  /\ stage["main"] = "modules" /\ running = Nobody /\ pending = {}
  /\ Add({Finding("surface", e) : e \in endpoints})
  /\ stage' = [stage EXCEPT !["main"] = IF scan.front = "cli" THEN "snapshot" ELSE "answer"]
  /\ UNCHANGED <<scan, pending, running, finished, snap, file, answer, heard, faults, process>>
  /\ UNCHANGED <<width, cancelled, subdomains, endpoints, limiterVars>>

--------------------------------------------------------------------------------
\* GenerateReport, by main and by the handler

Goes(w, next) == stage' = [stage EXCEPT ![w] = next]

\* Finalize and Snapshot, under the lock of the report.
TakeSnapshot(w) ==
  /\ stage[w] = "snapshot"
  /\ snap' = [snap EXCEPT ![w] = findings]
  /\ Goes(w, "open json")
  /\ UNCHANGED <<scan, pending, running, finished, file, answer, heard, faults, process>>
  /\ UNCHANGED <<limiterVars, contextVars>>

\* os.WriteFile opens and truncates the file ...
Opens(w, opening, name, next) ==
  /\ stage[w] = opening
  /\ file' = [file EXCEPT ![name] = [text |-> {}, state |-> "empty"]]
  /\ Goes(w, next)
  /\ UNCHANGED faults

\* ... and writes it from its start: a shorter text leaves the end of a longer one.
Written(old, text) ==
  IF old.state = "empty" \/ old.text \subseteq text
  THEN [text |-> text, state |-> "whole"]
  ELSE [text |-> old.text, state |-> "torn"]

Writes(w, writing, name, next) ==
  /\ stage[w] = writing
  /\ file' = [file EXCEPT ![name] = Written(@, snap[w])]
  /\ Goes(w, next)
  /\ UNCHANGED faults

\* Either call may fail; the error is logged, and GenerateReport goes on.
FileFails(w, opening, writing, name, next) ==
  /\ faults < MaxFaults /\ faults' = faults + 1
  /\ \/ stage[w] = opening /\ UNCHANGED file
     \/ stage[w] = writing /\ file' = [file EXCEPT ![name].state = "torn"]
  /\ Goes(w, next)

GenerateReport(w) ==
  \/ TakeSnapshot(w)
  \/ /\ \/ Opens(w, "open json", "json", "write json")
        \/ Writes(w, "write json", "json", "open md")
        \/ FileFails(w, "open json", "write json", "json", "open md")
        \/ Opens(w, "open md", "md", "write md")
        \/ Writes(w, "write md", "md", "over")
        \/ FileFails(w, "open md", "write md", "md", "over")
     /\ UNCHANGED <<scan, pending, running, finished, snap, answer, heard, process>>
     /\ UNCHANGED <<limiterVars, contextVars>>

--------------------------------------------------------------------------------
\* Ends

\* main returns: the deferred Stop, and the process is over.
MainReturns ==
  /\ stage["main"] = "over"
  /\ Stop
  /\ process' = "exited"
  /\ UNCHANGED <<scan, pending, running, finished, stage, snap, file, answer, heard, faults>>
  /\ UNCHANGED contextVars

\* executeScan returns the findings, without those below -min_severity.
ExecuteScanReturns ==
  /\ stage["main"] = "answer"
  /\ answer' = IF scan.severe THEN {f \in findings : f.about \notin InfoTopics} ELSE findings
  /\ Goes("main", "over")
  /\ Stop
  /\ process' = "exited"
  /\ UNCHANGED <<scan, pending, running, finished, snap, file, heard, faults, contextVars>>

\* The signal reaches the handler, which cancels the context; or the request of
\* executeScan is cancelled.
Interrupt ==
  /\ heard = <<>>
  /\ heard' = <<findings>>
  /\ Cancel
  /\ IF scan.front = "cli" THEN Goes("handler", "snapshot") ELSE UNCHANGED stage
  /\ UNCHANGED <<scan, pending, running, finished, snap, file, answer, faults, process>>
  /\ UNCHANGED <<width, subdomains, endpoints, findings, limiterVars>>

\* os.Exit(130), whatever main is doing.
HandlerExits ==
  /\ stage["handler"] = "over"
  /\ process' = "exited"
  /\ UNCHANGED <<scan, pending, running, finished, stage, snap, file, answer, heard, faults>>
  /\ UNCHANGED <<limiterVars, contextVars>>

PipelineStep ==
  \/ StartModule \/ Surface
  \/ \E w \in Writer : GenerateReport(w)
  \/ MainReturns \/ ExecuteScanReturns \/ HandlerExits

--------------------------------------------------------------------------------
\* Properties

Reporting(w) == stage[w] \notin {"off", "modules", "snapshot"}

\* A scan leaves one whole report. When only one goroutine has come to write it and
\* no write has failed, both files hold the same findings: all of them, the summary
\* of every shared endpoint too, when the scan was left alone, and at least all that
\* had been found at the interrupt. Every selected module has had its turn, in
\* order, whatever has panicked, and nobody is left waiting for the limiter.
\* (main.go:362-381, main.go:423-506, report.go:14-41, tools.go:800-858)
ReportIsComplete ==
  LET json == file["json"]
      alone == Reporting("main") # Reporting("handler")
  IN  process = "exited" =>
        /\ StopFindsNobodyWaiting
        /\ stage["main"] = "over" =>
             /\ ToSet(finished) = Plan(scan)
             /\ \A i, j \in DOMAIN finished : i < j => Place(finished[i]) < Place(finished[j])
             /\ \A e \in endpoints : Finding("surface", e) \in findings
        /\ scan.front = "cli" /\ alone /\ faults = 0 =>
             /\ json = file["md"] /\ json.state = "whole"
             /\ IF heard = <<>> THEN json.text = findings ELSE heard[1] \subseteq json.text
        /\ scan.front = "mcp" => \A f \in findings \ answer : scan.severe /\ f.about \in InfoTopics

\* The two files of a report describe the same findings, and neither is cut off.
\* (report.go:17-21: "it guarantees the JSON, the Markdown and the console summary
\* describe the exact same set of findings", on "the SIGINT partial-report path" too)
FilesAgree ==
  process = "exited" /\ scan.front = "cli" /\ faults = 0 =>
    /\ file["json"].state = "whole" /\ file["md"].state = "whole"
    /\ file["json"].text = file["md"].text
================================================================================
