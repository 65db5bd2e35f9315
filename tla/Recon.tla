---------------------------------- MODULE Recon --------------------------------
(* A whole scan: the pipeline of ScanPipeline with the modules that are modelled in   *)
(* detail in their places. A module takes steps while it is the one that runs; the     *)
(* limiter and an interrupt have their own.                                           *)
EXTENDS ScanPipeline, SubdomainEnum, PortScan, Crawler, DirBrute, Feedback

engineVars == <<dnsVars, portVars, crawlVars, bruteVars, feedVars, archiveVars>>
vars == <<pipelineVars, limiterVars, contextVars, engineVars>>

Init ==
  /\ PipelineInit
  /\ SubdomainInit /\ PortInit /\ CrawlInit /\ BruteInit /\ FeedInit /\ WaybackInit

--------------------------------------------------------------------------------
Detailed == {"wayback", "dns", "portscan", "crawler", "dirbrute"} \cup FeedModule

Returned(m) ==
  CASE m = "wayback" -> WaybackReturned
    [] m = "dns" -> dns = "done"
    [] m = "portscan" -> portscan = "done"
    [] m = "crawler" -> crawl = "done"
    [] m = "dirbrute" -> brute \in {"done", "unreachable"}
    [] m \in FeedModule -> HasReturned(m)
    [] OTHER -> TRUE

\* The steps of the module that runs.
ModuleStep ==
  \/ /\ running = "dns" /\ DNSStep
     /\ UNCHANGED <<pipelineVars, portVars, crawlVars, bruteVars, feedVars, archiveVars>>
  \/ /\ running = "portscan" /\ PortStep
     /\ UNCHANGED <<pipelineVars, limiterVars, dnsVars, crawlVars, bruteVars, feedVars, archiveVars>>
  \/ /\ running = "crawler" /\ CrawlStep
     /\ UNCHANGED <<pipelineVars, limiterVars, dnsVars, portVars, bruteVars, feedVars, archiveVars>>
  \/ /\ running = "dirbrute" /\ BruteStep
     /\ UNCHANGED <<pipelineVars, limiterVars, dnsVars, portVars, crawlVars, feedVars, archiveVars>>
  \/ /\ running \in FeedModule /\ FeedStep(running)
     /\ UNCHANGED <<pipelineVars, limiterVars, dnsVars, portVars, crawlVars, bruteVars, archiveVars>>
  \/ /\ running = "wayback" /\ WaybackStep
     /\ UNCHANGED <<pipelineVars, limiterVars, dnsVars, portVars, crawlVars, bruteVars, feedVars>>
  \/ /\ running # Nobody /\ Returned(running) /\ EndModule
     /\ UNCHANGED engineVars
  \/ /\ running \notin Detailed \cup {Nobody}
     /\ AddFinding \/ PanicModule
     /\ UNCHANGED engineVars

LimiterStep == (TickFires \/ TickerReturns) /\ UNCHANGED <<pipelineVars, contextVars, engineVars>>

\* What the goroutines of the program do: their own steps, and what the network, the
\* disk and their input make of them.
Program ==
  \/ process = "up" /\ (ModuleStep \/ (PipelineStep /\ UNCHANGED engineVars))
  \/ (process = "up" \/ scan.front = "mcp") /\ LimiterStep

Next == Program \/ (process = "up" /\ Interrupt /\ UNCHANGED engineVars)

Spec == Init /\ [][Next]_vars

\* The scheduler runs some goroutine as long as one can run.
FairSpec == Spec /\ WF_vars(Program)

--------------------------------------------------------------------------------
\* Properties

\* Every scan ends: whatever -c is given, no worker waits for a slot, a token or a
\* join that never comes, interrupted or not. (main.go:278-292, core.go:542-597)
ScanEnds == <>(process = "exited")
================================================================================
