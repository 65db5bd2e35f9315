------------------------------ MODULE ReconProofs ------------------------------
(* Theorems about a whole scan: the report it leaves, the limiter it stops, the      *)
(* sweeps of the portscan module and the crawl, for any flags, addresses, sites,      *)
(* wordlists and worker counts. What the other modules do inside is left to TLC; here  *)
(* it matters that they only add to what all share.                                  *)
EXTENDS Recon, FiniteSetTheorems, SequenceTheorems, WellFoundedInduction, TLAPS

--------------------------------------------------------------------------------
\* The inductive invariant: the pipeline

Module == ToSet(ModuleOrder)
Turn == {running} \ {Nobody}
Cli == scan.front = "cli"

PipelineTypeOK ==
  /\ pending \subseteq Module /\ Turn \subseteq Module
  /\ finished \in Seq(Module)
  /\ DOMAIN stage = Writer /\ DOMAIN snap = Writer /\ DOMAIN file = {"json", "md"}
  /\ faults \in Nat /\ process \in {"up", "exited"}
  /\ cancelled \in BOOLEAN

\* Every module of the plan has had its turn, has it, or will have it, in order; a
\* module that runs keeps main where it is.
OrderInv ==
  /\ ToSet(finished) \cup Turn \cup pending = Plan(scan)
  /\ \A i, j \in DOMAIN finished : i < j => Place(finished[i]) < Place(finished[j])
  /\ \A i \in DOMAIN finished, m \in Turn \cup pending : Place(finished[i]) < Place(m)
  /\ \A m \in Turn, n \in pending : Place(m) < Place(n)
  /\ stage["main"] # "modules" => Turn = {} /\ pending = {}

\* Where the two writers can be, and who has exited.
StageInv ==
  /\ Cli => /\ stage["main"] # "answer"
            /\ stage["handler"] = "off" <=> heard = <<>>
  /\ ~Cli => /\ stage["handler"] = "off"
             /\ stage["main"] \in {"modules", "answer", "over"}
             /\ process = "exited" <=> stage["main"] = "over"
  /\ process = "exited" => \E w \in Writer : stage[w] = "over"
  /\ stage["handler"] \notin {"modules", "answer"} /\ stage["main"] # "off"

\* After the summary nothing is found any more, and a snapshot holds all there was.
SummaryInv ==
  /\ stage["main"] # "modules" => \A e \in endpoints : Finding("surface", e) \in findings
  /\ heard # <<>> => heard[1] \subseteq findings
  /\ Cli /\ Reporting("main") => snap["main"] = findings
  /\ Cli /\ Reporting("handler") => heard[1] \subseteq snap["handler"]
  /\ ~Cli /\ process = "exited" =>
       \A f \in findings \ answer : scan.severe /\ f.about \in InfoTopics

\* A writer nobody competes with has, at each stage, written what it should have.
Alone(w) == Reporting(w) /\ \A v \in Writer \ {w} : ~Reporting(v)
Whole(w) == [text |-> snap[w], state |-> "whole"]

FilesInv ==
  \A w \in Writer : Cli /\ Alone(w) /\ faults = 0 =>
    /\ stage[w] = "write json" => file["json"].state = "empty"
    /\ stage[w] \in {"open md", "write md", "over"} => file["json"] = Whole(w)
    /\ stage[w] = "write md" => file["md"].state = "empty"
    /\ stage[w] = "over" => file["md"] = Whole(w)

\* The limiter: who stands in the line is a worker of the dns module, which runs.
LineInv ==
  /\ line \in Seq(Word) /\ DOMAIN lookup = Word /\ next \in Nat
  /\ \A w \in Word : "stage" \in DOMAIN lookup[w]
  /\ \A i, j \in DOMAIN line : line[i] = line[j] => i = j
  /\ \A i \in DOMAIN line : line[i] \in Working
  /\ Working # {} => dns = "brute"
  /\ dns = "brute" => running = "dns"
  /\ stopped => stage["main"] = "over"

--------------------------------------------------------------------------------
\* The inductive invariant: the sweeps

Reported(ip) == Finding("portscan", ip) \in findings
Heard(ip, p) ==
  \/ p \notin Listening[ip]
  \/ {<<ip, p, "dialing">>, <<ip, p, "again">>} \subseteq drops
  \/ <<ip, p>> \in crashed
  \/ cancelled

PortInv ==
  /\ ports \in Seq(Port) /\ handed \in 0..Len(ports)
  /\ dial \in [Port -> {"none", "dialing", "again", "open", "over"}]
  /\ DOMAIN reported = DOMAIN IsIPv4

\* One sweep: each port that has had a worker is on its way to an outcome.
NoSweep == handed = 0 /\ dial = NoDials /\ open = {}

SweepInv ==
  IF todo = <<>> THEN NoSweep ELSE
  /\ open \subseteq Listening[IP]
  /\ \A i \in 1..handed : dial[ports[i]] # "none"
  /\ \A p \in Port :
       /\ dial[p] = "again" => <<IP, p, "dialing">> \in drops \/ cancelled
       /\ dial[p] = "open" => p \in Listening[IP]
       /\ dial[p] = "over" => p \in open \/ Heard(IP, p)

\* Before the module runs nothing of it is there; a reported address has its ports.
ReportedInv ==
  /\ portscan = "idle" => /\ todo = <<>>
                          /\ \A ip \in DOMAIN IsIPv4 : ~Reported(ip)
  /\ \A ip \in DOMAIN IsIPv4 : Reported(ip) =>
       /\ reported[ip] \subseteq Listening[ip]
       /\ \A p \in (Listening[ip] \cap ToSet(ports)) \ reported[ip] : Heard(ip, p)

--------------------------------------------------------------------------------
\* The inductive invariant: the crawl

Step == {"none", "queued", "fetching", "listing", "queueing"}
Claims(i) == fetches[i].step \in {"fetching", "listing", "queueing"}
Key(i) == Clean[fetches[i].url]

CrawlTypeOK ==
  /\ width \in Nat /\ maxPages \in Nat
  /\ queue \in Seq(URL) /\ batch \in Seq(URL)
  /\ fetches \in [Slot -> [url : URL, step : Step]]
  /\ visited \subseteq URL /\ IsFiniteSet(visited)
  /\ pages \subseteq URL /\ IsFiniteSet(pages)

LimitInv ==
  /\ Cardinality(pages) <= maxPages /\ Cardinality(visited) <= MaxVisits
  /\ crawl = "idle" =>
       /\ queue = <<>> /\ batch = <<>> /\ visited = {} /\ pages = {}
       /\ \A i \in Slot : fetches[i].step = "none"
  /\ crawl = "draining" => batch = <<>>
  /\ crawl = "sending" => batch # <<>>

\* A worker past its first critical section has its URL to itself.
ClaimInv ==
  /\ \A u \in visited : Clean[u] = u
  /\ \A i \in Slot : Claims(i) => Key(i) \in visited
  /\ \A i, j \in Slot : Claims(i) /\ Claims(j) /\ Key(i) = Key(j) => i = j
  /\ \A i \in Slot : fetches[i].step \in {"listing", "queueing"} => IsPage(fetches[i].url)
  /\ \A u \in pages : Clean[u] \in visited
  /\ \A i \in Slot, u \in pages :
       fetches[i].step \in {"fetching", "listing"} => Clean[u] # Key(i)
  /\ \A u, v \in pages : Clean[u] = Clean[v] => u = v

\* A URL the crawl knows of.
Queued(u) ==
  \/ u \in ToSet(queue) \cup ToSet(batch)
  \/ \E i \in Slot : fetches[i].url = u /\ fetches[i].step = "queued"

\* Nothing but what the links lead to is ever queued or visited ...
SoundInv ==
  \A reached \in SUBSET URL : HoldsTheSite(reached) =>
    /\ visited \subseteq reached
    /\ \A u \in URL : Queued(u) => Clean[u] \in reached

\* ... and, as long as nothing has been dropped, nothing of it is missing: what
\* neither is visited nor waits is a link of a page that a worker still reads.
Met(u) == Clean[u] \in visited \/ Queued(u)
CompleteInv ==
  refused = {} =>
    /\ crawl # "idle" => Met(Target)
    /\ crawl = "done" => queue = <<>> /\ batch = <<>> /\ Fetching = {}
    /\ \A u \in URL : Clean[u] \in visited /\ IsPage(u) =>
         \/ \A l \in ToSet(Site[u].links) : Met(l)
         \/ \E i \in Slot : Claims(i) /\ Key(i) = Clean[u]

\* What is listed is a page; and a page that has been visited is listed, or its worker
\* is on the way to list it, as long as nothing has been dropped.
Lists(i) == fetches[i].step \in {"fetching", "listing"}
Accounted(v) ==
  \/ \E u \in pages : Clean[u] = v
  \/ \E i \in Slot : Lists(i) /\ Key(i) = v
ListedInv ==
  /\ \A u \in pages : IsPage(u)
  /\ refused = {} => \A v \in visited : IsPage(v) => Accounted(v)

\* What two spellings of one URL lead to is the same.
SpellingsAgree == \A u, v \in URL : Clean[u] = Clean[v] => Site[u] = Site[v]

ReportInv == PipelineTypeOK /\ OrderInv /\ StageInv /\ SummaryInv /\ FilesInv
ScanInv == PortInv /\ SweepInv /\ ReportedInv
CrawlInv == CrawlTypeOK /\ LimitInv /\ ClaimInv /\ SoundInv

--------------------------------------------------------------------------------
\* The steps of a scan, by what they do to these parts

\* A step that only adds to the findings, none of them of the portscan module.
Adds ==
  /\ findings \subseteq findings'
  /\ \A about : Finding("portscan", about) \in findings' => Finding("portscan", about) \in findings
  /\ UNCHANGED <<width, cancelled>>

DnsTurn ==
  /\ process = "up" /\ running = "dns" /\ DNSStep
  /\ UNCHANGED <<pipelineVars, portVars, crawlVars>>

PortTurn ==
  /\ process = "up" /\ running = "portscan" /\ PortStep
  /\ UNCHANGED <<pipelineVars, limiterVars, dnsVars, crawlVars>>

CrawlTurn ==
  /\ process = "up" /\ running = "crawler" /\ CrawlStep
  /\ UNCHANGED <<pipelineVars, limiterVars, dnsVars, portVars>>

OtherTurn ==
  /\ process = "up" /\ running # Nobody /\ Adds
  /\ UNCHANGED <<pipelineVars, limiterVars, dnsVars, portVars, crawlVars>>

EndTurn ==
  /\ process = "up" /\ running # Nobody /\ (running = "dns" => dns = "done")
  /\ finished' = Append(finished, running) /\ running' = Nobody
  /\ UNCHANGED <<scan, pending, stage, snap, file, answer, heard, faults, process>>
  /\ UNCHANGED <<limiterVars, contextVars, dnsVars, portVars, crawlVars>>

MainTurn ==
  /\ process = "up" /\ (PipelineStep \/ Interrupt)
  /\ UNCHANGED <<dnsVars, portVars, crawlVars>>

LimiterTurn ==
  /\ UNCHANGED <<line, stopped>>
  /\ UNCHANGED <<pipelineVars, contextVars, dnsVars, portVars, crawlVars>>

LEMMA ModuleNames ==
  /\ {"dns", "portscan", "crawler", "wayback", "dirbrute"} \cup FeedModule \subseteq Module
  /\ Nobody \notin Module
BY PipelineAssumption DEF Module, ToSet, ModuleOrder, FeedModule, PipelineAssumption

LEMMA WaybackAdds == WaybackStep => Adds
BY DEF WaybackStep, StartWayback, AskPage, PageFails, LeaveQuery, Adds, Add,
   Finding, contextVars

LEMMA BruteAdds == BruteStep => Adds
BY DEF BruteStep, StartBrute, SpawnProbe, JoinBrute, Answered, Unheard, Adds, Add,
   Finding, contextVars

LEMMA FeedAdds ==
  ASSUME NEW m \in FeedModule, FeedStep(m)
  PROVE  Adds
<1>1. CASE feed = m /\ JoinFeed
  <2>1. ASSUME NEW topics, NEW stores,
               Add({Finding(feed, "result") : t \in topics}
                   \cup {Finding("jsdeep", b) : b \in stores})
        PROVE  /\ findings \subseteq findings'
               /\ \A about : Finding("portscan", about) \in findings'
                                => Finding("portscan", about) \in findings
    <3>1. feed # "portscan" /\ "jsdeep" # "portscan"
      BY <1>1 DEF FeedModule
    <3> QED
      BY <2>1, <3>1 DEF Add, Finding
  <2>2. UNCHANGED <<width, cancelled>>
    BY <1>1 DEF JoinFeed
  <2> QED
    BY <1>1, <2>1, <2>2 DEF JoinFeed, Adds
<1>2. CASE StartFeed(m)
  BY <1>2 DEF StartFeed, Adds, contextVars
<1>3. ASSUME NEW job, SpawnJob(job) \/ Answer(job) \/ NoFavicon(job) \/ Retry(job)
                      \/ Fail(job) \/ PanicOn(job)
      PROVE  Adds
  BY <1>3 DEF SpawnJob, Answer, NoFavicon, Retry, Fail, PanicOn, Adds, contextVars
<1> QED
  BY <1>1, <1>2, <1>3 DEF FeedStep

LEMMA DnsAdds == DNSStep => Adds
BY DEF DNSStep, StartDNS, SpawnLookup, JoinDNS, Lookup, Expire, GiveUp, LineUp, Query,
   Adds, Add, AddSharedSubdomains, Finding, contextVars

LEMMA CrawlAdds == CrawlStep => Adds
BY DEF CrawlStep, StartCrawl, Drain, TakeNext, SpawnFetch, BreakOff, JoinBatch, Visit, Fetch, Mishap,
   ListPage, QueueLinks, Adds, Add, AddSharedEndpoints, Finding, contextVars

LEMMA Turns ==
  ASSUME Next
  PROVE  \/ DnsTurn \/ PortTurn \/ CrawlTurn \/ OtherTurn
         \/ EndTurn \/ MainTurn \/ LimiterTurn
<1>1. ASSUME process = "up", ModuleStep
      PROVE  DnsTurn \/ PortTurn \/ CrawlTurn \/ OtherTurn \/ EndTurn
  <2>1. CASE running = "dns" /\ DNSStep /\ UNCHANGED <<pipelineVars, portVars, crawlVars>>
    BY <1>1, <2>1 DEF DnsTurn
  <2>2. CASE /\ running = "portscan" /\ PortStep
             /\ UNCHANGED <<pipelineVars, limiterVars, dnsVars, crawlVars>>
    BY <1>1, <2>2 DEF PortTurn
  <2>3. CASE /\ running = "crawler" /\ CrawlStep
             /\ UNCHANGED <<pipelineVars, limiterVars, dnsVars, portVars>>
    BY <1>1, <2>3 DEF CrawlTurn
  <2>4. CASE /\ running = "dirbrute" /\ BruteStep
             /\ UNCHANGED <<pipelineVars, limiterVars, dnsVars, portVars, crawlVars>>
    BY <1>1, <2>4, BruteAdds, ModuleNames DEF OtherTurn
  <2>5. CASE /\ running \in FeedModule /\ FeedStep(running)
             /\ UNCHANGED <<pipelineVars, limiterVars, dnsVars, portVars, crawlVars>>
    BY <1>1, <2>5, FeedAdds, ModuleNames DEF OtherTurn
  <2>6. CASE /\ running = "wayback" /\ WaybackStep
             /\ UNCHANGED <<pipelineVars, limiterVars, dnsVars, portVars, crawlVars>>
    BY <1>1, <2>6, WaybackAdds, ModuleNames DEF OtherTurn
  <2>7. CASE running # Nobody /\ Returned(running) /\ EndModule /\ UNCHANGED engineVars
    BY <1>1, <2>7 DEF EndTurn, EndModule, Returned, FeedModule, engineVars
  <2>8. CASE /\ running \notin Detailed \cup {Nobody} /\ AddFinding
             /\ UNCHANGED engineVars
    BY <1>1, <2>8 DEF OtherTurn, AddFinding, Adds, Add, Finding, Detailed, engineVars
  <2>9. CASE /\ running \notin Detailed \cup {Nobody} /\ PanicModule
             /\ UNCHANGED engineVars
    BY <1>1, <2>9 DEF EndTurn, PanicModule, AfterPanic, Detailed, engineVars
  <2> QED
    BY <1>1, <2>1, <2>2, <2>3, <2>4, <2>5, <2>6, <2>7, <2>8, <2>9 DEF ModuleStep
<1>2. ASSUME process = "up", (PipelineStep \/ Interrupt) /\ UNCHANGED engineVars
      PROVE  MainTurn
  BY <1>2 DEF MainTurn, engineVars
<1>3. ASSUME LimiterStep
      PROVE  LimiterTurn
  BY <1>3 DEF LimiterTurn, LimiterStep, TickFires, TickerReturns, engineVars
<1> QED
  BY <1>1, <1>2, <1>3 DEF Next, Program

--------------------------------------------------------------------------------
\* The report

LEMMA Places ==
  \A m \in Module : Place(m) \in Nat /\ ModuleOrder[Place(m)] = m
<1>1. DOMAIN ModuleOrder \subseteq Nat
  BY DEF ModuleOrder
<1>2. \A m \in Module : \E i \in DOMAIN ModuleOrder : ModuleOrder[i] = m
  BY DEF Module, ToSet
<1> QED
  BY <1>1, <1>2 DEF Place

LEMMA ReportInit == Init => ReportInv
<1> SUFFICES ASSUME Init PROVE ReportInv
  OBVIOUS
<1> USE DEF Init, PipelineInit
<1>0. stage["main"] = "modules" /\ stage["handler"] = "off"
  OBVIOUS
<1>1. PipelineTypeOK
  <2>1. pending \subseteq Module /\ Turn \subseteq Module /\ finished \in Seq(Module)
    BY DEF Module, Plan, Turn
  <2>2. DOMAIN stage = Writer /\ DOMAIN snap = Writer /\ DOMAIN file = {"json", "md"}
    BY DEF Writer
  <2> QED
    BY <2>1, <2>2 DEF PipelineTypeOK
<1>2. OrderInv
  BY DEF OrderInv, Turn, ToSet
<1>3. StageInv
  BY DEF StageInv, Cli, Writer
<1>4. SummaryInv
  BY DEF SummaryInv, Cli, Reporting
<1>5. FilesInv
  BY <1>0 DEF FilesInv, Alone, Reporting, Writer
<1> QED
  BY <1>1, <1>2, <1>3, <1>4, <1>5 DEF ReportInv

\* The turn of a module: main waits for it, and the findings only grow.
LEMMA ReportInWork ==
  ASSUME ReportInv, process = "up", running # Nobody, findings \subseteq findings',
         UNCHANGED <<pipelineVars, cancelled>>
  PROVE  ReportInv'
<1> USE DEF ReportInv, pipelineVars
<1>1. stage["main"] = "modules"
  BY DEF OrderInv, Turn
<1>2. PipelineTypeOK'
  BY DEF PipelineTypeOK, Turn
<1>3. OrderInv'
  BY DEF OrderInv, Turn
<1>4. StageInv'
  BY DEF StageInv, Cli
<1>5. SummaryInv'
  BY <1>1 DEF SummaryInv, Cli, Reporting
<1>6. FilesInv'
  BY DEF FilesInv, Alone, Reporting, Whole, Cli
<1> QED
  BY <1>2, <1>3, <1>4, <1>5, <1>6

LEMMA ReportAtEnd ==
  ASSUME ReportInv, EndTurn
  PROVE  ReportInv'
<1> USE DEF ReportInv, EndTurn, contextVars
<1>1. running \in Module /\ Turn = {running} /\ Turn' = {}
  BY DEF Turn, PipelineTypeOK
<1>2. /\ finished' \in Seq(Module)
      /\ Len(finished') = Len(finished) + 1 /\ finished'[Len(finished) + 1] = running
      /\ \A i \in 1..Len(finished) : finished'[i] = finished[i]
      /\ DOMAIN finished = 1..Len(finished) /\ DOMAIN finished' = 1..(Len(finished) + 1)
      /\ Len(finished) \in Nat
  BY <1>1 DEF PipelineTypeOK
<1>3. PipelineTypeOK'
  BY <1>1, <1>2 DEF PipelineTypeOK
<1>4. OrderInv'
  <2>1. ToSet(finished') = ToSet(finished) \cup {running}
    BY <1>2 DEF ToSet
  <2>2. \A i, j \in DOMAIN finished' : i < j => Place(finished'[i]) < Place(finished'[j])
    BY <1>1, <1>2 DEF OrderInv
  <2>3. \A i \in DOMAIN finished', m \in pending : Place(finished'[i]) < Place(m)
    BY <1>1, <1>2 DEF OrderInv
  <2> QED
    BY <1>1, <2>1, <2>2, <2>3 DEF OrderInv, Plan, ShouldRun
<1>5. StageInv'
  BY DEF StageInv, Cli
<1>6. SummaryInv'
  BY DEF SummaryInv, Cli, Reporting
<1>7. FilesInv'
  BY DEF FilesInv, Alone, Reporting, Whole, Cli
<1> QED
  BY <1>3, <1>4, <1>5, <1>6, <1>7


LEMMA OrderKept ==
  ASSUME OrderInv, Turn' = Turn, UNCHANGED <<scan, pending, finished>>,
         stage'["main"] # "modules" => stage["main"] # "modules"
  PROVE  OrderInv'
<1>1. Plan(scan)' = Plan(scan)
  OBVIOUS
<1> QED
  BY <1>1 DEF OrderInv

\* main takes the next module of the plan.
LEMMA ReportAtStart ==
  ASSUME ReportInv, StartModule
  PROVE  ReportInv'
<1> USE DEF ReportInv, StartModule, contextVars, limiterVars
<1>1. /\ running' \in pending /\ running' \in Module /\ running' # Nobody
      /\ Turn = {} /\ Turn' = {running'} /\ pending' = pending \ {running'}
  BY ModuleNames DEF Turn, PipelineTypeOK
<1>2. PipelineTypeOK'
  BY <1>1 DEF PipelineTypeOK
<1>3. OrderInv'
  <2>1. \A n \in pending' : Place(running') < Place(n)
    <3> SUFFICES ASSUME NEW n \in pending'
                 PROVE  Place(running') < Place(n)
      OBVIOUS
    <3>1. n \in Module /\ n # running' /\ Place(running') <= Place(n)
      BY <1>1 DEF PipelineTypeOK
    <3> QED
      BY <1>1, <3>1, Places
  <2>2. ToSet(finished') \cup Turn' \cup pending' = Plan(scan')
    BY <1>1 DEF OrderInv, Plan, ShouldRun, ToSet
  <2> QED
    BY <1>1, <2>1, <2>2 DEF OrderInv
<1>4. StageInv'
  BY DEF StageInv, Cli
<1>5. SummaryInv'
  BY DEF SummaryInv, Cli, Reporting
<1>6. FilesInv'
  BY DEF FilesInv, Alone, Reporting, Whole, Cli
<1> QED
  BY <1>2, <1>3, <1>4, <1>5, <1>6

LEMMA ReportAtSurface ==
  ASSUME ReportInv, process = "up", Surface
  PROVE  ReportInv'
<1> USE DEF ReportInv, Surface, contextVars, limiterVars, Add
<1>1. /\ Turn = {} /\ Turn' = {} /\ ~Reporting("main")
      /\ findings \subseteq findings' /\ stage'["handler"] = stage["handler"]
      /\ stage'["main"] = IF Cli THEN "snapshot" ELSE "answer"
      /\ DOMAIN stage' = Writer
  BY DEF Turn, Reporting, PipelineTypeOK, Writer, Cli
<1>2. PipelineTypeOK'
  BY <1>1 DEF PipelineTypeOK
<1>3. OrderInv'
  BY <1>1 DEF OrderInv, Plan, ShouldRun, ToSet
<1>4. StageInv'
  BY <1>1 DEF StageInv, Cli, Writer
<1>5. SummaryInv'
  BY <1>1 DEF SummaryInv, Cli, Reporting, Finding
<1>6. FilesInv'
  BY <1>1 DEF FilesInv, Alone, Reporting, Whole, Cli, Writer
<1> QED
  BY <1>2, <1>3, <1>4, <1>5, <1>6

LEMMA ReportAtSnapshot ==
  ASSUME ReportInv, process = "up", NEW w \in Writer, TakeSnapshot(w)
  PROVE  ReportInv'
<1> USE DEF ReportInv, TakeSnapshot, Goes, contextVars, limiterVars
<1>1. /\ stage[w] = "snapshot" /\ stage'[w] = "open json" /\ snap'[w] = findings
      /\ \A v \in Writer \ {w} : stage'[v] = stage[v] /\ snap'[v] = snap[v]
      /\ DOMAIN stage' = Writer /\ DOMAIN snap' = Writer
  BY DEF PipelineTypeOK
<1>2. Turn' = Turn /\ Cli' = Cli /\ Cli
  BY <1>1 DEF Turn, Cli, StageInv, Writer
<1>3. PipelineTypeOK'
  BY <1>1, <1>2 DEF PipelineTypeOK
<1>4. OrderInv'
  <2>1. stage'["main"] # "modules" => stage["main"] # "modules"
    BY <1>1 DEF Writer
  <2> QED
    BY <1>2, <2>1, OrderKept
<1>5. StageInv'
  BY <1>1, <1>2 DEF StageInv, Writer
<1>6. SummaryInv'
  BY <1>1, <1>2 DEF SummaryInv, Reporting, Writer, StageInv
<1>7. FilesInv'
  BY <1>1, <1>2 DEF FilesInv, Alone, Reporting, Whole, Writer
<1> QED
  BY <1>3, <1>4, <1>5, <1>6, <1>7

\* The four stages in which a writer works on the files.
FileStage == {"open json", "write json", "open md", "write md"}

LEMMA ReportAtFile ==
  ASSUME ReportInv, process = "up", NEW w \in Writer, GenerateReport(w), ~TakeSnapshot(w)
  PROVE  ReportInv'
<1> USE DEF ReportInv
<1>1. /\ UNCHANGED <<scan, pending, running, finished, snap, answer, heard, process>>
      /\ UNCHANGED <<limiterVars, contextVars>>
      /\ \/ Opens(w, "open json", "json", "write json")
         \/ Writes(w, "write json", "json", "open md")
         \/ FileFails(w, "open json", "write json", "json", "open md")
         \/ Opens(w, "open md", "md", "write md")
         \/ Writes(w, "write md", "md", "over")
         \/ FileFails(w, "open md", "write md", "md", "over")
  BY DEF GenerateReport
<1>2. /\ stage[w] \in FileStage /\ stage'[w] \in FileStage \cup {"over"} /\ stage'[w] # "open json"
      /\ \A v \in Writer \ {w} : stage'[v] = stage[v]
      /\ DOMAIN stage' = Writer /\ DOMAIN file' = {"json", "md"}
      /\ faults' \in Nat
      /\ faults' # 0 \/ faults' = faults
  <2>1. CASE Opens(w, "open json", "json", "write json")
    BY <2>1 DEF PipelineTypeOK, Opens, Goes, FileStage
  <2>2. CASE Writes(w, "write json", "json", "open md")
    BY <2>2 DEF PipelineTypeOK, Writes, Goes, FileStage
  <2>3. CASE FileFails(w, "open json", "write json", "json", "open md")
    <3>1. faults' \in Nat /\ faults' # 0
      <4>1. faults \in Nat
        BY DEF PipelineTypeOK
      <4>2. faults' = faults + 1
        BY <2>3 DEF FileFails
      <4> QED
        BY <4>1, <4>2
    <3>2. DOMAIN file' = {"json", "md"}
      BY <2>3 DEF PipelineTypeOK, FileFails
    <3>3. stage[w] \in FileStage /\ stage' = [stage EXCEPT ![w] = "open md"]
      BY <2>3 DEF FileFails, Goes, FileStage
    <3> QED
      BY <3>1, <3>2, <3>3 DEF PipelineTypeOK, FileStage
  <2>4. CASE Opens(w, "open md", "md", "write md")
    BY <2>4 DEF PipelineTypeOK, Opens, Goes, FileStage
  <2>5. CASE Writes(w, "write md", "md", "over")
    BY <2>5 DEF PipelineTypeOK, Writes, Goes, FileStage
  <2>6. CASE FileFails(w, "open md", "write md", "md", "over")
    <3>1. faults' \in Nat /\ faults' # 0
      <4>1. faults \in Nat
        BY DEF PipelineTypeOK
      <4>2. faults' = faults + 1
        BY <2>6 DEF FileFails
      <4> QED
        BY <4>1, <4>2
    <3>2. DOMAIN file' = {"json", "md"}
      BY <2>6 DEF PipelineTypeOK, FileFails
    <3>3. stage[w] \in FileStage /\ stage' = [stage EXCEPT ![w] = "over"]
      BY <2>6 DEF FileFails, Goes, FileStage
    <3> QED
      BY <3>1, <3>2, <3>3 DEF PipelineTypeOK, FileStage
  <2> QED
    BY <1>1, <2>1, <2>2, <2>3, <2>4, <2>5, <2>6
<1>3. Turn' = Turn /\ Cli' = Cli /\ Cli /\ (\A v \in Writer : Reporting(v)' = Reporting(v))
  BY <1>1, <1>2 DEF Turn, Cli, StageInv, Writer, Reporting, FileStage
<1>4. PipelineTypeOK'
  BY <1>1, <1>2, <1>3 DEF PipelineTypeOK, contextVars
<1>5. OrderInv'
  <2>1. stage'["main"] # "modules" => stage["main"] # "modules"
    BY <1>2 DEF Writer, FileStage
  <2> QED
    BY <1>1, <1>3, <2>1, OrderKept
<1>6. StageInv'
  BY <1>1, <1>2, <1>3 DEF StageInv, Writer, FileStage
<1>7. SummaryInv'
  BY <1>1, <1>2, <1>3 DEF SummaryInv, Writer, StageInv, FileStage, contextVars
<1>8. FilesInv'
  <2> SUFFICES ASSUME NEW v \in Writer, Alone(v)', faults' = 0
               PROVE  /\ stage'[v] = "write json" => file'["json"].state = "empty"
                      /\ stage'[v] \in {"open md", "write md", "over"} => file'["json"] = Whole(v)'
                      /\ stage'[v] = "write md" => file'["md"].state = "empty"
                      /\ stage'[v] = "over" => file'["md"] = Whole(v)'
    BY DEF FilesInv
  <2>1. v = w /\ faults = 0 /\ Alone(w) /\ Whole(w)' = Whole(w)
    BY <1>1, <1>2, <1>3 DEF Alone, Whole, Reporting, FileStage
  <2>2. CASE Opens(w, "open json", "json", "write json")
    BY <1>2, <2>1, <2>2 DEF Opens, Goes, PipelineTypeOK
  <2>3. CASE Writes(w, "write json", "json", "open md")
    BY <1>2, <1>3, <2>1, <2>3 DEF Writes, Written, Goes, PipelineTypeOK, FilesInv, Whole
  <2>4. CASE Opens(w, "open md", "md", "write md")
    BY <1>2, <1>3, <2>1, <2>4 DEF Opens, Goes, PipelineTypeOK, FilesInv
  <2>5. CASE Writes(w, "write md", "md", "over")
    BY <1>2, <1>3, <2>1, <2>5 DEF Writes, Written, Goes, PipelineTypeOK, FilesInv, Whole
  <2>6. ~FileFails(w, "open json", "write json", "json", "open md")
    BY <2>1 DEF FileFails
  <2>7. ~FileFails(w, "open md", "write md", "md", "over")
    BY <2>1 DEF FileFails
  <2> QED
    BY <1>1, <2>2, <2>3, <2>4, <2>5, <2>6, <2>7
<1> QED
  BY <1>4, <1>5, <1>6, <1>7, <1>8


LEMMA ReportAtReturn ==
  ASSUME ReportInv, process = "up", MainReturns \/ HandlerExits
  PROVE  ReportInv'
<1> USE DEF ReportInv
<1>1. /\ UNCHANGED <<scan, pending, running, finished, stage, snap, file, answer, heard, faults>>
      /\ UNCHANGED contextVars /\ process' = "exited" /\ \E w \in Writer : stage[w] = "over"
      /\ stage["main"] = "over" \/ stage["handler"] = "over"
  BY DEF MainReturns, HandlerExits, Writer
<1>2. Cli /\ Cli' /\ Turn' = Turn
  BY <1>1 DEF StageInv, Cli, Turn
<1>3. PipelineTypeOK'
  BY <1>1, <1>2 DEF PipelineTypeOK, contextVars
<1>4. OrderInv'
  BY <1>1, <1>2, OrderKept
<1>5. StageInv'
  BY <1>1, <1>2 DEF StageInv
<1>6. SummaryInv'
  BY <1>1, <1>2 DEF SummaryInv, Reporting, contextVars
<1>7. FilesInv'
  BY <1>1, <1>2 DEF FilesInv, Alone, Reporting, Whole
<1> QED
  BY <1>3, <1>4, <1>5, <1>6, <1>7

LEMMA ReportAtAnswer ==
  ASSUME ReportInv, process = "up", ExecuteScanReturns
  PROVE  ReportInv'
<1> USE DEF ReportInv, ExecuteScanReturns, contextVars, Goes
<1>1. /\ stage["main"] = "answer" /\ stage'["main"] = "over"
      /\ stage'["handler"] = stage["handler"] /\ DOMAIN stage' = Writer
  BY DEF PipelineTypeOK, Writer
<1>2. ~Cli /\ ~Cli' /\ Turn' = Turn
  BY <1>1 DEF StageInv, Cli, Turn
<1>3. PipelineTypeOK'
  BY <1>1, <1>2 DEF PipelineTypeOK
<1>4. OrderInv'
  BY <1>1, <1>2, OrderKept
<1>5. StageInv'
  BY <1>1, <1>2 DEF StageInv, Writer
<1>6. SummaryInv'
  BY <1>1, <1>2 DEF SummaryInv
<1>7. FilesInv'
  BY <1>2 DEF FilesInv
<1> QED
  BY <1>3, <1>4, <1>5, <1>6, <1>7

LEMMA ReportAtInterrupt ==
  ASSUME ReportInv, process = "up", Interrupt
  PROVE  ReportInv'
<1> USE DEF ReportInv, Interrupt, Cancel, limiterVars, Goes
<1>1. /\ stage'["main"] = stage["main"] /\ DOMAIN stage' = Writer
      /\ stage'["handler"] = IF Cli THEN "snapshot" ELSE "off"
      /\ heard' = <<findings>> /\ heard' # <<>> /\ heard'[1] = findings
      /\ Cli' = Cli /\ Turn' = Turn
  BY DEF PipelineTypeOK, Writer, Cli, StageInv, Turn
<1>2. Cli => stage["handler"] = "off"
  BY DEF StageInv
<1>3. PipelineTypeOK'
  BY <1>1 DEF PipelineTypeOK
<1>4. OrderInv'
  BY <1>1, OrderKept
<1>5. StageInv'
  BY <1>1, <1>2 DEF StageInv, Writer
<1>6. SummaryInv'
  BY <1>1, <1>2 DEF SummaryInv, Reporting
<1>7. FilesInv'
  BY <1>1, <1>2 DEF FilesInv, Alone, Reporting, Whole, Writer
<1> QED
  BY <1>3, <1>4, <1>5, <1>6, <1>7

LEMMA PortAdds == PortStep => findings \subseteq findings' /\ UNCHANGED <<width, cancelled>>
BY DEF PortStep, StartPortScan, SpawnDial, JoinSweep, Dial, ReadBanner, Add, contextVars

LEMMA ReportNext ==
  ASSUME ReportInv, [Next]_vars
  PROVE  ReportInv'
<1>1. CASE DnsTurn
  BY <1>1, DnsAdds, ReportInWork, ModuleNames DEF DnsTurn, Adds
<1>2. CASE PortTurn
  BY <1>2, PortAdds, ReportInWork, ModuleNames DEF PortTurn
<1>3. CASE CrawlTurn
  BY <1>3, CrawlAdds, ReportInWork, ModuleNames DEF CrawlTurn, Adds
<1>4. CASE OtherTurn
  BY <1>4, ReportInWork DEF OtherTurn, Adds
<1>5. CASE EndTurn
  BY <1>5, ReportAtEnd
<1>6. CASE MainTurn
  <2>1. CASE Surface
    BY <1>6, <2>1, ReportAtSurface DEF MainTurn
  <2>2. ASSUME NEW w \in Writer, GenerateReport(w)
        PROVE  ReportInv'
    BY <1>6, <2>2, ReportAtSnapshot, ReportAtFile DEF MainTurn
  <2> QED
    BY <1>6, <2>1, <2>2, ReportAtStart, ReportAtReturn, ReportAtAnswer, ReportAtInterrupt
    DEF MainTurn, PipelineStep
<1>7. CASE LimiterTurn \/ UNCHANGED vars
  <2>1. UNCHANGED pipelineVars /\ UNCHANGED contextVars
    BY <1>7 DEF LimiterTurn, vars
  <2>2. Turn' = Turn /\ Cli' = Cli /\ \A w \in Writer : Reporting(w)' = Reporting(w)
    BY <2>1 DEF pipelineVars, Turn, Cli, Reporting
  <2>3. OrderInv'
    BY <2>1, <2>2, OrderKept DEF ReportInv, pipelineVars
  <2>4. PipelineTypeOK'
    BY <2>1, <2>2 DEF ReportInv, PipelineTypeOK, pipelineVars, contextVars
  <2>5. StageInv'
    BY <2>1, <2>2 DEF ReportInv, StageInv, pipelineVars
  <2>6. SummaryInv'
    BY <2>1, <2>2 DEF ReportInv, SummaryInv, Writer, pipelineVars, contextVars
  <2>7. FilesInv'
    BY <2>1, <2>2 DEF ReportInv, FilesInv, Alone, Whole, pipelineVars
  <2> QED
    BY <2>3, <2>4, <2>5, <2>6, <2>7 DEF ReportInv
<1> QED
  BY <1>1, <1>2, <1>3, <1>4, <1>5, <1>6, <1>7, Turns


--------------------------------------------------------------------------------
\* The line of the limiter

LEMMA LineInit == Init => LineInv
<1> SUFFICES ASSUME Init PROVE LineInv
  OBVIOUS
<1>1. line = <<>> /\ next = 0 /\ stopped = FALSE /\ dns = "idle"
  BY DEF Init, PipelineInit, LimiterInit, SubdomainInit
<1>2. lookup = [w \in Word |-> At("todo")]
  BY DEF Init, SubdomainInit
<1>3. \A w \in Word : "stage" \in DOMAIN lookup[w] /\ lookup[w].stage = "todo"
  BY <1>2 DEF At, Asking
<1>4. Working = {}
  BY <1>3 DEF Working, Stages
<1> QED
  BY <1>1, <1>2, <1>3, <1>4 DEF LineInv

\* A step that leaves the dns module and the line alone.
LEMMA LineKept ==
  ASSUME LineInv, UNCHANGED <<line, dnsVars>>, dns = "brute" => running' = "dns",
         stopped' => stage'["main"] = "over"
  PROVE  LineInv'
<1>1. Working' = Working
  BY DEF Working, dnsVars
<1> QED
  BY <1>1 DEF LineInv, dnsVars

\* Whatever becomes of a lookup, only its own entry changes.
Turned(w) ==
  /\ lookup' = [lookup EXCEPT ![w] = lookup'[w]]
  /\ "stage" \in DOMAIN lookup'[w]

LEMMA GoesOn ==
  ASSUME NEW w \in Word, DOMAIN lookup = Word, NEW l, "stage" \in DOMAIN l, Goto(w, l)
  PROVE  Turned(w)
BY DEF Goto, Turned

LEMMA AskingHasStage ==
  /\ \A stage0, qtype, ips : "stage" \in DOMAIN Asking(stage0, qtype, ips)
  /\ \A stage0 : "stage" \in DOMAIN At(stage0)
BY DEF Asking, At

LEMMA ReturnsTurn ==
  ASSUME NEW w \in Word, DOMAIN lookup = Word, NEW a, Returns(w, a)
  PROVE  Turned(w)
<1>1. CASE FirstHalf(w, a)
  BY <1>1, GoesOn, AskingHasStage DEF FirstHalf
<1>2. CASE HostResolved(w, a)
  BY <1>2, GoesOn, AskingHasStage DEF HostResolved
<1>3. CASE AliasResolved(w, a)
  BY <1>3, GoesOn, AskingHasStage DEF AliasResolved
<1>4. CASE TargetResolved(w, a)
  BY <1>4, GoesOn, AskingHasStage DEF TargetResolved
<1> QED
  BY <1>1, <1>2, <1>3, <1>4 DEF Returns

LEMMA QueryTurns ==
  ASSUME LineInv, NEW w \in Word, Query(w)
  PROVE  Turned(w)
<1>1. DOMAIN lookup = Word /\ "stage" \in DOMAIN lookup[w]
  BY DEF LineInv
<1>2. CASE Panics(w)
  BY <1>1, <1>2, GoesOn, AskingHasStage DEF Panics
<1>3. CASE Unanswered(w)
  <2>1. CASE Returns(w, Nothing(w))
    BY <1>1, <2>1, ReturnsTurn
  <2>2. CASE Goto(w, [lookup[w] EXCEPT !.attempt = @ + 1])
    <3>1. "stage" \in DOMAIN [lookup[w] EXCEPT !.attempt = @ + 1]
      BY <1>1
    <3> QED
      BY <1>1, <2>2, <3>1, GoesOn
  <2> QED
    BY <1>3, <2>1, <2>2 DEF Unanswered
<1>4. CASE \E a : Returns(w, a)
  BY <1>1, <1>4, ReturnsTurn
<1> QED
  BY <1>2, <1>3, <1>4 DEF Query

\* The token takes one worker out of the line.
LEMMA OneLeavesTheLine ==
  ASSUME LineInv, NEW w \in Word, TakeToken(w)
  PROVE  /\ line' \in Seq(Word) /\ stopped' = stopped
         /\ \A i, j \in DOMAIN line' : line'[i] = line'[j] => i = j
         /\ \A i \in DOMAIN line' : line'[i] # w /\ \E j \in DOMAIN line : line'[i] = line[j]
<1>1. PICK k \in DOMAIN line : line[k] = w /\ line' = RemoveAt(line, k)
  BY DEF TakeToken
<1>2. line \in Seq(Word) /\ DOMAIN line = 1..Len(line) /\ Len(line) \in Nat
  BY DEF LineInv
<1> DEFINE front == SubSeq(line, 1, k - 1)
           back == SubSeq(line, k + 1, Len(line))
<1>3. /\ front \in Seq(Word) /\ Len(front) = k - 1
      /\ \A i \in 1..(k - 1) : front[i] = line[i]
  BY <1>2
<1>4. /\ back \in Seq(Word) /\ Len(back) = Len(line) - k
      /\ \A i \in 1..(Len(line) - k) : back[i] = line[k + i]
  BY <1>2
<1>5. line' = front \o back
  BY <1>1 DEF RemoveAt
<1> HIDE DEF front, back
<1>6. /\ line' \in Seq(Word) /\ Len(line') = Len(line) - 1
      /\ \A i \in 1..(Len(line) - 1) : line'[i] = IF i < k THEN line[i] ELSE line[i + 1]
  <2>1. k \in 1..Len(line)
    BY <1>2
  <2>2. line' \in Seq(Word) /\ Len(line') = Len(line) - 1
    <3>1. line' \in Seq(Word) /\ Len(line') = Len(front) + Len(back)
      BY <1>3, <1>4, <1>5, ConcatProperties
    <3> QED
      BY <1>2, <1>3, <1>4, <2>1, <3>1
  <2>3. ASSUME NEW i \in 1..(Len(line) - 1)
        PROVE  line'[i] = IF i < k THEN line[i] ELSE line[i + 1]
    <3>1. line'[i] = IF i <= Len(front) THEN front[i] ELSE back[i - Len(front)]
      BY <1>2, <1>3, <1>4, <1>5, <2>1
    <3> QED
      <4>1. CASE i < k
        BY <1>2, <1>3, <2>1, <3>1, <4>1
      <4>2. CASE ~(i < k)
        <5>1. i - Len(front) = i - k + 1 /\ i - k + 1 \in 1..(Len(line) - k)
          BY <1>2, <1>3, <2>1, <4>2
        <5>2. back[i - k + 1] = line[k + (i - k + 1)] /\ k + (i - k + 1) = i + 1
          BY <1>2, <1>4, <2>1, <5>1
        <5> QED
          BY <1>2, <1>3, <2>1, <3>1, <4>2, <5>1, <5>2
      <4> QED
        BY <4>1, <4>2
  <2> QED
    BY <2>2, <2>3
<1>7. DOMAIN line' = 1..(Len(line) - 1)
  BY <1>2, <1>6
<1>8. \A i, j \in DOMAIN line : line[i] = line[j] => i = j
  BY DEF LineInv
<1>9. ASSUME NEW i \in DOMAIN line'
      PROVE  \E j \in DOMAIN line : j # k /\ line'[i] = line[j] /\ j = IF i < k THEN i ELSE i + 1
  BY <1>2, <1>6, <1>7
<1>10. \A i \in DOMAIN line' : line'[i] # w /\ \E j \in DOMAIN line : line'[i] = line[j]
  BY <1>1, <1>8, <1>9
<1>11. \A i, j \in DOMAIN line' : line'[i] = line'[j] => i = j
  BY <1>2, <1>7, <1>8, <1>9
<1>12. stopped' = stopped
  BY DEF TakeToken
<1> QED
  BY <1>6, <1>10, <1>11, <1>12


LEMMA LineInDns ==
  ASSUME LineInv, DnsTurn, stage["main"] = "modules"
  PROVE  LineInv'
<1> USE DEF LineInv, DnsTurn, pipelineVars
<1>1. CASE StartDNS
  <2>1. Working' = Working
    BY <1>1 DEF StartDNS, Working
  <2> QED
    BY <1>1, <2>1 DEF StartDNS, limiterVars
<1>2. CASE SpawnLookup
  <2> DEFINE w == Wordlist[next + 1]
  <2>1. w \in Word /\ next' \in Nat
    BY <1>2, SubdomainAssumption DEF SpawnLookup, SubdomainAssumption, Word
  <2>2. Turned(w) /\ lookup'[w].stage = "host"
    BY <1>2, <2>1, GoesOn, AskingHasStage DEF SpawnLookup, Goto, At, Asking
  <2> HIDE DEF w
  <2>3. Working \subseteq Working'
    BY <2>1, <2>2 DEF Working, Turned, Stages
  <2>4. line' = line /\ dns = "brute" /\ dns' = dns /\ stopped' = stopped
    BY <1>2 DEF SpawnLookup, limiterVars
  <2>5. DOMAIN lookup' = Word /\ \A v \in Word : "stage" \in DOMAIN lookup'[v]
    BY <2>1, <2>2 DEF Turned
  <2> QED
    BY <2>1, <2>3, <2>4, <2>5
<1>3. ASSUME NEW w \in Word, Expire(w)
      PROVE  LineInv'
  <2>1. Working' = Working
    BY <1>3 DEF Expire, Working
  <2> QED
    BY <1>3, <2>1 DEF Expire, limiterVars
<1>4. ASSUME NEW w \in Word, GiveUp(w)
      PROVE  LineInv'
  <2>1. Turned(w) /\ ~InLine(w) /\ w \in Working
    BY <1>4, ReturnsTurn DEF GiveUp
  <2>2. DOMAIN lookup' = Word /\ \A v \in Word : "stage" \in DOMAIN lookup'[v]
    BY <2>1 DEF Turned
  <2>3. \A v \in Working \ {w} : v \in Working'
    BY <2>1 DEF Turned, Working
  <2>4. line' = line /\ dns = "brute" /\ dns' = dns /\ next' = next /\ stopped' = stopped
    BY <1>4, <2>1 DEF GiveUp, limiterVars
  <2>5. \A i \in DOMAIN line : line[i] \in Working'
    BY <2>1, <2>3 DEF InLine
  <2> QED
    BY <2>2, <2>4, <2>5
<1>5. ASSUME NEW w \in Word, LineUp(w)
      PROVE  LineInv'
  <2>1. w \in Working /\ ~InLine(w) /\ line' = Append(line, w) /\ stopped' = stopped
    BY <1>5 DEF LineUp, JoinLine
  <2>2. UNCHANGED dnsVars /\ Working' = Working
    BY <1>5 DEF LineUp, dnsVars, Working
  <2>3. /\ line' \in Seq(Word) /\ DOMAIN line' = 1..(Len(line) + 1) /\ Len(line) \in Nat
        /\ DOMAIN line = 1..Len(line)
        /\ line'[Len(line) + 1] = w /\ \A i \in 1..Len(line) : line'[i] = line[i]
    BY <2>1
  <2>4. \A i, j \in DOMAIN line' : line'[i] = line'[j] => i = j
    BY <2>1, <2>3 DEF InLine
  <2>5. \A i \in DOMAIN line' : line'[i] \in Working'
    BY <2>1, <2>2, <2>3
  <2> QED
    BY <2>1, <2>2, <2>3, <2>4, <2>5 DEF dnsVars
<1>6. ASSUME NEW w \in Word, Query(w)
      PROVE  LineInv'
  <2>1. Turned(w) /\ w \in Working
    BY <1>6, QueryTurns DEF Query
  <2>2. TakeToken(w) /\ dns' = dns /\ next' = next
    BY <1>6 DEF Query
  <2>3. DOMAIN lookup' = Word /\ \A v \in Word : "stage" \in DOMAIN lookup'[v]
    BY <2>1 DEF Turned
  <2>4. \A v \in Working \ {w} : v \in Working'
    BY <2>1 DEF Turned, Working
  <2>5. \A i \in DOMAIN line' : line'[i] \in Working'
    BY <2>2, <2>4, OneLeavesTheLine
  <2> QED
    BY <2>1, <2>2, <2>3, <2>5, OneLeavesTheLine
<1>7. CASE JoinDNS
  <2>1. Working' = Working /\ Working = {}
    BY <1>7 DEF JoinDNS, Working
  <2> QED
    BY <1>7, <2>1 DEF JoinDNS, limiterVars
<1> QED
  BY <1>1, <1>2, <1>3, <1>4, <1>5, <1>6, <1>7 DEF DNSStep, Lookup

LEMMA LineNext ==
  ASSUME LineInv, ReportInv, [Next]_vars
  PROVE  LineInv'
<1>1. CASE DnsTurn
  <2>1. stage["main"] = "modules"
    BY <1>1, ModuleNames DEF DnsTurn, ReportInv, OrderInv, Turn
  <2> QED
    BY <1>1, <2>1, LineInDns
<1>2. CASE PortTurn \/ CrawlTurn \/ OtherTurn
  BY <1>2, LineKept DEF PortTurn, CrawlTurn, OtherTurn, pipelineVars, limiterVars, LineInv
<1>3. CASE EndTurn
  BY <1>3, LineKept DEF EndTurn, limiterVars, LineInv
<1>4. CASE MainTurn
  <2>1. UNCHANGED <<line, dnsVars>>
    BY <1>4 DEF MainTurn, PipelineStep, StartModule, Surface, GenerateReport, TakeSnapshot,
       MainReturns, ExecuteScanReturns, HandlerExits, Interrupt, Stop, limiterVars
  <2>2. dns = "brute" => running' = "dns"
    BY <1>4, ModuleNames DEF MainTurn, PipelineStep, StartModule, Surface, GenerateReport, TakeSnapshot,
       MainReturns, ExecuteScanReturns, HandlerExits, Interrupt, LineInv
  <2>3. stopped' => stage'["main"] = "over"
    <3>1. CASE MainReturns
      BY <3>1 DEF MainReturns
    <3>2. CASE ExecuteScanReturns
      BY <3>2 DEF ExecuteScanReturns, Goes, ReportInv, PipelineTypeOK, Writer
    <3>3. CASE ~MainReturns /\ ~ExecuteScanReturns
      <4>1. stopped' = stopped
        BY <1>4, <3>3 DEF MainTurn, PipelineStep, StartModule, Surface, GenerateReport,
           TakeSnapshot, HandlerExits, Interrupt, limiterVars
      <4>2. stage["main"] = "over" => stage'["main"] = "over"
        BY <1>4, <3>3 DEF MainTurn, PipelineStep, StartModule, Surface, GenerateReport,
           TakeSnapshot, HandlerExits, Interrupt, Opens, Writes, FileFails, Goes,
           ReportInv, PipelineTypeOK, Writer
      <4> QED
        BY <4>1, <4>2 DEF LineInv
    <3> QED
      BY <3>1, <3>2, <3>3
  <2> QED
    BY <2>1, <2>2, <2>3, LineKept
<1>5. CASE LimiterTurn
  BY <1>5, LineKept DEF LimiterTurn, LineInv, pipelineVars
<1>6. CASE UNCHANGED vars
  BY <1>6, LineKept DEF vars, engineVars, limiterVars, pipelineVars, LineInv
<1> QED
  BY <1>1, <1>2, <1>3, <1>4, <1>5, <1>6, Turns


\* A scan that is over leaves one whole report, and nobody waiting in the limiter.
LEMMA ReportFollows ==
  ASSUME ReportInv, LineInv
  PROVE  ReportIsComplete
<1> USE DEF ReportInv
<1>1. StopFindsNobodyWaiting
  <2> SUFFICES ASSUME stopped PROVE line = <<>>
    BY DEF StopFindsNobodyWaiting
  <2>1. dns # "brute"
    BY ModuleNames DEF LineInv, OrderInv, Turn
  <2>2. DOMAIN line = {} /\ line \in Seq(Word)
    BY <2>1 DEF LineInv
  <2> QED
    BY <2>2
<1>2. ASSUME stage["main"] = "over"
      PROVE  /\ ToSet(finished) = Plan(scan)
             /\ \A i, j \in DOMAIN finished : i < j => Place(finished[i]) < Place(finished[j])
             /\ \A e \in endpoints : Finding("surface", e) \in findings
  BY <1>2 DEF OrderInv, SummaryInv
<1>3. ASSUME process = "exited", Cli, Reporting("main") # Reporting("handler"), faults = 0
      PROVE  /\ file["json"] = file["md"] /\ file["json"].state = "whole"
             /\ IF heard = <<>> THEN file["json"].text = findings
                ELSE heard[1] \subseteq file["json"].text
  <2>1. PICK w \in Writer : stage[w] = "over"
    BY <1>3 DEF StageInv
  <2>2. Reporting(w) /\ Alone(w)
    BY <1>3, <2>1 DEF Reporting, Alone, Writer
  <2>3. file["json"] = Whole(w) /\ file["md"] = Whole(w)
    BY <1>3, <2>1, <2>2 DEF FilesInv
  <2>4. IF heard = <<>> THEN snap[w] = findings ELSE heard[1] \subseteq snap[w]
    <3>1. CASE w = "main"
      BY <1>3, <2>2, <3>1 DEF SummaryInv
    <3>2. CASE w = "handler"
      BY <1>3, <2>1, <2>2, <3>2 DEF SummaryInv, StageInv
    <3> QED
      BY <3>1, <3>2 DEF Writer
  <2> QED
    BY <2>3, <2>4 DEF Whole
<1>4. ASSUME process = "exited", scan.front = "mcp"
      PROVE  \A f \in findings \ answer : scan.severe /\ f.about \in InfoTopics
  BY <1>4 DEF SummaryInv, Cli
<1> QED
  BY <1>1, <1>2, <1>3, <1>4 DEF ReportIsComplete, Cli

\* The pipeline: each module of the plan has, has had or will have its turn, the stages
\* of the two writers and what a writer alone has written, and the line of the limiter.
\* (main.go:362-506, report.go:14-41, core.go:542-597)
THEOREM PipelineInvariance == Spec => [](ReportInv /\ LineInv)
<1>1. Init => ReportInv /\ LineInv
  BY ReportInit, LineInit
<1>2. ReportInv /\ LineInv /\ [Next]_vars => (ReportInv /\ LineInv)'
  BY ReportNext, LineNext
<1> QED
  BY <1>1, <1>2, PTL DEF Spec

\* A scan, interrupted or not, whatever panics, leaves one whole report with all that
\* it has found, every module of its plan has had its turn in order, and Stop has found
\* nobody in the line of the limiter. (main.go:362-506, report.go:14-41)
THEOREM ReportLeft == Spec => []ReportIsComplete
<1>1. ReportInv /\ LineInv => ReportIsComplete
  BY ReportFollows
<1> QED
  BY <1>1, PipelineInvariance, PTL

--------------------------------------------------------------------------------
\* The sweeps of the portscan module

LEMMA SelectedPorts ==
  ASSUME NEW spec \in PortSpecs
  PROVE  SelectPorts(spec) \in Seq(Port)
<1> USE PortAssumption DEF PortAssumption, Port
<1>1. spec.kind \in {"top100", "full", "range"} /\ spec.from \in Int /\ spec.to \in Int
  OBVIOUS
<1>2. ASSUME NEW a \in Port, NEW b \in Port
      PROVE  PortsFrom(a, b) \in Seq(Port)
  BY DEF PortsFrom
<1>3. CASE spec.kind = "full"
  BY <1>3, SMTT(30) DEF SelectPorts, PortsFrom
<1>4. CASE spec.kind = "top100"
  BY <1>4 DEF SelectPorts
<1>5. CASE spec.kind = "range"
  <2> DEFINE a == IF spec.from < 1 THEN 1 ELSE spec.from
             b == IF spec.to > LastPort THEN LastPort ELSE spec.to
  <2>1. SelectPorts(spec) = IF b < a THEN Top ELSE PortsFrom(a, b)
    BY <1>5 DEF SelectPorts
  <2>2. ~(b < a) => a \in Port /\ b \in Port
    BY <1>1
  <2> QED
    BY <1>2, <2>1, <2>2
<1> QED
  BY <1>1, <1>3, <1>4, <1>5

LEMMA ScanInit == Init => ScanInv
<1> SUFFICES ASSUME Init PROVE ScanInv
  OBVIOUS
<1> USE DEF Init, PortInit, PipelineInit
<1>1. PortInv
  BY DEF PortInv, NoDials
<1>2. SweepInv
  BY DEF SweepInv, NoSweep
<1>3. ReportedInv
  BY DEF ReportedInv, Reported
<1> QED
  BY <1>1, <1>2, <1>3 DEF ScanInv

\* A step of another part: at most the context ends, and the findings are not of portscan.
LEMMA ScanKept ==
  ASSUME ScanInv, UNCHANGED portVars, cancelled => cancelled',
         \A about : Finding("portscan", about) \in findings' => Finding("portscan", about) \in findings
  PROVE  ScanInv'
<1> USE DEF ScanInv, portVars
<1>1. PortInv'
  BY DEF PortInv
<1>2. \A ip, p : Heard(ip, p) => Heard(ip, p)'
  BY DEF Heard
<1>3. SweepInv'
  BY <1>2 DEF SweepInv, NoSweep, IP
<1>4. ReportedInv'
  BY <1>2 DEF ReportedInv, Reported
<1> QED
  BY <1>1, <1>3, <1>4


LEMMA ScanAtStart ==
  ASSUME ScanInv, StartPortScan
  PROVE  ScanInv'
<1> USE DEF ScanInv, StartPortScan, contextVars
<1>1. portscan = "idle" /\ NoSweep /\ todo = <<>> /\ \A ip \in DOMAIN IsIPv4 : ~Reported(ip)
  BY DEF ReportedInv, SweepInv
<1>2. ports' \in Seq(Port)
  BY SelectedPorts
<1>3. PortInv'
  <2>1. 0 \in 0..Len(ports')
    BY <1>2
  <2> QED
    BY <1>1, <1>2, <2>1 DEF PortInv, NoSweep
<1>4. SweepInv'
  <2>1. NoSweep'
    BY <1>1 DEF NoSweep
  <2>2. \A p \in Port : dial'[p] = "none"
    BY <2>1 DEF NoSweep, NoDials
  <2>3. 1..handed' = {} /\ open' = {}
    BY <2>1 DEF NoSweep
  <2> QED
    BY <2>1, <2>2, <2>3 DEF SweepInv
<1>5. ReportedInv'
  BY <1>1 DEF ReportedInv, Reported
<1> QED
  BY <1>3, <1>4, <1>5

LEMMA ScanAtSpawn ==
  ASSUME ScanInv, SpawnDial
  PROVE  ScanInv'
<1> USE DEF ScanInv, SpawnDial, contextVars
<1> DEFINE q == ports[handed + 1]
<1>1. q \in Port /\ handed \in Nat /\ handed' = handed + 1 /\ handed + 1 \in 0..Len(ports)
      /\ ports' = ports
  BY DEF PortInv
<1>2. dial' = [dial EXCEPT ![q] = "dialing"]
  BY DEF Move
<1> HIDE DEF q
<1>3. PortInv'
  BY <1>1, <1>2 DEF PortInv
<1>4. \A ip, p : Heard(ip, p)' = Heard(ip, p)
  BY DEF Heard
<1>5. SweepInv'
  <2>1. IP' = IP /\ open' = open
    BY DEF IP
  <2>2. \A i \in 1..handed : ports[i] \in Port /\ dial[ports[i]] # "none"
    BY DEF PortInv, SweepInv
  <2>3. \A i \in 1..handed' : dial'[ports[i]] # "none"
    <3>1. \A i \in 1..handed' : i \in 1..handed \/ i = handed + 1
      BY <1>1
    <3> QED
      BY <1>1, <1>2, <2>2, <3>1 DEF PortInv, q
  <2>4. \A p \in Port : dial'[p] = dial[p] \/ dial'[p] = "dialing"
    BY <1>2 DEF PortInv
  <2> QED
    BY <1>1, <1>4, <2>1, <2>3, <2>4 DEF SweepInv
<1>6. ReportedInv'
  BY <1>4 DEF ReportedInv, Reported
<1> QED
  BY <1>3, <1>5, <1>6

LEMMA ScanAtDial ==
  ASSUME ScanInv, NEW q \in Port, Dial(q)
  PROVE  ScanInv'
<1> USE DEF ScanInv, Dial, contextVars
<1>1. /\ UNCHANGED <<ports, todo, handed, open, reported, crashed, portscan, findings, cancelled>>
      /\ dial[q] \in {"dialing", "again"}
      /\ DOMAIN dial = Port /\ IP' = IP
  BY DEF PortInv, IP
<1>2. PICK s \in {"again", "open", "over"} :
        /\ dial' = [dial EXCEPT ![q] = s]
        /\ s = "again" => <<IP, q, "dialing">> \in drops'
        /\ s = "open" => q \in Listening[IP]
        /\ s = "over" => Heard(IP, q)'
  <2>1. CASE cancelled /\ Move(q, "over") /\ UNCHANGED drops
    BY <1>1, <2>1 DEF Move, Heard
  <2>2. CASE Move(q, IF q \in Listening[IP] THEN "open" ELSE "over") /\ UNCHANGED drops
    <3>1. CASE q \in Listening[IP]
      BY <2>2, <3>1 DEF Move
    <3>2. CASE q \notin Listening[IP]
      BY <1>1, <2>2, <3>2 DEF Move, Heard
    <3> QED
      BY <3>1, <3>2
  <2>3. CASE drops' = drops \cup {<<IP, q, dial[q]>>} /\ Move(q, AfterTimeout(q))
    <3>1. CASE dial[q] = "dialing"
      BY <2>3, <3>1 DEF Move, AfterTimeout
    <3>2. CASE dial[q] = "again"
      <4>1. <<IP, q, "dialing">> \in drops \/ cancelled
        BY <3>2, <1>1 DEF SweepInv, NoSweep, NoDials
      <4>2. dial' = [dial EXCEPT ![q] = "over"] /\ <<IP, q, "again">> \in drops'
        BY <2>3, <3>2 DEF Move, AfterTimeout
      <4> QED
        BY <1>1, <2>3, <4>1, <4>2 DEF Heard
    <3> QED
      BY <1>1, <3>1, <3>2
  <2> QED
    BY <2>1, <2>2, <2>3
<1>3. drops \subseteq drops'
  OBVIOUS
<1>4. \A ip, p : Heard(ip, p) => Heard(ip, p)'
  BY <1>1, <1>3 DEF Heard
<1>5. PortInv'
  BY <1>1, <1>2 DEF PortInv
<1>6. SweepInv'
  <2>1. todo # <<>>
    BY <1>1 DEF SweepInv, NoSweep, NoDials
  <2>2. IP' = IP
    BY <1>1 DEF IP
  <2>3. \A p \in Port : dial'[p] = IF p = q THEN s ELSE dial[p]
    BY <1>1, <1>2
  <2>4. \A i \in 1..handed : dial'[ports[i]] # "none"
    BY <1>1, <1>2, <2>1, <2>3 DEF SweepInv, PortInv
  <2>5. \A p \in Port :
          /\ dial'[p] = "again" => <<IP, p, "dialing">> \in drops' \/ cancelled
          /\ dial'[p] = "open" => p \in Listening[IP]
          /\ dial'[p] = "over" => p \in open \/ Heard(IP, p)'
    <3> SUFFICES ASSUME NEW p \in Port
                 PROVE  /\ dial'[p] = "again" => <<IP, p, "dialing">> \in drops' \/ cancelled
                        /\ dial'[p] = "open" => p \in Listening[IP]
                        /\ dial'[p] = "over" => p \in open \/ Heard(IP, p)'
      OBVIOUS
    <3>1. CASE p = q
      BY <1>2, <2>3, <3>1
    <3>2. CASE p # q
      <4>1. /\ dial[p] = "again" => <<IP, p, "dialing">> \in drops \/ cancelled
            /\ dial[p] = "open" => p \in Listening[IP]
            /\ dial[p] = "over" => p \in open \/ Heard(IP, p)
        BY <2>1 DEF SweepInv
      <4>2. Heard(IP, p) => Heard(IP, p)'
        BY <1>4, <2>2
      <4> QED
        BY <1>3, <2>3, <3>2, <4>1, <4>2
    <3> QED
      BY <3>1, <3>2
  <2> QED
    BY <1>1, <2>1, <2>2, <2>4, <2>5 DEF SweepInv
<1>7. ReportedInv'
  <2>1. todo # <<>>
    BY <1>1 DEF SweepInv, NoSweep, NoDials
  <2> QED
    BY <1>1, <1>4, <2>1 DEF ReportedInv, Reported
<1> QED
  BY <1>5, <1>6, <1>7

LEMMA ScanAtBanner ==
  ASSUME ScanInv, NEW q \in Port, ReadBanner(q)
  PROVE  ScanInv'
<1> USE DEF ScanInv, ReadBanner, contextVars
<1>1. /\ UNCHANGED <<ports, todo, handed, reported, drops, portscan, findings, cancelled>>
      /\ dial[q] = "open" /\ DOMAIN dial = Port
      /\ dial' = [dial EXCEPT ![q] = "over"]
  BY DEF PortInv, Move
<1>2. todo # <<>> /\ q \in Listening[IP] /\ IP' = IP
  BY <1>1 DEF SweepInv, NoSweep, NoDials, IP
<1>3. /\ open \subseteq open' /\ crashed \subseteq crashed' /\ open' \subseteq open \cup {q}
      /\ q \in open' \/ <<IP, q>> \in crashed'
  OBVIOUS
<1>4. \A ip, p : Heard(ip, p) => Heard(ip, p)'
  BY <1>1, <1>3 DEF Heard
<1>5. PortInv'
  BY <1>1 DEF PortInv
<1>6. SweepInv'
  <2>1. \A p \in Port : dial'[p] = IF p = q THEN "over" ELSE dial[p]
    BY <1>1
  <2>2. \A i \in 1..handed : dial'[ports[i]] # "none"
    BY <1>1, <1>2, <2>1 DEF SweepInv, PortInv
  <2>3. q \in open' \/ Heard(IP, q)'
    BY <1>2, <1>3 DEF Heard
  <2>4. \A p \in Port :
          /\ dial'[p] = "again" => <<IP, p, "dialing">> \in drops \/ cancelled
          /\ dial'[p] = "open" => p \in Listening[IP]
          /\ dial'[p] = "over" => p \in open' \/ Heard(IP, p)'
    BY <1>2, <1>3, <1>4, <2>1, <2>3 DEF SweepInv
  <2>5. open' \subseteq Listening[IP]
    BY <1>2, <1>3 DEF SweepInv
  <2> QED
    BY <1>1, <1>2, <2>2, <2>4, <2>5 DEF SweepInv
<1>7. ReportedInv'
  BY <1>1, <1>2, <1>4 DEF ReportedInv, Reported
<1> QED
  BY <1>5, <1>6, <1>7

LEMMA ScanAtJoin ==
  ASSUME ScanInv, JoinSweep
  PROVE  ScanInv'
<1> USE DEF ScanInv, JoinSweep, contextVars
<1>1. \A ip, p : Heard(ip, p)' = Heard(ip, p)
  BY DEF Heard
<1>2. \A p \in ToSet(ports) : p \in Port /\ (p \in open \/ Heard(IP, p))
  <2> SUFFICES ASSUME NEW i \in DOMAIN ports
               PROVE  ports[i] \in Port /\ (ports[i] \in open \/ Heard(IP, ports[i]))
    BY DEF ToSet
  <2>1. ports[i] \in Port /\ i \in 1..handed
    BY DEF PortInv
  <2>2. dial[ports[i]] # "none"
    BY <2>1 DEF SweepInv
  <2>3. dial[ports[i]] = "over"
    BY <2>1, <2>2 DEF Busy, PortInv
  <2> QED
    BY <2>1, <2>3 DEF SweepInv
<1>3. PortInv'
  <2>1. ports' = ports /\ 0 \in 0..Len(ports)
    BY DEF PortInv
  <2>2. NoDials \in [Port -> {"none", "dialing", "again", "open", "over"}]
    BY DEF NoDials
  <2>3. DOMAIN reported' = DOMAIN reported
    OBVIOUS
  <2> QED
    BY <2>1, <2>2, <2>3 DEF PortInv
<1>4. SweepInv'
  <2>1. handed' = 0 /\ open' = {} /\ dial' = NoDials /\ NoSweep'
    BY DEF NoSweep, NoDials
  <2>2. \A p \in Port : dial'[p] = "none"
    BY <2>1 DEF NoDials
  <2>3. 1..handed' = {}
    BY <2>1
  <2> QED
    BY <2>1, <2>2, <2>3 DEF SweepInv
<1>5. ReportedInv'
  <2>1. portscan' # "idle"
    OBVIOUS
  <2>2. ASSUME NEW ip \in DOMAIN IsIPv4, Reported(ip)'
        PROVE  /\ reported'[ip] \subseteq Listening[ip]
               /\ \A p \in (Listening[ip] \cap ToSet(ports)) \ reported'[ip] : Heard(ip, p)
    <3>1. CASE ip = IP
      <4>1. reported'[ip] = open
        BY <3>1 DEF PortInv
      <4> QED
        BY <1>2, <3>1, <4>1 DEF SweepInv
    <3>2. CASE ip # IP
      <4>1. ip # "CDN" /\ ip # "Dangerous"
        BY PortAssumption DEF PortAssumption
      <4>2. Reported(ip)
        BY <2>2, <3>2, <4>1 DEF Reported, Add, Finding
      <4>3. reported'[ip] = reported[ip]
        BY <3>2 DEF PortInv
      <4> QED
        BY <4>2, <4>3 DEF ReportedInv
    <3> QED
      BY <3>1, <3>2
  <2> QED
    BY <1>1, <2>1, <2>2 DEF ReportedInv
<1> QED
  BY <1>3, <1>4, <1>5

LEMMA ScanNext ==
  ASSUME ScanInv, [Next]_vars
  PROVE  ScanInv'
<1>1. CASE DnsTurn
  BY <1>1, DnsAdds, ScanKept DEF DnsTurn, Adds
<1>2. CASE PortTurn
  BY <1>2, ScanAtStart, ScanAtSpawn, ScanAtDial, ScanAtBanner, ScanAtJoin DEF PortTurn, PortStep
<1>3. CASE CrawlTurn
  BY <1>3, CrawlAdds, ScanKept DEF CrawlTurn, Adds
<1>4. CASE OtherTurn
  BY <1>4, ScanKept DEF OtherTurn, Adds
<1>5. CASE EndTurn
  BY <1>5, ScanKept DEF EndTurn, contextVars
<1>6. CASE MainTurn
  <2>1. cancelled => cancelled'
    BY <1>6 DEF MainTurn, PipelineStep, StartModule, Surface, GenerateReport, TakeSnapshot,
       MainReturns, ExecuteScanReturns, HandlerExits, Interrupt, Cancel, contextVars
  <2>2. \A about : Finding("portscan", about) \in findings' => Finding("portscan", about) \in findings
    <3>1. CASE Surface
      BY <3>1 DEF Surface, Add, Finding
    <3>2. CASE ~Surface
      BY <1>6, <3>2 DEF MainTurn, PipelineStep, StartModule, GenerateReport, TakeSnapshot,
         MainReturns, ExecuteScanReturns, HandlerExits, Interrupt, contextVars
    <3> QED
      BY <3>1, <3>2
  <2> QED
    BY <1>6, <2>1, <2>2, ScanKept DEF MainTurn
<1>7. CASE LimiterTurn \/ UNCHANGED vars
  BY <1>7, ScanKept DEF LimiterTurn, vars, engineVars, contextVars
<1> QED
  BY <1>1, <1>2, <1>3, <1>4, <1>5, <1>6, <1>7, Turns

\* A port that listens and is not listed has dropped both dials or lost its worker to a
\* panic, for any addresses, ports and widths, and nothing is listed that does not
\* listen. (portscan.go:165-240)
THEOREM PortsFound == Spec => []OpenPortsAreFound
<1>1. Init => ScanInv
  BY ScanInit
<1>2. ScanInv /\ [Next]_vars => ScanInv'
  BY ScanNext
<1>3. ScanInv => OpenPortsAreFound
  BY DEF ScanInv, ReportedInv, OpenPortsAreFound, Reported, Heard
<1> QED
  BY <1>1, <1>2, <1>3, PTL DEF Spec


--------------------------------------------------------------------------------
\* The links a worker queues: induction over a fold

\* A nonempty set of naturals has a least element: this is what induction rests on.
LEMMA LeastNatural ==
  ASSUME NEW T \in SUBSET Nat, T # {}
  PROVE  \E n \in T : \A m \in T : n <= m
<1> DEFINE R == OpToRel(<, Nat)
<1>1. IsWellFoundedOn(R, Nat)
  BY NatLessThanWellFounded
<1>2. \A x, y \in Nat : y < x => <<y, x>> \in R
  BY DEF OpToRel
<1> HIDE DEF R
<1>3. PICK x \in T : \A y \in T : ~(<<y, x>> \in R)
  BY <1>1, WFMin
<1>4. ASSUME NEW y \in T
      PROVE  x <= y
  <2>1. ~(y < x)
    BY <1>2, <1>3
  <2> QED
    BY <2>1
<1> QED
  BY <1>4

\* The fold behind Enqueue, one link at a time.
Pushed(out, l, seen) == IF l \in seen THEN out ELSE Append(out, l)
Folding(g, D, urls, links, seen) ==
  g = [s \in SUBSET D |->
         IF s = {} THEN urls ELSE Pushed(g[s \ {Max(s)}], links[Max(s)], seen)]

LEMMA FoldingExists ==
  ASSUME NEW n \in Nat, NEW urls, NEW links, NEW seen
  PROVE  \E g : Folding(g, 1..n, urls, links, seen)
<1> DEFINE Bad == {m \in Nat : ~\E g : Folding(g, 1..m, urls, links, seen)}
<1>1. SUFFICES Bad = {}
  OBVIOUS
<1>2. SUFFICES ASSUME Bad # {} PROVE FALSE
  OBVIOUS
<1>3. PICK m \in Bad : \A k \in Bad : m <= k
  BY <1>2, LeastNatural
<1>4. m # 0
  <2> DEFINE g == [s \in SUBSET (1..0) |-> urls]
  <2>1. \A s \in SUBSET (1..0) : s = {}
    OBVIOUS
  <2>2. Folding(g, 1..0, urls, links, seen)
    BY <2>1 DEF Folding
  <2> HIDE DEF g
  <2> QED
    BY <2>2
<1>5. m - 1 \in Nat /\ m - 1 \notin Bad
  BY <1>3, <1>4
<1>6. PICK g : Folding(g, 1..(m - 1), urls, links, seen)
  BY <1>5
<1> DEFINE h == [s \in SUBSET (1..m) |->
                   IF m \in s THEN Pushed(g[s \ {m}], links[m], seen) ELSE g[s]]
<1>7. Folding(h, 1..m, urls, links, seen)
  <2> DEFINE W == [s \in SUBSET (1..m) |->
                     IF s = {} THEN urls ELSE Pushed(h[s \ {Max(s)}], links[Max(s)], seen)]
  <2>1. ASSUME NEW s \in SUBSET (1..m)
        PROVE  h[s] = W[s]
    <3>1. CASE m \in s
      <4>1. Max(s) = m
        <5>1. \A y \in s : m >= y
          BY <1>3
        <5>2. \A x \in s : (\A y \in s : x >= y) => x = m
          BY <1>3, <3>1
        <5> QED
          BY <3>1, <5>1, <5>2 DEF Max
      <4>2. s \ {m} \in SUBSET (1..m) /\ m \notin s \ {m}
        OBVIOUS
      <4>3. h[s \ {m}] = g[s \ {m}]
        BY <4>2
      <4> QED
        BY <3>1, <4>1, <4>3
    <3>2. CASE m \notin s
      <4>1. s \in SUBSET (1..(m - 1)) /\ h[s] = g[s]
        BY <3>2
      <4>2. g[s] = IF s = {} THEN urls ELSE Pushed(g[s \ {Max(s)}], links[Max(s)], seen)
        BY <1>6, <4>1 DEF Folding
      <4>3. s \ {Max(s)} \in SUBSET (1..m) /\ m \notin s \ {Max(s)}
        BY <3>2
      <4>4. h[s \ {Max(s)}] = g[s \ {Max(s)}]
        BY <4>3
      <4> QED
        BY <4>1, <4>2, <4>4
    <3> QED
      BY <3>1, <3>2
  <2>2. h = W
    BY <2>1
  <2> QED
    BY <2>2 DEF Folding
<1> QED
  BY <1>3, <1>7

LEMMA EnqueueFolds ==
  ASSUME NEW U, NEW urls \in Seq(U), NEW links \in Seq(U), NEW seen
  PROVE  \E g : /\ Folding(g, DOMAIN links, urls, links, seen)
                /\ Enqueue(urls, links, seen) = g[DOMAIN links]
<1>1. \E g : Folding(g, DOMAIN links, urls, links, seen)
  <2>1. DOMAIN links = 1..Len(links) /\ Len(links) \in Nat
    OBVIOUS
  <2> QED
    BY <2>1, FoldingExists
<1> DEFINE it == CHOOSE g : Folding(g, DOMAIN links, urls, links, seen)
<1>2. Folding(it, DOMAIN links, urls, links, seen)
  BY <1>1
<1>3. Enqueue(urls, links, seen) = it[DOMAIN links]
  BY DEF Enqueue, FoldLeft, MapThenFoldSet, Folding, Pushed
<1> QED
  BY <1>2, <1>3

LEMMA FoldingStep ==
  ASSUME NEW n \in Nat, NEW m \in 1..n, NEW urls, NEW links, NEW seen, NEW g,
         Folding(g, 1..n, urls, links, seen)
  PROVE  g[1..m] = Pushed(g[1..(m - 1)], links[m], seen)
<1>1. (1..m) \in SUBSET (1..n) /\ 1..m # {} /\ (1..m) \ {m} = 1..(m - 1)
  OBVIOUS
<1>2. Max(1..m) = m
  <2>1. \A y \in 1..m : m >= y
    OBVIOUS
  <2>2. \A x \in 1..m : (\A y \in 1..m : x >= y) => x = m
    OBVIOUS
  <2> QED
    BY <2>1, <2>2 DEF Max
<1> QED
  BY <1>1, <1>2 DEF Folding

LEMMA EnqueueAddsLinks ==
  ASSUME NEW U, NEW urls \in Seq(U), NEW links \in Seq(U), NEW seen
  PROVE  /\ Enqueue(urls, links, seen) \in Seq(U)
         /\ ToSet(Enqueue(urls, links, seen)) = ToSet(urls) \cup (ToSet(links) \ seen)
<1> DEFINE n == Len(links)
           Linked(m) == {links[i] : i \in 1..m} \ seen
<1>1. n \in Nat /\ DOMAIN links = 1..n /\ \A i \in 1..n : links[i] \in U
  OBVIOUS
<1>2. PICK g : /\ Folding(g, 1..n, urls, links, seen)
               /\ Enqueue(urls, links, seen) = g[1..n]
  BY <1>1, EnqueueFolds
<1> DEFINE Good(m) == g[1..m] \in Seq(U) /\ ToSet(g[1..m]) = ToSet(urls) \cup Linked(m)
           Bad == {m \in 0..n : ~Good(m)}
<1> HIDE DEF n
<1>3. Good(0)
  <2>1. 1..0 = {} /\ {} \in SUBSET (1..n)
    OBVIOUS
  <2>2. g[1..0] = urls
    BY <1>2, <2>1 DEF Folding
  <2> QED
    BY <2>1, <2>2
<1>4. ASSUME NEW m \in 1..n, Good(m - 1)
      PROVE  Good(m)
  <2>1. g[1..m] = Pushed(g[1..(m - 1)], links[m], seen)
    BY <1>1, <1>2, FoldingStep
  <2>2. Linked(m) = Linked(m - 1) \cup ({links[m]} \ seen)
    <3>1. \A i \in 1..m : i \in 1..(m - 1) \/ i = m
      BY <1>1
    <3>2. \A i \in 1..(m - 1) : i \in 1..m
      BY <1>1
    <3> QED
      BY <1>1, <3>1, <3>2
  <2>3. CASE links[m] \in seen
    BY <1>4, <2>1, <2>2, <2>3 DEF Pushed
  <2>4. CASE links[m] \notin seen
    <3> DEFINE old == g[1..(m - 1)]
    <3>1. g[1..m] = Append(old, links[m]) /\ old \in Seq(U) /\ links[m] \in U
      BY <1>1, <1>4, <2>1, <2>4 DEF Pushed
    <3> HIDE DEF old
    <3>2. /\ Append(old, links[m]) \in Seq(U) /\ DOMAIN old = 1..Len(old) /\ Len(old) \in Nat
          /\ DOMAIN Append(old, links[m]) = 1..(Len(old) + 1)
          /\ Append(old, links[m])[Len(old) + 1] = links[m]
          /\ \A i \in 1..Len(old) : Append(old, links[m])[i] = old[i]
      BY <3>1
    <3>3. ToSet(g[1..m]) = ToSet(old) \cup {links[m]}
      <4>1. \A i \in 1..(Len(old) + 1) : i \in 1..Len(old) \/ i = Len(old) + 1
        BY <3>2
      <4>2. \A i \in 1..Len(old) : i \in 1..(Len(old) + 1)
        BY <3>2
      <4>3. Len(old) + 1 \in 1..(Len(old) + 1)
        BY <3>2
      <4> DEFINE new == Append(old, links[m])
      <4>4. g[1..m] = new
        BY <3>1
      <4> HIDE DEF new
      <4>5. ToSet(new) = ToSet(old) \cup {links[m]}
        BY <3>2, <4>1, <4>2, <4>3 DEF ToSet, new
      <4> QED
        BY <4>4, <4>5
    <3> QED
      BY <1>4, <2>2, <2>4, <3>1, <3>2, <3>3 DEF old
  <2> QED
    BY <2>3, <2>4
<1> HIDE DEF Good
<1>5. Bad = {}
  <2> SUFFICES ASSUME Bad # {} PROVE FALSE
    OBVIOUS
  <2>1. PICK m \in Bad : \A k \in Bad : m <= k
    <3>1. Bad \in SUBSET Nat
      BY <1>1
    <3> QED
      BY <3>1, LeastNatural
  <2>2. m \in 1..n /\ m - 1 \in 0..n /\ m - 1 \notin Bad
    BY <1>1, <1>3, <2>1
  <2> QED
    BY <1>4, <2>1, <2>2
<1>6. Good(n)
  BY <1>1, <1>5
<1>7. Linked(n) = ToSet(links) \ seen
  BY <1>1 DEF ToSet
<1> QED
  BY <1>2, <1>6, <1>7 DEF Good


--------------------------------------------------------------------------------
\* The crawl

LEMMA WidthIsNat ==
  ASSUME NEW s \in Scans
  PROVE  Width(s) \in Nat
<1>1. s.front \in {"cli", "mcp"} /\ s.threads \in Int
  BY PipelineAssumption DEF PipelineAssumption
<1>2. DefaultWidth \in Nat /\ LastThreads \in Nat
  BY PipelineAssumption DEF PipelineAssumption
<1>3. CASE s.front = "cli"
  BY <1>1, <1>2, <1>3 DEF Width
<1>4. CASE s.front = "mcp"
  BY <1>1, <1>2, <1>4 DEF Width
<1> QED
  BY <1>1, <1>3, <1>4

LEMMA VisitsAreNat ==
  ASSUME NEW m \in Nat
  PROVE  m * AttemptsPerPage + ExtraAttempts \in Nat
BY CrawlerAssumption DEF CrawlerAssumption

LEMMA SiteFacts ==
  /\ Target \in URL /\ \A u \in URL : Clean[u] \in URL /\ Clean[Clean[u]] = Clean[u]
  /\ \A u \in URL : Site[u].links \in Seq(URL) /\ ToSet(Site[u].links) \subseteq URL
<1>1. Target \in URL /\ \A u \in URL : Clean[u] \in URL /\ Clean[Clean[u]] = Clean[u]
  BY CrawlerAssumption DEF CrawlerAssumption, URL
<1>2. \A u \in URL : Site[u].links \in Seq(URL)
  BY CrawlerAssumption DEF CrawlerAssumption, URL
<1> QED
  BY <1>1, <1>2 DEF ToSet

LEMMA CrawlInitHolds == Init => CrawlInv /\ CompleteInv
<1> SUFFICES ASSUME Init PROVE CrawlInv /\ CompleteInv
  OBVIOUS
<1>1. /\ maxPages = DefaultPages /\ queue = <<>> /\ batch = <<>> /\ visited = {} /\ pages = {}
      /\ crawl = "idle" /\ fetches = [i \in Slot |-> NoFetch]
  BY DEF Init, CrawlInit
<1>2. width \in Nat
  BY WidthIsNat DEF Init, PipelineInit
<1>3. \A i \in Slot : fetches[i] = NoFetch /\ fetches[i].step = "none"
  BY <1>1 DEF NoFetch
<1>4. maxPages \in Nat /\ MaxVisits \in Nat
  BY <1>1, VisitsAreNat, CrawlerAssumption DEF CrawlerAssumption, MaxVisits
<1>5. CrawlTypeOK
  BY <1>1, <1>2, <1>4, SiteFacts, FS_EmptySet DEF CrawlTypeOK, NoFetch, Step
<1>6. LimitInv
  BY <1>1, <1>3, <1>4, FS_EmptySet DEF LimitInv
<1>7. ClaimInv
  BY <1>1, <1>3 DEF ClaimInv, Claims
<1>8. \A u \in URL : ~Queued(u)
  BY <1>1, <1>3 DEF Queued, ToSet
<1> QED
  BY <1>1, <1>5, <1>6, <1>7, <1>8 DEF CrawlInv, SoundInv, CompleteInv

LEMMA CrawlKept ==
  ASSUME UNCHANGED <<crawlVars, width>>
  PROVE  /\ CrawlInv => CrawlInv'
         /\ CompleteInv => CompleteInv'
<1> USE DEF crawlVars
<1>1. Slot' = Slot /\ MaxVisits' = MaxVisits
  BY DEF Slot, MaxVisits
<1>2. \A u : Queued(u)' = Queued(u)
  BY <1>1 DEF Queued
<1>3. Fetching' = Fetching /\ \A i : Claims(i)' = Claims(i) /\ Key(i)' = Key(i)
  BY <1>1 DEF Fetching, Claims, Key
<1>4. CrawlTypeOK => CrawlTypeOK'
  BY <1>1 DEF CrawlTypeOK
<1>5. LimitInv => LimitInv'
  BY <1>1 DEF LimitInv
<1>6. ClaimInv => ClaimInv'
  BY <1>1, <1>3 DEF ClaimInv
<1>7. SoundInv => SoundInv'
  BY <1>2 DEF SoundInv
<1>8. CompleteInv => CompleteInv'
  BY <1>1, <1>2, <1>3 DEF CompleteInv, Met
<1> QED
  BY <1>4, <1>5, <1>6, <1>7, <1>8 DEF CrawlInv

LEMMA CrawlAtStart ==
  ASSUME CrawlInv, StartCrawl
  PROVE  CrawlInv' /\ (CompleteInv => CompleteInv')
<1> USE DEF CrawlInv, StartCrawl, contextVars
<1>1. /\ crawl = "idle" /\ crawl' = "draining" /\ queue' = <<Target>> /\ batch = <<>>
      /\ visited = {} /\ pages = {} /\ (\A i \in Slot : fetches[i].step = "none")
      /\ UNCHANGED <<batch, fetches, visited, pages, refused, width>>
  BY DEF LimitInv
<1>2. maxPages' \in Nat /\ MaxVisits' \in Nat
  <2>1. maxPages' \in Nat
    BY CrawlerAssumption DEF CrawlerAssumption
  <2> QED
    BY <2>1, VisitsAreNat DEF MaxVisits
<1>3. Slot' = Slot
  BY <1>1 DEF Slot
<1>4. CrawlTypeOK'
  BY <1>1, <1>2, <1>3, SiteFacts DEF CrawlTypeOK
<1>5. LimitInv'
  BY <1>1, <1>2, FS_EmptySet DEF LimitInv
<1>6. ClaimInv'
  BY <1>1, <1>3 DEF ClaimInv, Claims
<1>7. \A u \in URL : Queued(u)' <=> u = Target
  <2>1. ToSet(queue') = {Target} /\ ToSet(batch') = {}
    BY <1>1 DEF ToSet
  <2> QED
    BY <1>1, <1>3, <2>1 DEF Queued
<1>8. SoundInv'
  BY <1>1, <1>7 DEF SoundInv, HoldsTheSite, Followed
<1>9. CompleteInv'
  BY <1>1, <1>7, SiteFacts DEF CompleteInv, Met
<1> QED
  BY <1>4, <1>5, <1>6, <1>8, <1>9

LEMMA CrawlAtDrain ==
  ASSUME CrawlInv, Drain
  PROVE  CrawlInv' /\ (CompleteInv => CompleteInv')
<1> USE DEF CrawlInv, Drain, contextVars
<1>1. /\ crawl = "draining" /\ crawl' = "batch" /\ batch = <<>> /\ batch' = queue /\ queue' = <<>>
      /\ UNCHANGED <<maxPages, fetches, visited, pages, refused, width>>
  BY DEF LimitInv
<1>2. Slot' = Slot /\ MaxVisits' = MaxVisits
  BY <1>1 DEF Slot, MaxVisits
<1>3. CrawlTypeOK'
  BY <1>1, <1>2 DEF CrawlTypeOK
<1>4. LimitInv'
  BY <1>1, <1>2 DEF LimitInv
<1>5. ClaimInv'
  <2>1. \A i : (Claims(i)' <=> Claims(i)) /\ Key(i)' = Key(i)
    BY <1>1 DEF Claims, Key
  <2> QED
    BY <1>1, <1>2, <2>1 DEF ClaimInv
<1>6. \A u : Queued(u)' <=> Queued(u)
  <2>1. ToSet(queue') = {} /\ ToSet(batch') = ToSet(queue) /\ ToSet(batch) = {}
    BY <1>1 DEF ToSet
  <2> QED
    BY <1>1, <1>2, <2>1 DEF Queued
<1>7. SoundInv'
  BY <1>1, <1>6 DEF SoundInv
<1>8. CompleteInv => CompleteInv'
  BY <1>1, <1>2, <1>6 DEF CompleteInv, Met, Claims, Key
<1> QED
  BY <1>3, <1>4, <1>5, <1>7, <1>8


\* There is a slot for one more worker as long as fewer than `width` are taken.
LEMMA SlotIsFree ==
  ASSUME width \in Nat, SlotFree(Fetching)
  PROVE  \E i \in Slot : i \notin Fetching
<1>1. IsFiniteSet(Slot) /\ Cardinality(Slot) = width
  BY FS_Interval DEF Slot
<1>2. Fetching # Slot
  BY <1>1 DEF SlotFree
<1> QED
  BY <1>2 DEF Fetching

LEMMA HeadAndTail ==
  ASSUME NEW U, NEW s \in Seq(U), s # <<>>
  PROVE  /\ Head(s) \in U /\ Tail(s) \in Seq(U)
         /\ ToSet(s) = {Head(s)} \cup ToSet(Tail(s))
<1> DEFINE n == Len(s)
           t == Tail(s)
<1>1. /\ n \in Nat \ {0} /\ DOMAIN s = 1..n /\ Head(s) = s[1] /\ Head(s) \in U
      /\ t \in Seq(U) /\ Len(t) = n - 1 /\ \A k \in 1..(n - 1) : t[k] = s[k + 1]
  OBVIOUS
<1>2. DOMAIN t = 1..(n - 1)
  BY <1>1
<1> HIDE DEF n, t
<1>3. \A k \in 1..n : k = 1 \/ (k - 1 \in 1..(n - 1) /\ s[k] = t[k - 1])
  BY <1>1
<1>4. \A k \in 1..(n - 1) : k + 1 \in 1..n
  BY <1>1
<1>5. 1 \in 1..n
  BY <1>1
<1>6. ToSet(s) = {s[1]} \cup ToSet(t)
  <2>1. ASSUME NEW k \in 1..n
        PROVE  s[k] \in {s[1]} \cup {t[m] : m \in 1..(n - 1)}
    BY <1>3
  <2>2. ASSUME NEW m \in 1..(n - 1)
        PROVE  t[m] \in {s[k] : k \in 1..n}
    BY <1>1, <1>4
  <2>3. s[1] \in {s[k] : k \in 1..n}
    BY <1>5
  <2> QED
    BY <1>1, <1>2, <2>1, <2>2, <2>3 DEF ToSet
<1> QED
  BY <1>1, <1>6 DEF t

LEMMA CrawlAtTake ==
  ASSUME CrawlInv, TakeNext
  PROVE  CrawlInv' /\ (CompleteInv => CompleteInv')
<1> USE DEF CrawlInv, TakeNext, contextVars
<1>1. /\ crawl = "batch" /\ crawl' = "sending" /\ batch # <<>>
      /\ UNCHANGED <<maxPages, queue, batch, fetches, visited, pages, refused, width>>
  OBVIOUS
<1>2. Slot' = Slot /\ MaxVisits' = MaxVisits
  BY <1>1 DEF Slot, MaxVisits
<1>3. CrawlTypeOK' /\ LimitInv'
  BY <1>1, <1>2 DEF CrawlTypeOK, LimitInv
<1>4. \A i : (Claims(i)' <=> Claims(i)) /\ Key(i)' = Key(i)
  BY <1>1 DEF Claims, Key
<1>5. ClaimInv'
  BY <1>1, <1>2, <1>4 DEF ClaimInv
<1>6. \A u : Queued(u)' <=> Queued(u)
  BY <1>1, <1>2 DEF Queued
<1>7. SoundInv'
  BY <1>1, <1>6 DEF SoundInv
<1>8. CompleteInv => CompleteInv'
  BY <1>1, <1>2, <1>4, <1>6 DEF CompleteInv, Met
<1> QED
  BY <1>3, <1>5, <1>7, <1>8

LEMMA CrawlAtSpawn ==
  ASSUME CrawlInv, SpawnFetch
  PROVE  CrawlInv' /\ (CompleteInv => CompleteInv')
<1> USE DEF CrawlInv, SpawnFetch, contextVars
<1> DEFINE i == CHOOSE i \in Slot : i \notin Fetching
           u == Head(batch)
           f == [url |-> u, step |-> "queued"]
<1>1. i \in Slot /\ i \notin Fetching
  BY SlotIsFree DEF CrawlTypeOK
<1>2. /\ u \in URL /\ batch' = Tail(batch) /\ batch' \in Seq(URL)
      /\ ToSet(batch) = {u} \cup ToSet(batch')
  <2>1. batch \in Seq(URL) /\ batch # <<>>
    BY DEF CrawlTypeOK, LimitInv
  <2> QED
    BY <2>1, HeadAndTail
<1>3. /\ fetches' = [fetches EXCEPT ![i] = f]
      /\ crawl = "sending" /\ crawl' = "batch"
      /\ UNCHANGED <<maxPages, queue, visited, pages, refused, width>>
  OBVIOUS
<1> HIDE DEF i, u
<1>4. Slot' = Slot /\ MaxVisits' = MaxVisits
  BY <1>3 DEF Slot, MaxVisits
<1>5. /\ DOMAIN fetches = Slot /\ fetches[i].step = "none"
      /\ \A j \in Slot : fetches'[j] = IF j = i THEN f ELSE fetches[j]
  BY <1>1, <1>3 DEF CrawlTypeOK, Fetching
<1>6. CrawlTypeOK'
  <2>1. f \in [url : URL, step : Step]
    BY <1>2 DEF Step
  <2> QED
    BY <1>1, <1>2, <1>3, <1>4, <2>1 DEF CrawlTypeOK
<1>7. LimitInv'
  BY <1>3, <1>4 DEF LimitInv
<1>8. \A j \in Slot : /\ Claims(j)' <=> Claims(j)
                      /\ Claims(j) => Key(j)' = Key(j) /\ fetches'[j] = fetches[j]
  BY <1>4, <1>5 DEF Claims, Key
<1>9. ClaimInv'
  BY <1>3, <1>4, <1>5, <1>8 DEF ClaimInv, Claims
<1>10. \A v \in URL : Queued(v)' <=> Queued(v)
  BY <1>1, <1>2, <1>3, <1>4, <1>5 DEF Queued
<1>11. SoundInv'
  BY <1>3, <1>10 DEF SoundInv
<1>12. CompleteInv => CompleteInv'
  <2> SUFFICES ASSUME CompleteInv, refused = {} PROVE CompleteInv'
    BY <1>3 DEF CompleteInv
  <2>1. \A v \in URL : Met(v)' <=> Met(v)
    BY <1>3, <1>10 DEF Met
  <2> QED
    BY <1>3, <1>4, <1>8, <2>1, SiteFacts DEF CompleteInv
<1> QED
  BY <1>6, <1>7, <1>9, <1>11, <1>12

LEMMA CrawlAtBreak ==
  ASSUME CrawlInv, BreakOff
  PROVE  CrawlInv' /\ (CompleteInv => CompleteInv')
<1> USE DEF CrawlInv, BreakOff, contextVars
<1>1. /\ batch # <<>> /\ batch' = <<>> /\ crawl = "batch"
      /\ UNCHANGED <<maxPages, queue, fetches, visited, pages, crawl, width>>
  OBVIOUS
<1>2. Slot' = Slot /\ MaxVisits' = MaxVisits
  BY <1>1 DEF Slot, MaxVisits
<1>3. CrawlTypeOK'
  BY <1>1, <1>2 DEF CrawlTypeOK
<1>4. LimitInv'
  BY <1>1, <1>2 DEF LimitInv
<1>5. ClaimInv'
  BY <1>1, <1>2 DEF ClaimInv, Claims, Key
<1>6. \A u : Queued(u)' => Queued(u)
  <2>1. ToSet(batch') = {}
    BY <1>1 DEF ToSet
  <2> QED
    BY <1>1, <1>2, <2>1 DEF Queued
<1>7. SoundInv'
  BY <1>1, <1>6 DEF SoundInv
<1>8. refused' # {}
  <2>1. batch \in Seq(URL)
    BY DEF CrawlTypeOK
  <2>2. Head(batch) \in ToSet(batch)
    BY <1>1, <2>1, HeadAndTail
  <2> QED
    BY <2>2
<1>9. CompleteInv'
  BY <1>8 DEF CompleteInv
<1> QED
  BY <1>3, <1>4, <1>5, <1>7, <1>9

LEMMA CrawlAtJoin ==
  ASSUME CrawlInv, JoinBatch
  PROVE  CrawlInv' /\ (CompleteInv => CompleteInv')
<1> USE DEF CrawlInv, JoinBatch
<1>1. /\ batch = <<>> /\ Fetching = {} /\ crawl' \in {"done", "draining"} /\ crawl = "batch"
      /\ UNCHANGED <<maxPages, queue, batch, fetches, visited, pages, width>>
      /\ refused' # {} \/ refused' = refused
  OBVIOUS
<1>2. Slot' = Slot /\ MaxVisits' = MaxVisits /\ Fetching' = Fetching
  BY <1>1 DEF Slot, MaxVisits, Fetching
<1>3. CrawlTypeOK'
  BY <1>1, <1>2 DEF CrawlTypeOK
<1>4. LimitInv'
  BY <1>1, <1>2 DEF LimitInv
<1>5. ClaimInv'
  <2>1. \A i : (Claims(i)' <=> Claims(i)) /\ Key(i)' = Key(i)
    BY <1>1 DEF Claims, Key
  <2> QED
    BY <1>1, <1>2, <2>1 DEF ClaimInv
<1>6. \A u : Queued(u)' <=> Queued(u)
  BY <1>1, <1>2 DEF Queued
<1>7. SoundInv'
  BY <1>1, <1>6 DEF SoundInv
<1>8. crawl' = "done" /\ refused' = {} => queue = <<>>
  <2> SUFFICES ASSUME queue # <<>>, crawl' = "done" PROVE refused' # {}
    OBVIOUS
  <2>1. queue \in Seq(URL)
    BY DEF CrawlTypeOK
  <2>2. Head(queue) \in ToSet(queue)
    BY <2>1, HeadAndTail
  <2> QED
    BY <2>2
<1>9. CompleteInv => CompleteInv'
  <2> SUFFICES ASSUME CompleteInv, refused = {}, refused' = {} PROVE CompleteInv'
    BY <1>1 DEF CompleteInv
  <2>1. \A v \in URL : Met(v)' <=> Met(v)
    BY <1>1, <1>6 DEF Met
  <2>2. \A j \in Slot : Claims(j)' = Claims(j) /\ Key(j)' = Key(j)
    BY <1>1 DEF Claims, Key
  <2> QED
    BY <1>1, <1>2, <1>8, <2>1, <2>2, SiteFacts DEF CompleteInv
<1> QED
  BY <1>3, <1>4, <1>5, <1>7, <1>9


LEMMA LeaveMoves ==
  ASSUME CrawlTypeOK, NEW i \in Slot, Leave(i), width' = width
  PROVE  /\ Slot' = Slot
         /\ fetches' \in [Slot -> [url : URL, step : Step]]
         /\ fetches'[i].step = "none"
         /\ \A j \in Slot \ {i} : fetches'[j] = fetches[j]
<1>1. NoFetch \in [url : URL, step : Step] /\ NoFetch.step = "none"
  BY SiteFacts DEF NoFetch, Step
<1> QED
  BY <1>1 DEF CrawlTypeOK, Leave, Slot

LEMMA AdvanceMoves ==
  ASSUME CrawlTypeOK, NEW i \in Slot, NEW s \in Step, Advances(i, s), width' = width
  PROVE  /\ Slot' = Slot
         /\ fetches' \in [Slot -> [url : URL, step : Step]]
         /\ fetches'[i].step = s /\ fetches'[i].url = fetches[i].url
         /\ \A j \in Slot \ {i} : fetches'[j] = fetches[j]
<1>1. [fetches[i] EXCEPT !.step = s] \in [url : URL, step : Step]
  BY DEF CrawlTypeOK
<1>2. fetches' = [fetches EXCEPT ![i] = [fetches[i] EXCEPT !.step = s]]
  BY DEF Advances
<1> QED
  BY <1>1, <1>2 DEF CrawlTypeOK, Slot

\* What a worker that leaves takes with it: the URL it had queued, or its claim.
LEMMA CrawlAfterLeave ==
  ASSUME CrawlInv, NEW i \in Slot, Leave(i), crawl # "idle",
         UNCHANGED <<maxPages, queue, batch, visited, pages, crawl, width>>
  PROVE  /\ CrawlInv'
         /\ \A u \in URL : Queued(u)' => Queued(u)
         /\ \A u \in URL : Queued(u) => Queued(u)' \/ u = fetches[i].url
         /\ \A j \in Slot \ {i} : Claims(j) => Claims(j)' /\ Key(j)' = Key(j)
<1> USE DEF CrawlInv
<1>1. /\ Slot' = Slot /\ fetches' \in [Slot -> [url : URL, step : Step]]
      /\ fetches'[i].step = "none" /\ \A j \in Slot \ {i} : fetches'[j] = fetches[j]
  BY LeaveMoves
<1>2. MaxVisits' = MaxVisits
  BY DEF MaxVisits
<1>3. CrawlTypeOK'
  BY <1>1 DEF CrawlTypeOK
<1>4. LimitInv'
  BY <1>1, <1>2 DEF LimitInv
<1>5. \A j \in Slot : /\ Claims(j)' => j # i /\ Claims(j) /\ Key(j)' = Key(j)
                      /\ fetches'[j].step # "none" => j # i /\ fetches'[j] = fetches[j]
  BY <1>1 DEF Claims, Key
<1>6. \A j \in Slot \ {i} : Claims(j) => Claims(j)' /\ Key(j)' = Key(j)
  BY <1>1 DEF Claims, Key
<1>7. ClaimInv'
  BY <1>1, <1>5 DEF ClaimInv, Claims, Key
<1>8. \A u \in URL : Queued(u)' => Queued(u)
  BY <1>1 DEF Queued
<1>9. \A u \in URL : Queued(u) => Queued(u)' \/ u = fetches[i].url
  BY <1>1 DEF Queued
<1>10. SoundInv'
  BY <1>8 DEF SoundInv
<1> QED
  BY <1>3, <1>4, <1>6, <1>7, <1>8, <1>9, <1>10

LEMMA CrawlAtVisit ==
  ASSUME CrawlInv, NEW i \in Slot, Visit(i)
  PROVE  CrawlInv' /\ (CompleteInv => CompleteInv')
<1> USE DEF CrawlInv, contextVars
<1> DEFINE q == fetches[i].url
           u == Clean[q]
<1>1. /\ fetches[i].step = "queued" /\ q \in URL /\ u \in URL /\ Clean[u] = u
      /\ Queued(q) /\ crawl # "idle" /\ ~Claims(i)
      /\ UNCHANGED <<maxPages, queue, batch, pages, crawl, width>>
  BY SiteFacts DEF Visit, Queued, CrawlTypeOK, LimitInv, Claims
<1>2. MaxVisits' = MaxVisits /\ MaxVisits \in Nat
  BY <1>1, VisitsAreNat DEF MaxVisits, CrawlTypeOK
<1>3. CASE Leave(i) /\ UNCHANGED visited /\ (u \in visited \/ refused' # {})
           /\ (refused' = {} => refused = {})
  <2>1. /\ CrawlInv'
        /\ \A v \in URL : Queued(v) => Queued(v)' \/ v = q
        /\ \A j \in Slot \ {i} : Claims(j) => Claims(j)' /\ Key(j)' = Key(j)
    BY <1>1, <1>3, CrawlAfterLeave
  <2>2. CompleteInv => CompleteInv'
    <3> SUFFICES ASSUME CompleteInv, refused' = {}, refused = {} PROVE CompleteInv'
      BY <1>3 DEF CompleteInv
    <3>1. \A v \in URL : Met(v) => Met(v)'
      BY <1>3, <2>1 DEF Met
    <3>2. crawl # "done"
      BY <1>1 DEF CompleteInv, Fetching
    <3>3. Slot' = Slot
      BY <1>1 DEF Slot
    <3> QED
      BY <1>1, <1>3, <2>1, <3>1, <3>2, <3>3, SiteFacts DEF CompleteInv
  <2> QED
    BY <2>1, <2>2
<1>4. CASE /\ Advances(i, "fetching") /\ visited' = visited \cup {u} /\ u \notin visited
           /\ Cardinality(visited) < MaxVisits /\ UNCHANGED refused
  <2>1. /\ Slot' = Slot /\ fetches' \in [Slot -> [url : URL, step : Step]]
        /\ fetches'[i].step = "fetching" /\ fetches'[i].url = q
        /\ \A j \in Slot \ {i} : fetches'[j] = fetches[j]
    BY <1>1, <1>4, AdvanceMoves DEF Step
  <2>2. CrawlTypeOK'
    BY <1>1, <1>4, <2>1, FS_AddElement DEF CrawlTypeOK
  <2>3. LimitInv'
    <3>1. Cardinality(visited') = Cardinality(visited) + 1 /\ Cardinality(visited) \in Nat
      BY <1>4, FS_AddElement, FS_CardinalityType DEF CrawlTypeOK
    <3>2. Cardinality(visited') <= MaxVisits'
      BY <1>2, <1>4, <3>1
    <3> QED
      BY <1>1, <3>2 DEF LimitInv
  <2>4. \A j \in Slot \ {i} : Claims(j)' = Claims(j) /\ Key(j)' = Key(j)
    BY <2>1 DEF Claims, Key
  <2>5. Claims(i)' /\ Key(i)' = u
    BY <2>1 DEF Claims, Key
  <2>6. ClaimInv'
    <3>1. \A j \in Slot \ {i} : Claims(j) => Key(j)' # u
      BY <1>4, <2>4 DEF ClaimInv
    <3>2. \A j, k \in Slot : Claims(j)' /\ Claims(k)' /\ Key(j)' = Key(k)' => j = k
      BY <2>4, <2>5, <3>1 DEF ClaimInv
    <3>3. \A j \in Slot, v \in pages :
            fetches'[j].step \in {"fetching", "listing"} => Clean[v] # Key(j)'
      BY <1>4, <2>1, <2>4, <2>5 DEF ClaimInv
    <3>4. \A j \in Slot : Claims(j)' => Key(j)' \in visited'
      BY <1>4, <2>4, <2>5 DEF ClaimInv
    <3>5. \A j \in Slot : fetches'[j].step \in {"listing", "queueing"} => IsPage(fetches'[j].url)
      BY <2>1 DEF ClaimInv
    <3> QED
      BY <1>1, <1>4, <2>1, <3>2, <3>3, <3>4, <3>5 DEF ClaimInv
  <2>7. \A v \in URL : Queued(v)' => Queued(v)
    BY <1>1, <2>1 DEF Queued
  <2>8. SoundInv'
    BY <1>1, <1>4, <2>7 DEF SoundInv
  <2>9. CompleteInv => CompleteInv'
    <3> SUFFICES ASSUME CompleteInv, refused = {} PROVE CompleteInv'
      BY <1>4 DEF CompleteInv
    <3>1. \A v \in URL : Met(v) => Met(v)'
      BY <1>1, <1>4, <2>1 DEF Met, Queued
    <3>2. crawl # "done"
      BY <1>1 DEF CompleteInv, Fetching
    <3>3. \A v \in URL : Clean[v] \in visited' /\ IsPage(v) =>
            \/ \A l \in ToSet(Site[v].links) : Met(l)'
            \/ \E j \in Slot : Claims(j)' /\ Key(j)' = Clean[v]
      <4> SUFFICES ASSUME NEW v \in URL, Clean[v] \in visited', IsPage(v)
                   PROVE  \/ \A l \in ToSet(Site[v].links) : Met(l)'
                          \/ \E j \in Slot : Claims(j)' /\ Key(j)' = Clean[v]
        OBVIOUS
      <4>1. CASE Clean[v] = u
        BY <2>5, <4>1
      <4>2. CASE Clean[v] # u
        <5>1. \/ \A l \in ToSet(Site[v].links) : Met(l)
              \/ \E j \in Slot : Claims(j) /\ Key(j) = Clean[v]
          BY <1>4, <4>2 DEF CompleteInv
        <5> QED
          BY <1>1, <2>4, <3>1, <5>1, SiteFacts
      <4> QED
        BY <4>1, <4>2
    <3> QED
      BY <1>1, <2>1, <3>1, <3>2, <3>3, SiteFacts DEF CompleteInv
  <2> QED
    BY <2>2, <2>3, <2>6, <2>8, <2>9
<1>5. CASE u \in visited
  <2>1. Leave(i) /\ UNCHANGED visited /\ refused' = refused
    BY <1>5 DEF Visit, CleanURL
  <2> QED
    BY <1>3, <1>5, <2>1
<1>6. CASE u \notin visited /\ Cardinality(visited) >= MaxVisits
  <2>1. Leave(i) /\ UNCHANGED visited /\ refused' = refused \cup {u}
    BY <1>6 DEF Visit, CleanURL
  <2> QED
    BY <1>3, <2>1
<1>7. CASE u \notin visited /\ ~(Cardinality(visited) >= MaxVisits)
  <2>1. Advances(i, "fetching") /\ visited' = visited \cup {u} /\ refused' = refused
    BY <1>7 DEF Visit, CleanURL
  <2>2. Cardinality(visited) \in Nat
    BY FS_CardinalityType DEF CrawlTypeOK
  <2>3. Cardinality(visited) < MaxVisits
    BY <1>2, <1>7, <2>2
  <2> QED
    BY <1>4, <1>7, <2>1, <2>3
<1> QED
  BY <1>5, <1>6, <1>7

\* A worker that fetches, lists or queues is at work, in a crawl that is under way.
LEMMA ClaimsAreAtWork ==
  ASSUME CrawlInv, NEW i \in Slot, Claims(i)
  PROVE  /\ crawl # "idle" /\ fetches[i].url \in URL /\ Key(i) \in URL /\ Key(i) \in visited
         /\ CompleteInv /\ refused = {} => crawl # "done"
<1>1. crawl # "idle"
  BY DEF CrawlInv, LimitInv, Claims
<1>2. fetches[i].url \in URL
  BY DEF CrawlInv, CrawlTypeOK
<1>3. Key(i) \in URL /\ Key(i) \in visited
  BY <1>2, SiteFacts DEF CrawlInv, ClaimInv, Key
<1>4. i \in Fetching
  BY DEF Claims, Fetching
<1> QED
  BY <1>1, <1>2, <1>3, <1>4 DEF CompleteInv

LEMMA CrawlAtFetch ==
  ASSUME CrawlInv, NEW i \in Slot, Fetch(i)
  PROVE  CrawlInv' /\ (SpellingsAgree /\ CompleteInv => CompleteInv')
<1> USE DEF CrawlInv, contextVars
<1> DEFINE q == fetches[i].url
<1>1. /\ fetches[i].step = "fetching" /\ Claims(i)
      /\ UNCHANGED <<maxPages, queue, batch, visited, pages, crawl, width, refused>>
  BY DEF Fetch, Claims
<1>2. crawl # "idle" /\ q \in URL /\ Key(i) = Clean[q]
  BY <1>1, ClaimsAreAtWork DEF Key
<1>3. MaxVisits' = MaxVisits
  BY <1>1 DEF MaxVisits
<1>4. CASE IsPage(q)
  <2>1. Advances(i, "listing")
    BY <1>4 DEF Fetch
  <2>2. /\ Slot' = Slot /\ fetches' \in [Slot -> [url : URL, step : Step]]
        /\ fetches'[i].step = "listing" /\ fetches'[i].url = q
        /\ \A j \in Slot \ {i} : fetches'[j] = fetches[j]
    BY <1>1, <2>1, AdvanceMoves DEF Step
  <2>3. CrawlTypeOK' /\ LimitInv'
    BY <1>1, <1>2, <1>3, <2>2 DEF CrawlTypeOK, LimitInv
  <2>4. \A j \in Slot : Claims(j)' = Claims(j) /\ Key(j)' = Key(j)
    BY <1>1, <2>2 DEF Claims, Key
  <2>5. ClaimInv'
    <3>1. \A j \in Slot : fetches'[j].step \in {"listing", "queueing"} => IsPage(fetches'[j].url)
      BY <1>4, <2>2 DEF ClaimInv
    <3>2. \A j \in Slot, v \in pages :
            fetches'[j].step \in {"fetching", "listing"} => Clean[v] # Key(j)'
      BY <1>1, <2>2, <2>4 DEF ClaimInv
    <3> QED
      BY <1>1, <2>2, <2>4, <3>1, <3>2 DEF ClaimInv
  <2>6. \A v \in URL : Queued(v)' <=> Queued(v)
    BY <1>1, <2>2 DEF Queued
  <2>7. SoundInv'
    BY <1>1, <2>6 DEF SoundInv
  <2>8. CompleteInv => CompleteInv'
    <3> SUFFICES ASSUME CompleteInv, refused = {} PROVE CompleteInv'
      BY <1>1 DEF CompleteInv
    <3>1. \A v \in URL : Met(v)' <=> Met(v)
      BY <1>1, <2>6 DEF Met
    <3>2. crawl # "done"
      BY <1>1, ClaimsAreAtWork
    <3> QED
      BY <1>1, <2>2, <2>4, <3>1, <3>2, SiteFacts DEF CompleteInv
  <2> QED
    BY <2>3, <2>5, <2>7, <2>8
<1>5. CASE ~IsPage(q)
  <2>1. Leave(i)
    BY <1>5 DEF Fetch
  <2>2. /\ CrawlInv'
        /\ \A v \in URL : Queued(v)' => Queued(v)
        /\ \A v \in URL : Queued(v) => Queued(v)' \/ v = q
        /\ \A j \in Slot \ {i} : Claims(j) => Claims(j)' /\ Key(j)' = Key(j)
    BY <1>1, <1>2, <2>1, CrawlAfterLeave
  <2>3. SpellingsAgree /\ CompleteInv => CompleteInv'
    <3> SUFFICES ASSUME SpellingsAgree, CompleteInv, refused = {} PROVE CompleteInv'
      BY <1>1 DEF CompleteInv
    <3>1. Clean[q] \in visited /\ crawl # "done" /\ Slot' = Slot
      BY <1>1, <1>2, ClaimsAreAtWork DEF Slot
    <3>2. \A v \in URL : Met(v) => Met(v)'
      BY <1>1, <2>2, <3>1 DEF Met
    <3>3. \A v \in URL : IsPage(v) => Clean[v] # Key(i)
      BY <1>2, <1>5 DEF SpellingsAgree, IsPage
    <3> QED
      BY <1>1, <2>2, <3>1, <3>2, <3>3, SiteFacts DEF CompleteInv
  <2> QED
    BY <2>2, <2>3
<1> QED
  BY <1>4, <1>5

LEMMA CrawlAtMishap ==
  ASSUME CrawlInv, NEW i \in Slot, Mishap(i)
  PROVE  CrawlInv' /\ CompleteInv'
<1>1. /\ Claims(i) /\ Leave(i)
      /\ UNCHANGED <<maxPages, queue, batch, visited, pages, crawl, width>>
  BY DEF Mishap, Claims, contextVars
<1>2. refused' # {}
  BY DEF Mishap, Refuse
<1> QED
  BY <1>1, <1>2, ClaimsAreAtWork, CrawlAfterLeave DEF CompleteInv

LEMMA CrawlAtList ==
  ASSUME CrawlInv, NEW i \in Slot, ListPage(i)
  PROVE  CrawlInv' /\ (CompleteInv => CompleteInv')
<1> USE DEF CrawlInv, contextVars
<1> DEFINE q == fetches[i].url
<1>1. /\ fetches[i].step = "listing" /\ Claims(i)
      /\ UNCHANGED <<maxPages, queue, batch, visited, crawl, width>>
  BY DEF ListPage, Claims
<1>2. crawl # "idle" /\ q \in URL /\ Key(i) = Clean[q] /\ Key(i) \in visited /\ IsPage(q)
  BY <1>1, ClaimsAreAtWork DEF Key, ClaimInv
<1>3. CASE Full
  <2>1. Leave(i) /\ pages' = pages /\ refused' # {}
    BY <1>3 DEF ListPage, Refuse
  <2> QED
    BY <1>1, <1>2, <2>1, CrawlAfterLeave DEF CompleteInv
<1>4. CASE ~Full
  <2>1. Advances(i, "queueing") /\ pages' = pages \cup {q} /\ refused' = refused
    BY <1>4 DEF ListPage
  <2>2. /\ Slot' = Slot /\ fetches' \in [Slot -> [url : URL, step : Step]]
        /\ fetches'[i].step = "queueing" /\ fetches'[i].url = q
        /\ \A j \in Slot \ {i} : fetches'[j] = fetches[j]
    BY <1>1, <2>1, AdvanceMoves DEF Step
  <2>3. MaxVisits' = MaxVisits
    BY <1>1 DEF MaxVisits
  <2>4. CrawlTypeOK'
    BY <1>1, <1>2, <2>1, <2>2, FS_AddElement DEF CrawlTypeOK
  <2>5. Cardinality(pages') <= maxPages
    <3>1. Cardinality(pages) \in Nat /\ maxPages \in Nat
      BY FS_CardinalityType DEF CrawlTypeOK
    <3>2. Cardinality(pages) < maxPages
      BY <1>4, <3>1 DEF Full
    <3>3. Cardinality(pages') \in {Cardinality(pages), Cardinality(pages) + 1}
      BY <2>1, FS_AddElement DEF CrawlTypeOK
    <3> QED
      BY <3>1, <3>2, <3>3
  <2>6. LimitInv'
    BY <1>1, <1>2, <2>2, <2>3, <2>5 DEF LimitInv
  <2>7. \A j \in Slot : Claims(j)' = Claims(j) /\ Key(j)' = Key(j)
    BY <1>1, <2>2 DEF Claims, Key
  <2>8. ClaimInv'
    <3>1. \A j \in Slot : fetches'[j].step \in {"listing", "queueing"} => IsPage(fetches'[j].url)
      BY <1>2, <2>2 DEF ClaimInv
    <3>2. \A j \in Slot, v \in pages' :
            fetches'[j].step \in {"fetching", "listing"} => Clean[v] # Key(j)'
      <4> SUFFICES ASSUME NEW j \in Slot, NEW v \in pages',
                          fetches'[j].step \in {"fetching", "listing"}
                   PROVE  Clean[v] # Key(j)
        BY <2>7
      <4>1. j # i /\ fetches'[j] = fetches[j] /\ Claims(j)
        BY <2>2 DEF Claims
      <4> QED
        BY <1>1, <1>2, <2>1, <4>1 DEF ClaimInv
    <3>3. \A u, v \in pages' : Clean[u] = Clean[v] => u = v
      BY <1>1, <1>2, <2>1 DEF ClaimInv
    <3>4. \A v \in pages' : Clean[v] \in visited
      BY <1>2, <2>1 DEF ClaimInv
    <3> QED
      BY <1>1, <2>2, <2>7, <3>1, <3>2, <3>3, <3>4 DEF ClaimInv
  <2>9. \A v \in URL : Queued(v)' <=> Queued(v)
    BY <1>1, <2>2 DEF Queued
  <2>10. SoundInv'
    BY <1>1, <2>9 DEF SoundInv
  <2>11. CompleteInv => CompleteInv'
    <3> SUFFICES ASSUME CompleteInv, refused = {} PROVE CompleteInv'
      BY <2>1 DEF CompleteInv
    <3>1. \A v \in URL : Met(v)' <=> Met(v)
      BY <1>1, <2>9 DEF Met
    <3>2. crawl # "done"
      BY <1>1, ClaimsAreAtWork
    <3> QED
      BY <1>1, <2>2, <2>7, <3>1, <3>2, SiteFacts DEF CompleteInv
  <2> QED
    BY <2>4, <2>6, <2>8, <2>10, <2>11
<1> QED
  BY <1>3, <1>4

LEMMA CrawlAtLinks ==
  ASSUME CrawlInv, NEW i \in Slot, QueueLinks(i)
  PROVE  CrawlInv' /\ (SpellingsAgree /\ CompleteInv => CompleteInv')
<1> USE DEF CrawlInv, contextVars
<1> DEFINE q == fetches[i].url
           links == Site[q].links
<1>1. /\ fetches[i].step = "queueing" /\ Claims(i) /\ Leave(i)
      /\ UNCHANGED <<maxPages, batch, visited, pages, refused, crawl, width>>
      /\ queue' = Enqueue(queue, links, visited)
  BY DEF QueueLinks, Claims
<1>2. /\ crawl # "idle" /\ q \in URL /\ Key(i) = Clean[q] /\ Key(i) \in visited /\ IsPage(q)
      /\ CompleteInv /\ refused = {} => crawl # "done"
  BY <1>1, ClaimsAreAtWork DEF Key, ClaimInv
<1>3. links \in Seq(URL) /\ ToSet(links) \subseteq URL
  BY <1>2, SiteFacts
<1>4. queue' \in Seq(URL) /\ ToSet(queue') = ToSet(queue) \cup (ToSet(links) \ visited)
  BY <1>1, <1>3, EnqueueAddsLinks DEF CrawlTypeOK
<1> HIDE DEF links
<1>5. /\ Slot' = Slot /\ fetches' \in [Slot -> [url : URL, step : Step]]
      /\ fetches'[i].step = "none" /\ \A j \in Slot \ {i} : fetches'[j] = fetches[j]
  BY <1>1, LeaveMoves
<1>6. MaxVisits' = MaxVisits
  BY <1>1 DEF MaxVisits
<1>7. CrawlTypeOK' /\ LimitInv'
  BY <1>1, <1>2, <1>4, <1>5, <1>6 DEF CrawlTypeOK, LimitInv
<1>8. \A j \in Slot : /\ Claims(j)' => j # i /\ Claims(j) /\ Key(j)' = Key(j)
                      /\ fetches'[j].step # "none" => j # i /\ fetches'[j] = fetches[j]
  BY <1>5 DEF Claims, Key
<1>9. \A j \in Slot \ {i} : Claims(j) => Claims(j)' /\ Key(j)' = Key(j)
  BY <1>5 DEF Claims, Key
<1>10. ClaimInv'
  BY <1>1, <1>5, <1>8 DEF ClaimInv, Claims, Key
<1>11. \A v \in URL : Queued(v)' => Queued(v) \/ v \in ToSet(links)
  BY <1>1, <1>4, <1>5 DEF Queued
<1>12. SoundInv'
  <2> SUFFICES ASSUME NEW reached \in SUBSET URL, HoldsTheSite(reached)
               PROVE  /\ visited \subseteq reached
                      /\ \A u \in URL : Queued(u)' => Clean[u] \in reached
    BY <1>1 DEF SoundInv, HoldsTheSite, Followed, IsPage
  <2>1. /\ visited \subseteq reached
        /\ \A u \in URL : Queued(u) => Clean[u] \in reached
    BY DEF SoundInv
  <2>2. \A l \in ToSet(links) : Clean[l] \in reached
    BY <1>2, <2>1 DEF HoldsTheSite, Followed, links
  <2> QED
    BY <1>11, <2>1, <2>2
<1>13. SpellingsAgree /\ CompleteInv => CompleteInv'
  <2> SUFFICES ASSUME SpellingsAgree, CompleteInv, refused = {} PROVE CompleteInv'
    BY <1>1 DEF CompleteInv
  <2>1. \A v \in URL : Met(v) => Met(v)'
    BY <1>1, <1>4, <1>5 DEF Met, Queued
  <2>2. \A l \in ToSet(links) : Met(l)'
    <3> SUFFICES ASSUME NEW l \in ToSet(links) PROVE Met(l)'
      OBVIOUS
    <3>1. CASE l \in visited
      BY <1>1, <3>1 DEF Met, ClaimInv
    <3>2. CASE l \notin visited
      BY <1>4, <3>2 DEF Met, Queued
    <3> QED
      BY <3>1, <3>2
  <2>3. \A v \in URL : Clean[v] = Key(i) => ToSet(Site[v].links) = ToSet(links)
    BY <1>2 DEF SpellingsAgree, links
  <2> QED
    BY <1>1, <1>2, <1>5, <1>9, <2>1, <2>2, <2>3, SiteFacts DEF CompleteInv
<1> QED
  BY <1>7, <1>10, <1>12, <1>13

LEMMA CrawlOrNot ==
  ASSUME [Next]_vars
  PROVE  CrawlTurn \/ UNCHANGED <<crawlVars, width>>
<1>1. Adds => width' = width
  BY DEF Adds
<1>2. CASE MainTurn
  <2>1. width' = width
    BY <1>2 DEF MainTurn, PipelineStep, StartModule, Surface, GenerateReport, TakeSnapshot, Opens,
       Writes, FileFails, MainReturns, ExecuteScanReturns, HandlerExits, Interrupt, contextVars
  <2> QED
    BY <1>2, <2>1 DEF MainTurn
<1>3. CASE DnsTurn \/ PortTurn \/ OtherTurn \/ EndTurn \/ LimiterTurn
  BY <1>1, <1>3, DnsAdds, PortAdds
     DEF DnsTurn, PortTurn, OtherTurn, EndTurn, LimiterTurn, contextVars
<1>4. CASE UNCHANGED vars
  BY <1>4 DEF vars, engineVars, contextVars
<1> QED
  BY <1>2, <1>3, <1>4, Turns

LEMMA CrawlNext ==
  ASSUME CrawlInv, [Next]_vars
  PROVE  CrawlInv' /\ (SpellingsAgree /\ CompleteInv => CompleteInv')
<1>1. CASE CrawlTurn
  <2>1. CASE \E i \in Slot : Visit(i) \/ Fetch(i) \/ Mishap(i) \/ ListPage(i) \/ QueueLinks(i)
    BY <2>1, CrawlAtVisit, CrawlAtFetch, CrawlAtMishap, CrawlAtList, CrawlAtLinks
  <2>2. CASE StartCrawl \/ Drain \/ TakeNext \/ SpawnFetch \/ BreakOff \/ JoinBatch
    BY <2>2, CrawlAtStart, CrawlAtDrain, CrawlAtTake, CrawlAtSpawn, CrawlAtBreak, CrawlAtJoin
  <2> QED
    BY <1>1, <2>1, <2>2 DEF CrawlTurn, CrawlStep
<1>2. CASE UNCHANGED <<crawlVars, width>>
  BY <1>2, CrawlKept
<1> QED
  BY <1>1, <1>2, CrawlOrNot

\* A step that takes no worker off its way to list a page and visits nothing new.
LEMMA ListedWhile ==
  ASSUME ListedInv, UNCHANGED <<width, pages, visited>>, refused' = {} => refused = {},
         \A j \in Slot : Lists(j) => Lists(j)' /\ Key(j)' = Key(j)
  PROVE  ListedInv'
<1>1. Slot' = Slot
  BY DEF Slot
<1>2. \A v : Accounted(v) => Accounted(v)'
  BY <1>1 DEF Accounted
<1>3. \A u : IsPage(u)' = IsPage(u)
  BY DEF IsPage
<1> QED
  BY <1>2, <1>3 DEF ListedInv

LEMMA ListedAtWorker ==
  ASSUME SpellingsAgree, CrawlInv, ListedInv, NEW i \in Slot,
         Visit(i) \/ Fetch(i) \/ Mishap(i) \/ ListPage(i) \/ QueueLinks(i)
  PROVE  ListedInv'
<1> USE DEF contextVars
<1> DEFINE q == fetches[i].url
<1>1. CrawlTypeOK /\ q \in URL
  BY DEF CrawlInv, CrawlTypeOK
<1>2. ASSUME Leave(i), UNCHANGED <<width, pages, visited>>, ~Lists(i), refused' = {} => refused = {}
      PROVE  ListedInv'
  <2>1. \A j \in Slot \ {i} : fetches'[j] = fetches[j]
    BY <1>1, <1>2, LeaveMoves
  <2>2. \A j \in Slot : Lists(j) => Lists(j)' /\ Key(j)' = Key(j)
    BY <1>2, <2>1 DEF Lists, Key
  <2> QED
    BY <1>2, <2>2, ListedWhile
<1>3. CASE refused' # {} /\ pages' = pages
  BY <1>3 DEF ListedInv
<1>4. CASE Visit(i)
  <2> DEFINE u == Clean[q]
  <2>1. ~Lists(i) /\ UNCHANGED <<width, pages>>
    BY <1>4 DEF Visit, Lists
  <2>2. CASE Leave(i) /\ visited' = visited /\ (refused' = {} => refused = {})
    BY <1>2, <2>1, <2>2
  <2>3. CASE Advances(i, "fetching") /\ visited' = visited \cup {u} /\ refused' = refused
    <3>1. /\ Slot' = Slot /\ fetches'[i].step = "fetching" /\ fetches'[i].url = q
          /\ \A j \in Slot \ {i} : fetches'[j] = fetches[j]
      BY <1>1, <2>1, <2>3, AdvanceMoves DEF Step
    <3>2. \A j \in Slot : Lists(j) => Lists(j)' /\ Key(j)' = Key(j)
      BY <2>1, <3>1 DEF Lists, Key
    <3>3. Lists(i)' /\ Key(i)' = u
      BY <3>1 DEF Lists, Key
    <3>4. \A v : Accounted(v) => Accounted(v)'
      BY <2>1, <3>1, <3>2 DEF Accounted
    <3>5. \A v : v = u => Accounted(v)'
      BY <3>1, <3>3 DEF Accounted
    <3> QED
      BY <2>1, <2>3, <3>4, <3>5 DEF ListedInv
  <2> QED
    BY <1>4, <2>2, <2>3 DEF Visit, CleanURL
<1>5. CASE Fetch(i)
  <2>1. UNCHANGED <<width, pages, visited, refused>> /\ fetches[i].step = "fetching"
    BY <1>5 DEF Fetch
  <2>2. CASE IsPage(q) /\ Advances(i, "listing")
    <3>1. /\ fetches'[i].step = "listing" /\ fetches'[i].url = q
          /\ \A j \in Slot \ {i} : fetches'[j] = fetches[j]
      BY <1>1, <2>1, <2>2, AdvanceMoves DEF Step
    <3>2. \A j \in Slot : Lists(j) => Lists(j)' /\ Key(j)' = Key(j)
      BY <3>1 DEF Lists, Key
    <3> QED
      BY <2>1, <3>2, ListedWhile
  <2>3. CASE ~IsPage(q) /\ Leave(i)
    <3>1. Slot' = Slot /\ \A j \in Slot \ {i} : fetches'[j] = fetches[j]
      BY <1>1, <2>1, <2>3, LeaveMoves
    <3>2. \A v \in visited : IsPage(v) => Key(i) # v
      BY <1>1, <2>3, SiteFacts DEF SpellingsAgree, IsPage, Key
    <3>3. \A j \in Slot \ {i} : Lists(j) => Lists(j)' /\ Key(j)' = Key(j)
      BY <3>1 DEF Lists, Key
    <3>4. \A v \in visited : IsPage(v) /\ Accounted(v) => Accounted(v)'
      BY <2>1, <3>1, <3>2, <3>3 DEF Accounted
    <3> QED
      BY <2>1, <3>4 DEF ListedInv
  <2> QED
    BY <1>5, <2>2, <2>3 DEF Fetch
<1>6. CASE Mishap(i)
  BY <1>3, <1>6 DEF Mishap, Refuse
<1>7. CASE ListPage(i)
  <2>1. /\ UNCHANGED <<width, visited>> /\ fetches[i].step = "listing" /\ IsPage(q)
    BY <1>7 DEF ListPage, CrawlInv, ClaimInv
  <2>2. CASE Full
    BY <1>3, <1>7, <2>2 DEF ListPage, Refuse
  <2>3. CASE ~Full
    <3>1. Advances(i, "queueing") /\ pages' = pages \cup {q} /\ refused' = refused
      BY <1>7, <2>3 DEF ListPage
    <3>2. Slot' = Slot /\ \A j \in Slot \ {i} : fetches'[j] = fetches[j]
      BY <1>1, <2>1, <3>1, AdvanceMoves DEF Step
    <3>3. \A j \in Slot \ {i} : Lists(j) => Lists(j)' /\ Key(j)' = Key(j)
      BY <3>2 DEF Lists, Key
    <3>4. \A v : v = Key(i) => Accounted(v)'
      BY <3>1 DEF Accounted, Key
    <3>5. \A v : Accounted(v) => Accounted(v)'
      BY <3>1, <3>2, <3>3, <3>4 DEF Accounted
    <3> QED
      BY <2>1, <3>1, <3>5 DEF ListedInv
  <2> QED
    BY <2>2, <2>3
<1>8. CASE QueueLinks(i)
  BY <1>2, <1>8 DEF QueueLinks, Lists
<1> QED
  BY <1>4, <1>5, <1>6, <1>7, <1>8

LEMMA ListedNext ==
  ASSUME SpellingsAgree, CrawlInv, ListedInv, [Next]_vars
  PROVE  ListedInv'
<1>1. CASE CrawlTurn
  <2>1. CASE \E i \in Slot : Visit(i) \/ Fetch(i) \/ Mishap(i) \/ ListPage(i) \/ QueueLinks(i)
    BY <2>1, ListedAtWorker
  <2>2. CASE StartCrawl \/ Drain \/ TakeNext \/ BreakOff \/ JoinBatch
    <3>1. UNCHANGED <<width, pages, visited, fetches>> /\ (refused' = {} => refused = {})
      BY <2>2 DEF StartCrawl, Drain, TakeNext, BreakOff, JoinBatch, contextVars
    <3> QED
      BY <3>1, ListedWhile DEF Lists, Key
  <2>3. CASE SpawnFetch
    <3> DEFINE i == CHOOSE i \in Slot : i \notin Fetching
               f == [url |-> Head(batch), step |-> "queued"]
    <3>1. /\ fetches' = [fetches EXCEPT ![i] = f]
          /\ UNCHANGED <<width, pages, visited, refused>>
      BY <2>3 DEF SpawnFetch, contextVars
    <3>2. i \in Slot /\ i \notin Fetching /\ CrawlTypeOK
      BY <2>3, SlotIsFree DEF SpawnFetch, CrawlInv, CrawlTypeOK
    <3> HIDE DEF i
    <3>3. ~Lists(i) /\ \A j \in Slot \ {i} : fetches'[j] = fetches[j]
      BY <3>1, <3>2 DEF CrawlTypeOK, Lists, Fetching
    <3>4. \A j \in Slot : Lists(j) => Lists(j)' /\ Key(j)' = Key(j)
      BY <3>3 DEF Lists, Key
    <3> QED
      BY <3>1, <3>4, ListedWhile
  <2> QED
    BY <1>1, <2>1, <2>2, <2>3 DEF CrawlTurn, CrawlStep
<1>2. CASE UNCHANGED <<crawlVars, width>>
  BY <1>2, ListedWhile DEF crawlVars, Lists, Key
<1> QED
  BY <1>1, <1>2, CrawlOrNot

\* What every crawl keeps to, whatever the site, its links and its spellings: the limits on
\* visits and pages, one worker and one listing per page, and nothing queued or visited
\* that the links of listed pages do not lead to. (crawler.go:105-302)
THEOREM CrawlInvariance == Spec => []CrawlInv
<1>1. Init => CrawlInv
  BY CrawlInitHolds
<1>2. CrawlInv /\ [Next]_vars => CrawlInv'
  BY CrawlNext
<1> QED
  BY <1>1, <1>2, PTL DEF Spec

\* When the crawl of a site is over and nothing has been dropped, no URL the site links
\* to is missing and the pages among them are listed, if a URL answers the same with and
\* without its trailing slash: a worker claims a URL under its clean form and reads it as
\* it was found. (crawler.go:105-302)
THEOREM CrawlReachesAll ==
  ASSUME SpellingsAgree
  PROVE  Spec => []CrawlIsComplete
<1>1. Init => CrawlInv /\ CompleteInv /\ ListedInv
  BY CrawlInitHolds DEF Init, CrawlInit, ListedInv
<1>2. CrawlInv /\ CompleteInv /\ ListedInv /\ [Next]_vars
        => (CrawlInv /\ CompleteInv /\ ListedInv)'
  BY CrawlNext, ListedNext
<1>3. CrawlInv /\ CompleteInv /\ ListedInv => CrawlIsComplete
  <2> SUFFICES ASSUME CrawlInv, CompleteInv, ListedInv PROVE CrawlIsComplete
    OBVIOUS
  <2>1. /\ Cardinality(pages) <= maxPages /\ Cardinality(visited) <= MaxVisits
        /\ \A u, v \in pages : Clean[u] = Clean[v] => u = v
    BY DEF CrawlInv, LimitInv, ClaimInv
  <2>2. ASSUME crawl = "done", refused = {}
        PROVE  /\ HoldsTheSite(visited)
               /\ \A reached \in SUBSET URL : HoldsTheSite(reached) => visited \subseteq reached
               /\ {Clean[u] : u \in pages} = {v \in visited : IsPage(v)}
    <3>1. \A u \in URL : ~Queued(u) /\ \A i \in Slot : ~Claims(i)
      BY <2>2 DEF CompleteInv, Queued, Fetching, Claims, ToSet
    <3>2. Clean[Target] \in visited
      BY <2>2, <3>1, SiteFacts DEF CompleteInv, Met
    <3>3. \A u \in URL : Clean[u] \in visited /\ IsPage(u) =>
            \A l \in ToSet(Site[u].links) : Clean[l] \in visited
      BY <2>2, <3>1, SiteFacts DEF CompleteInv, Met
    <3>4. HoldsTheSite(visited)
      BY <3>2, <3>3 DEF HoldsTheSite, Followed
    <3>5. \A v \in visited : IsPage(v) => \E u \in pages : Clean[u] = v
      BY <2>2, <3>1, SiteFacts DEF ListedInv, Accounted, Lists, Claims
    <3>6. \A u \in pages : Clean[u] \in visited /\ IsPage(Clean[u])
      <4>1. \A u \in pages : u \in URL /\ IsPage(u) /\ Clean[u] \in visited
        BY DEF ListedInv, CrawlInv, CrawlTypeOK, ClaimInv
      <4> QED
        BY <4>1, SiteFacts DEF SpellingsAgree, IsPage
    <3> QED
      BY <3>4, <3>5, <3>6 DEF CrawlInv, SoundInv
  <2> QED
    BY <2>1, <2>2 DEF CrawlIsComplete
<1> QED
  BY <1>1, <1>2, <1>3, PTL DEF Spec

================================================================================
