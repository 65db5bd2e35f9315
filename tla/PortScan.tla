-------------------------------- MODULE PortScan -------------------------------
(* The portscan module (internal/modules/portscan.go): the addresses of the target *)
(* are deduplicated, IPv4 first, and cut to three; each gets a sweep of its own,    *)
(* one worker per port, at most `width` at a time; a dial that times out is tried   *)
(* once more, a refusal is final; the open ports are read for a banner, collected,  *)
(* sorted and judged.                                                               *)
(*                                                                                 *)
(* External: the network. A listening port accepts a dial or the dial times out, a  *)
(* closed one refuses it or the dial times out. A banner names the service or       *)
(* leaves the table's guess; reading it may panic, as any hostile input may.        *)
EXTENDS ScanContext, SequencesExt

CONSTANTS
  Records,       \* the answer to the lookup of the target: addresses, in order
  IsIPv4,        \* address -> BOOLEAN
  Listening,     \* address -> the ports that listen
  PortSpecs,     \* values of -ports: [kind : {"top100", "full", "range"}, from, to : Int]
  Top,           \* top100Ports
  LastPort,      \* 65535
  MaxIPs,        \* maxPortScanIPs (3)
  CdnPort,       \* cdnPorts
  CdnThreshold,  \* open ports of them that make a CDN (4)
  Dangerous,     \* the ports whose service is in dangerousServices
  MaxDrops       \* bound: dials that time out

ASSUME PortAssumption ==
  /\ LastPort \in Nat /\ Top \in Seq(1..LastPort)
  /\ PortSpecs \subseteq [kind : {"top100", "full", "range"}, from : Int, to : Int]
  /\ DOMAIN IsIPv4 \cap {"CDN", "Dangerous"} = {}

VARIABLES
  ports,     \* the ports of every sweep, in order
  todo,      \* the addresses still to be swept, the current one first
  handed,    \* how many ports of the current sweep have got a worker
  dial,      \* port -> its worker: "none", "dialing", "again", "open", "over"
  open,      \* result.OpenPorts of the current sweep
  reported,  \* address -> the ports its finding lists
  drops,     \* history: <<address, port>> of each dial that timed out, in order
  crashed,   \* history: <<address, port>> of the workers that panicked
  portscan   \* the module: "idle", "sweeping", "done"

portVars == <<ports, todo, handed, dial, open, reported, drops, crashed, portscan>>

--------------------------------------------------------------------------------
\* Which addresses, which ports

Distinct(ips) ==
  FoldLeft(LAMBDA seen, ip : IF Contains(seen, ip) THEN seen ELSE Append(seen, ip), <<>>, ips)

SelectScanIPs(ips) ==
  LET ordered == SelectSeq(Distinct(ips), LAMBDA ip : IsIPv4[ip])
                 \o SelectSeq(Distinct(ips), LAMBDA ip : ~IsIPv4[ip])
  IN  SubSeq(ordered, 1, IF Len(ordered) < MaxIPs THEN Len(ordered) ELSE MaxIPs)

PortsFrom(first, last) == [i \in 1..(last - first + 1) |-> first + i - 1]

SelectPorts(spec) ==
  CASE spec.kind = "full" -> PortsFrom(1, LastPort)
    [] spec.kind = "top100" -> Top
    [] spec.kind = "range" ->
         LET first == IF spec.from < 1 THEN 1 ELSE spec.from
             last == IF spec.to > LastPort THEN LastPort ELSE spec.to
         IN  IF last < first THEN Top ELSE PortsFrom(first, last)

Port == 1..LastPort
IP == Head(todo)

--------------------------------------------------------------------------------
\* One sweep

Busy == {p \in Port : dial[p] \in {"dialing", "again", "open"}}
NoDials == [p \in Port |-> "none"]
Move(p, state) == dial' = [dial EXCEPT ![p] = state]

PortInit ==
  /\ ports = <<>> /\ todo = <<>> /\ handed = 0 /\ dial = NoDials /\ open = {}
  /\ reported = [ip \in DOMAIN IsIPv4 |-> {}]
  /\ drops = {} /\ crashed = {}
  /\ portscan = "idle"

\* The ports, and the lookup of the host; it may fail, and does when the context is done.
StartPortScan ==
  /\ portscan = "idle"
  /\ ports' \in {SelectPorts(spec) : spec \in PortSpecs}
  /\ \/ /\ ~cancelled
        /\ todo' = SelectScanIPs(Records)
        /\ portscan' = "sweeping"
     \/ todo' = <<>> /\ portscan' = "done"
  /\ UNCHANGED <<handed, dial, open, reported, drops, crashed, contextVars>>

SpawnDial ==
  /\ portscan = "sweeping" /\ todo # <<>> /\ handed < Len(ports)
  /\ SlotFree(Busy)
  /\ handed' = handed + 1
  /\ Move(ports[handed + 1], "dialing")
  /\ UNCHANGED <<ports, todo, open, reported, drops, crashed, portscan, contextVars>>

\* Mutant: a dial that times out counts as an answer.
NeverAgain(p) == "over"

AfterTimeout(p) == IF dial[p] = "dialing" THEN "again" ELSE "over"

\* dialWithRetry: each dial has a context of its own; a cancelled one is no timeout.
Dial(p) ==
  /\ dial[p] \in {"dialing", "again"}
  /\ \/ cancelled /\ Move(p, "over") /\ UNCHANGED drops
     \/ ~cancelled /\ Move(p, IF p \in Listening[IP] THEN "open" ELSE "over")
        /\ UNCHANGED drops
     \/ /\ ~cancelled /\ Cardinality(drops) < MaxDrops
        /\ drops' = drops \cup {<<IP, p, dial[p]>>}
        /\ Move(p, AfterTimeout(p))
  /\ UNCHANGED <<ports, todo, handed, open, reported, crashed, portscan, contextVars>>

\* probeBanner and the append under mu, or the panic that RecoverWorker contains.
ReadBanner(p) ==
  /\ dial[p] = "open"
  /\ Move(p, "over")
  /\ \/ open' = open \cup {p} /\ UNCHANGED crashed
     \/ crashed = {} /\ crashed' = {<<IP, p>>} /\ UNCHANGED open
  /\ UNCHANGED <<ports, todo, handed, reported, drops, portscan, contextVars>>

\* reportPortScanResult
BehindCDN == Cardinality(open \cap CdnPort) >= CdnThreshold
DangerousPorts == {p \in open \cap Dangerous : ~(BehindCDN /\ p \in CdnPort)}

\* wg.Wait has returned: the sweep is judged, and the next address has its turn.
JoinSweep ==
  /\ portscan = "sweeping" /\ todo # <<>> /\ handed = Len(ports) /\ Busy = {}
  /\ reported' = [reported EXCEPT ![IP] = open]
  /\ Add({Finding("portscan", IP)}
         \cup (IF BehindCDN THEN {Finding("portscan", "CDN")} ELSE {})
         \cup (IF DangerousPorts # {} THEN {Finding("portscan", "Dangerous")} ELSE {}))
  /\ todo' = Tail(todo)
  /\ handed' = 0 /\ dial' = NoDials /\ open' = {}
  /\ portscan' = IF Tail(todo) = <<>> THEN "done" ELSE "sweeping"
  /\ UNCHANGED <<ports, drops, crashed, width, cancelled, subdomains, endpoints>>

PortStep ==
  \/ StartPortScan \/ SpawnDial \/ JoinSweep
  \/ \E p \in Port : Dial(p) \/ ReadBanner(p)

--------------------------------------------------------------------------------
\* Properties

\* A port that listens and that the finding of its address leaves out has dropped
\* both dials, or its worker has panicked: a dial lost on the way, a refusal of
\* another port, the end of the pool's slots or the end of another sweep never
\* closes it. Nothing is listed that does not listen. (portscan.go:165-240)
OpenPortsAreFound ==
  \A ip \in DOMAIN IsIPv4 :
    Finding("portscan", ip) \in findings /\ ~cancelled =>
      /\ reported[ip] \subseteq Listening[ip]
      /\ \A p \in (Listening[ip] \cap ToSet(ports)) \ reported[ip] :
           \/ {<<ip, p, "dialing">>, <<ip, p, "again">>} \subseteq drops
           \/ <<ip, p>> \in crashed
================================================================================
