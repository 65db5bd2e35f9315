------------------------------- MODULE LogStream -------------------------------
(* The log of one scan and the browsers that watch it: Job.appendLog,          *)
(* subscribe, unsubscribe and finish (src/webui/jobs.go) with the SSE handler  *)
(* handleEvents (src/webui/main.go). Lines are numbered in the order in which  *)
(* appendLog takes Job.mu, whichever goroutine brings them.                    *)
EXTENDS Naturals, Sequences, SequencesExt

CONSTANTS
  Client,       \* connections of browsers to /events
  BufferLimit,  \* maxLogLines
  ChanCapacity, \* capacity of a subscriber's channel
  MaxLines,     \* bound: lines the scan ever logs
  LateLines     \* a bridge callback may still log after finish

ASSUME LimitAssumption == BufferLimit \in Nat \ {0} /\ ChanCapacity \in Nat \ {0}
ASSUME LineAssumption == MaxLines \in Nat /\ LateLines \in BOOLEAN

VARIABLES
  appended,  \* lines logged so far
  buf,       \* Job.logBuf
  phase,     \* of the scan: "running", "closed" (finish released Job.mu), "refreshed"
  sealed,    \* lines logged when finish closed the channels
  onDisk,    \* the report exists in the results directory
  hasReport, \* Job.hasJSON or Job.hasMD, cached by refreshReportMeta
  subs,      \* Job.subs
  chan,      \* chan[c]: what is in the channel of connection c
  open,      \* channels that are not closed
  at,        \* where the handler of each connection is
  replay,    \* the snapshot a handler still has to send
  sent,      \* the log events sent to the browser
  missed,    \* lines appendLog dropped because the channel was full
  final      \* the has_report of the status event sent, "none" before

scanVars == <<appended, buf, phase, sealed, onDisk, hasReport>>
chanVars == <<subs, chan, open, missed>>
viewVars == <<at, replay, sent, final>>
vars == <<scanVars, chanVars, viewVars>>

Line == 1..MaxLines
At   == {"connect", "replay", "replayfinal", "live", "status", "ended", "gone"}

Init ==
  /\ appended = 0 /\ buf = <<>> /\ phase = "running" /\ sealed = 0
  /\ onDisk = FALSE /\ hasReport = FALSE
  /\ subs = {} /\ open = {}
  /\ chan = [c \in Client |-> <<>>]
  /\ missed = [c \in Client |-> {}]
  /\ at = [c \in Client |-> "connect"]
  /\ replay = [c \in Client |-> <<>>]
  /\ sent = [c \in Client |-> <<>>]
  /\ final = [c \in Client |-> "none"]

--------------------------------------------------------------------------------
\* The scan

\* The ring: at the limit the oldest line goes.
Keep(s, n) == IF Len(s) >= BufferLimit THEN Append(Tail(s), n) ELSE Append(s, n)

\* The non-blocking send: a full channel does not take the line.
Offer(s, n) == IF Len(s) < ChanCapacity THEN Append(s, n) ELSE s

AppendLog ==
  LET n == appended + 1 IN
  /\ n \in Line
  /\ phase = "running" \/ LateLines
  /\ appended' = n
  /\ buf' = Keep(buf, n)
  /\ chan' = [c \in Client |-> IF c \in subs THEN Offer(chan[c], n) ELSE chan[c]]
  /\ missed' = [c \in Client |-> IF c \in subs /\ Len(chan[c]) >= ChanCapacity
                                   THEN missed[c] \cup {n} ELSE missed[c]]
  /\ UNCHANGED <<phase, sealed, onDisk, hasReport, subs, open, viewVars>>

\* The CLI, or writeReportToDisk, saves the report before the scan finishes.
SaveReport ==
  /\ phase = "running" /\ ~onDisk
  /\ onDisk' = TRUE
  /\ UNCHANGED <<appended, buf, phase, sealed, hasReport, chanVars, viewVars>>

\* Mutant: the closed channels stay registered.
NoSubscriberForgotten == subs

SubscribersAfterFinish == {}

\* Mutant: finish forgets the subscribers without closing their channels.
NoChannelClosed == open

OpenAfterFinish == open \ subs

\* finish, first critical section: terminal status, channels closed.
Finish ==
  /\ phase = "running"
  /\ phase' = "closed"
  /\ sealed' = appended
  /\ open' = OpenAfterFinish
  /\ subs' = SubscribersAfterFinish
  /\ UNCHANGED <<appended, buf, onDisk, hasReport, chan, missed, viewVars>>

\* finish, second critical section: refreshReportMeta.
RefreshReportMeta ==
  /\ phase = "closed"
  /\ phase' = "refreshed"
  /\ hasReport' = onDisk
  /\ UNCHANGED <<appended, buf, sealed, onDisk, chanVars, viewVars>>

--------------------------------------------------------------------------------
\* handleEvents, one handler per connection

Goto(c, l) == at' = [at EXCEPT ![c] = l]

\* Mutant: the snapshot is an older one than the registration.
StaleSnapshot == IF buf = <<>> THEN <<>> ELSE Front(buf)

Snapshot == buf

\* Snapshot and registration in one critical section of Job.mu; the handler of
\* a finished scan gets no channel.
Subscribe(c) ==
  /\ at[c] = "connect"
  /\ replay' = [replay EXCEPT ![c] = Snapshot]
  /\ IF phase # "running"
       THEN /\ Goto(c, "replayfinal")
            /\ UNCHANGED <<subs, open>>
       ELSE /\ Goto(c, "replay")
            /\ subs' = subs \cup {c}
            /\ open' = open \cup {c}
  /\ UNCHANGED <<scanVars, chan, missed, sent, final>>

ReplayOf(c) == replay[c]

\* The replay goes out while the channel already fills.
Replay(c) ==
  /\ at[c] \in {"replay", "replayfinal"}
  /\ sent' = [sent EXCEPT ![c] = ReplayOf(c)]
  /\ replay' = [replay EXCEPT ![c] = <<>>]
  /\ Goto(c, IF at[c] = "replay" THEN "live" ELSE "status")
  /\ UNCHANGED <<scanVars, chanVars, final>>

\* The three ways out of the select (the heartbeat changes nothing).
Receive(c) ==
  /\ at[c] = "live"
  /\ chan[c] # <<>>
  /\ sent' = [sent EXCEPT ![c] = Append(@, Head(chan[c]))]
  /\ chan' = [chan EXCEPT ![c] = Tail(@)]
  /\ UNCHANGED <<scanVars, subs, open, missed, at, replay, final>>

\* Mutant: the handler looks at Job.closed instead of draining its channel.
EndsEarly(c) == c \notin open

\* A closed channel ends only after its last line was received.
Drained(c) == c \notin open /\ chan[c] = <<>>

ReceiveClosed(c) ==
  /\ at[c] = "live"
  /\ Drained(c)
  /\ Goto(c, "status")
  /\ UNCHANGED <<scanVars, chanVars, replay, sent, final>>

Leave(c) ==
  /\ at[c] = "live"
  /\ Goto(c, "gone")
  /\ subs' = subs \ {c}
  /\ UNCHANGED <<scanVars, chan, open, missed, replay, sent, final>>

\* sendStatus(job.summary()), and the deferred unsubscribe.
SendStatus(c) ==
  /\ at[c] = "status"
  /\ final' = [final EXCEPT ![c] = IF hasReport THEN "report" ELSE "noreport"]
  /\ subs' = subs \ {c}
  /\ Goto(c, "ended")
  /\ UNCHANGED <<scanVars, chan, open, missed, replay, sent>>

--------------------------------------------------------------------------------

HandlerStep(c) == Replay(c) \/ Receive(c) \/ ReceiveClosed(c) \/ SendStatus(c)
FinishStep == Finish \/ RefreshReportMeta

Next == \/ AppendLog
        \/ SaveReport
        \/ FinishStep
        \/ \E c \in Client : Subscribe(c) \/ HandlerStep(c) \/ Leave(c)

Spec == Init /\ [][Next]_vars

\* The scan ends (AcceptedScanCloses of ScanManager) and every handler runs.
FairSpec == Spec /\ WF_vars(FinishStep) /\ \A c \in Client : WF_vars(HandlerStep(c))

--------------------------------------------------------------------------------
\* Properties

\* A line is never sent to a closed channel, which would panic, and a channel
\* is never closed twice: only registered channels get lines and only they are
\* closed (appendLog and finish against unsubscribe, late callbacks included).
NoSendOnClosed == subs \subseteq open

Taken(c) == ToSet(replay[c]) \cup ToSet(sent[c]) \cup ToSet(chan[c]) \cup missed[c]

\* Between the replay and the live lines nothing is lost, doubled or turned round:
\* what a connection was sent and will be sent is in order, each line once, and
\* with what it missed because its channel was full it is one unbroken run of
\* lines up to the latest, or up to the last line before finish.
NoSilentGap ==
  \A c \in Client :
    /\ LET shown == replay[c] \o sent[c] \o chan[c]
       IN  \A i, j \in DOMAIN shown : i < j => shown[i] < shown[j]
    /\ at[c] \in {"replay", "live", "status", "ended"} =>
         /\ \A i, j \in Taken(c) : i..j \subseteq Taken(c)
         /\ c \in subs /\ appended > 0 => appended \in Taken(c)
         /\ phase # "running" /\ sealed > 0 => \E i \in Taken(c) : i >= sealed

\* The status event comes last: a connection that got it was sent, or missed,
\* every line logged before finish that it was still waiting for.
StatusComesLast ==
  \A c \in Client : at[c] \in {"status", "ended"} => chan[c] = <<>> /\ replay[c] = <<>>

\* Every connection that stays gets its status event.
WatcherIsReleased ==
  \A c \in Client : at[c] = "replay" ~> at[c] \in {"ended", "gone"}

--------------------------------------------------------------------------------
\* What a comment says, and the code does not do

\* "finish marks the job terminal, refreshes report metadata and closes
\* subscribers" (jobs.go): the status event sent at the close knows the report.
StatusKnowsReport ==
  \A c \in Client : final[c] = "noreport" => ~onDisk
================================================================================
