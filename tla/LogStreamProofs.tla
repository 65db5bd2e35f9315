---------------------------- MODULE LogStreamProofs ----------------------------
(* Theorems about LogStream, for any number of browsers, lines that are logged,  *)
(* and capacities of the ring buffer and the channels, with and without lines    *)
(* that callbacks log after the end.                                             *)
EXTENDS LogStream, SequenceTheorems, TLAPS

--------------------------------------------------------------------------------
\* The inductive invariant

TypeOK ==
  /\ appended \in 0..MaxLines /\ sealed \in 0..MaxLines
  /\ buf \in Seq(Nat)
  /\ phase \in {"running", "closed", "refreshed"}
  /\ onDisk \in BOOLEAN /\ hasReport \in BOOLEAN
  /\ subs \subseteq Client /\ open \subseteq Client
  /\ chan \in [Client -> Seq(Nat)]
  /\ missed \in [Client -> SUBSET Nat]
  /\ at \in [Client -> At]
  /\ replay \in [Client -> Seq(Nat)]
  /\ sent \in [Client -> Seq(Nat)]
  /\ final \in [Client -> {"none", "report", "noreport"}]

\* The ring holds the latest lines, as many as it has room for.
BufferIsTail ==
  /\ Len(buf) = IF appended < BufferLimit THEN appended ELSE BufferLimit
  /\ \A i \in 1..Len(buf) : buf[i] = appended - Len(buf) + i

\* Where a handler is tells whether it is registered, and what it holds.
HandlerInv ==
  \A c \in Client :
    /\ at[c] \in {"connect", "replayfinal"} =>
         c \notin open /\ chan[c] = <<>> /\ missed[c] = {}
    /\ at[c] \in {"connect", "replay", "replayfinal"} => sent[c] = <<>>
    /\ at[c] \notin {"replay", "replayfinal"} => replay[c] = <<>>
    /\ at[c] \in {"replay", "live"} => (c \in subs <=> phase = "running")
    /\ at[c] \notin {"replay", "live"} => c \notin subs
    /\ at[c] \in {"replayfinal", "status", "ended"} => phase # "running"

\* Every line that a connection has, had or missed was logged before.
LinesAreLogged ==
  /\ sealed <= appended
  /\ \A c \in Client : \A i \in Taken(c) : 0 < i /\ i <= appended

\* What a connection was sent and will be sent.
Shown(c) == replay[c] \o sent[c] \o chan[c]
Ascending(s) == \A i, j \in 1..Len(s) : i < j => s[i] < s[j]
InOrder == \A c \in Client : Ascending(Shown(c))

\* The lines of a connection are one run, up to the latest it could get.
Convex(S) == \A i, j \in S : i..j \subseteq S
Unbroken ==
  \A c \in Client : at[c] \notin {"connect", "gone"} =>
    /\ Convex(Taken(c))
    /\ phase = "running" /\ appended > 0 => appended \in Taken(c)
    /\ phase # "running" /\ sealed > 0 => \E i \in Taken(c) : i >= sealed

IInv == /\ TypeOK
        /\ BufferIsTail
        /\ HandlerInv
        /\ LinesAreLogged
        /\ InOrder
        /\ Unbroken
        /\ NoSendOnClosed
        /\ StatusComesLast

--------------------------------------------------------------------------------
\* Sequences

\* What the library says of Append and Tail, for sequences of lines.
LEMMA AppendLine ==
  ASSUME NEW s \in Seq(Nat), NEW n \in Nat
  PROVE  /\ Append(s, n) \in Seq(Nat) /\ Len(Append(s, n)) = Len(s) + 1 /\ Len(s) \in Nat
         /\ \A i \in 1..Len(s) : Append(s, n)[i] = s[i] /\ s[i] \in Nat
         /\ Append(s, n)[Len(s) + 1] = n
BY AppendProperties, LenProperties, ElementOfSeq

LEMMA TailLines ==
  ASSUME NEW s \in Seq(Nat), s # <<>>
  PROVE  /\ Len(s) \in Nat \ {0} /\ Head(s) = s[1] /\ Head(s) \in Nat
         /\ Tail(s) \in Seq(Nat) /\ Len(Tail(s)) = Len(s) - 1
         /\ \A i \in 1..(Len(s) - 1) : Tail(s)[i] = s[i + 1]
BY HeadTailProperties, EmptySeq, LenProperties

\* The elements of a sequence that grows at its end or loses its first one.
LEMMA ElementsOfAppend ==
  ASSUME NEW s \in Seq(Nat), NEW n \in Nat
  PROVE  ToSet(Append(s, n)) = ToSet(s) \cup {n}
<1>1. DOMAIN Append(s, n) = 1..(Len(s) + 1) /\ DOMAIN s = 1..Len(s)
  BY AppendLine, LenProperties
<1> QED
  BY <1>1, AppendLine DEF ToSet

LEMMA ElementsOfTail ==
  ASSUME NEW s \in Seq(Nat), s # <<>>
  PROVE  ToSet(s) = {Head(s)} \cup ToSet(Tail(s))
<1>1. Len(s) \in Nat \ {0} /\ Head(s) = s[1]
  BY TailLines
<1>2. DOMAIN Tail(s) = 1..(Len(s) - 1) /\ DOMAIN s = 1..Len(s)
  BY TailLines, LenProperties
<1>3. \A i \in 2..Len(s) : i - 1 \in 1..(Len(s) - 1) /\ Tail(s)[i - 1] = s[i]
  BY <1>1, TailLines
<1>4. \A i \in 1..(Len(s) - 1) : i + 1 \in 1..Len(s) /\ Tail(s)[i] = s[i + 1]
  BY <1>1, TailLines
<1>5. ToSet(s) \subseteq {Head(s)} \cup ToSet(Tail(s))
  <2> SUFFICES ASSUME NEW i \in 1..Len(s) PROVE s[i] = Head(s) \/ s[i] \in ToSet(Tail(s))
    BY <1>2 DEF ToSet
  <2>1. CASE i = 1
    BY <1>1, <2>1
  <2>2. CASE i # 1
    <3>1. i - 1 \in DOMAIN Tail(s) /\ Tail(s)[i - 1] = s[i]
      BY <1>1, <1>2, <1>3, <2>2
    <3> QED
      BY <3>1 DEF ToSet
  <2> QED
    BY <2>1, <2>2
<1>6. {Head(s)} \cup ToSet(Tail(s)) \subseteq ToSet(s)
  BY <1>1, <1>2, <1>4 DEF ToSet
<1> QED
  BY <1>5, <1>6

\* A line later than all others keeps the order.
LEMMA AscendingAppend ==
  ASSUME NEW s \in Seq(Nat), NEW n \in Nat, Ascending(s), \A i \in 1..Len(s) : s[i] < n
  PROVE  Ascending(Append(s, n))
<1>1. Len(s) \in Nat /\ Len(Append(s, n)) = Len(s) + 1
  BY AppendLine
<1>2. \A i \in 1..(Len(s) + 1) : Append(s, n)[i] = IF i <= Len(s) THEN s[i] ELSE n
  BY <1>1, AppendLine
<1> QED
  <2> SUFFICES ASSUME NEW i \in 1..(Len(s) + 1), NEW j \in 1..(Len(s) + 1), i < j
               PROVE  Append(s, n)[i] < Append(s, n)[j]
    BY <1>1 DEF Ascending
  <2>1. i <= Len(s) /\ Append(s, n)[i] = s[i]
    BY <1>1, <1>2
  <2>2. CASE j <= Len(s)
    BY <1>1, <1>2, <2>1, <2>2 DEF Ascending
  <2>3. CASE j = Len(s) + 1
    BY <1>1, <1>2, <2>1, <2>3
  <2> QED
    BY <1>1, <2>2, <2>3

\* The elements of three sequences one after the other.
LEMMA ElementsOfConcat ==
  ASSUME NEW r \in Seq(Nat), NEW s \in Seq(Nat), NEW t \in Seq(Nat)
  PROVE  /\ r \o s \o t \in Seq(Nat)
         /\ \A i \in 1..Len(r \o s \o t) : (r \o s \o t)[i] \in ToSet(r) \cup ToSet(s) \cup ToSet(t)
<1>1. ASSUME NEW a \in Seq(Nat), NEW b \in Seq(Nat)
      PROVE  a \o b \in Seq(Nat) /\ \A i \in 1..Len(a \o b) : (a \o b)[i] \in ToSet(a) \cup ToSet(b)
  <2>1. DOMAIN a = 1..Len(a) /\ DOMAIN b = 1..Len(b) /\ Len(a) \in Nat /\ Len(b) \in Nat
    BY LenProperties
  <2>2. /\ a \o b \in Seq(Nat) /\ Len(a \o b) = Len(a) + Len(b)
        /\ \A i \in 1..(Len(a) + Len(b)) :
             (a \o b)[i] = IF i <= Len(a) THEN a[i] ELSE b[i - Len(a)]
    BY ConcatProperties
  <2> SUFFICES ASSUME NEW i \in 1..(Len(a) + Len(b)) PROVE (a \o b)[i] \in ToSet(a) \cup ToSet(b)
    BY <2>2
  <2>3. CASE i <= Len(a)
    <3>1. i \in DOMAIN a /\ (a \o b)[i] = a[i]
      BY <2>1, <2>2, <2>3
    <3> QED
      BY <3>1 DEF ToSet
  <2>4. CASE i > Len(a)
    <3>1. i - Len(a) \in DOMAIN b /\ (a \o b)[i] = b[i - Len(a)]
      BY <2>1, <2>2, <2>4
    <3> QED
      BY <3>1 DEF ToSet
  <2> QED
    BY <2>1, <2>3, <2>4
<1>2. ToSet(r \o s) \subseteq ToSet(r) \cup ToSet(s)
  <2>1. DOMAIN (r \o s) = 1..Len(r \o s)
    BY <1>1, LenProperties
  <2> QED
    BY <1>1, <2>1 DEF ToSet
<1> QED
  BY <1>1, <1>2

\* What the last of three sequences gets at its end is at the end of all three.
LEMMA ConcatGrows ==
  ASSUME NEW r \in Seq(Nat), NEW s \in Seq(Nat), NEW t \in Seq(Nat), NEW n \in Nat
  PROVE  r \o s \o Append(t, n) = Append(r \o s \o t, n)
BY AppendIsConcat, ConcatAssociative, ConcatProperties

\* The last one may hand its first element to the one before it.
LEMMA ConcatMoves ==
  ASSUME NEW r \in Seq(Nat), NEW s \in Seq(Nat), NEW t \in Seq(Nat), t # <<>>
  PROVE  r \o Append(s, Head(t)) \o Tail(t) = r \o s \o t
<1>1. t = <<Head(t)>> \o Tail(t)
  BY HeadTailProperties, SubSeqRecursiveFirst, SubSeqFull, TailIsSubSeq
<1>2. Head(t) \in Nat /\ Tail(t) \in Seq(Nat) /\ <<Head(t)>> \in Seq(Nat)
  BY HeadTailProperties
<1>3. r \o Append(s, Head(t)) = (r \o s) \o <<Head(t)>>
  BY <1>2, AppendIsConcat, ConcatAssociative
<1>4. ((r \o s) \o <<Head(t)>>) \o Tail(t) = (r \o s) \o (<<Head(t)>> \o Tail(t))
  BY <1>2, ConcatAssociative, ConcatProperties
<1> QED
  BY <1>1, <1>3, <1>4

\* The ring keeps the latest lines.
LEMMA KeepsTail ==
  ASSUME NEW s \in Seq(Nat), NEW n \in Nat,
         Len(s) = IF n < BufferLimit THEN n ELSE BufferLimit,
         \A i \in 1..Len(s) : s[i] = n - Len(s) + i
  PROVE  /\ Keep(s, n + 1) \in Seq(Nat)
         /\ Len(Keep(s, n + 1)) = IF n + 1 < BufferLimit THEN n + 1 ELSE BufferLimit
         /\ \A i \in 1..Len(Keep(s, n + 1)) : Keep(s, n + 1)[i] = n + 1 - Len(Keep(s, n + 1)) + i
<1> USE LimitAssumption
<1>1. CASE Len(s) >= BufferLimit
  <2> DEFINE t == Tail(s)
  <2>1. s # <<>> /\ Len(s) = BufferLimit /\ n >= BufferLimit
    BY <1>1, EmptySeq
  <2>2. /\ t \in Seq(Nat) /\ Len(t) = BufferLimit - 1
        /\ \A i \in 1..(BufferLimit - 1) : t[i] = s[i + 1]
    BY <2>1, TailLines
  <2>3. \A i \in 1..(BufferLimit - 1) : t[i] = n - BufferLimit + i + 1
    BY <2>1, <2>2
  <2>4. Keep(s, n + 1) = Append(t, n + 1)
    BY <1>1 DEF Keep
  <2> DEFINE k == Append(t, n + 1)
  <2> HIDE DEF t
  <2>5. /\ k \in Seq(Nat) /\ Len(k) = BufferLimit
        /\ \A i \in 1..(BufferLimit - 1) : k[i] = n - BufferLimit + i + 1
        /\ k[BufferLimit] = n + 1
    BY <2>2, <2>3, AppendLine
  <2> HIDE DEF k
  <2>6. ASSUME NEW i \in 1..BufferLimit PROVE k[i] = n + 1 - BufferLimit + i
    <3>1. CASE i = BufferLimit
      BY <2>5, <3>1
    <3>2. CASE i # BufferLimit
      BY <2>5, <3>2
    <3> QED
      BY <3>1, <3>2
  <2>7. Keep(s, n + 1) = k
    BY <2>4 DEF k
  <2>8. Len(Keep(s, n + 1)) = BufferLimit /\ ~(n + 1 < BufferLimit)
    BY <2>1, <2>5, <2>7
  <2>9. \A i \in 1..BufferLimit : Keep(s, n + 1)[i] = n + 1 - BufferLimit + i
    BY <2>6, <2>7
  <2> QED
    BY <2>5, <2>7, <2>8, <2>9
<1>2. CASE Len(s) < BufferLimit
  <2>1. Len(s) = n /\ Keep(s, n + 1) = Append(s, n + 1)
    BY <1>2 DEF Keep
  <2> QED
    BY <1>2, <2>1, AppendLine
<1> QED
  BY <1>1, <1>2, LenProperties

--------------------------------------------------------------------------------
\* What a step does to the lines of a connection

USE DEF scanVars, chanVars, viewVars

\* A new line goes to the end of what every registered connection gets, or to what
\* it missed.
LEMMA AppendLogView ==
  ASSUME TypeOK, AppendLog, NEW c \in Client
  PROVE  /\ Taken(c)' = Taken(c) \cup (IF c \in subs THEN {appended + 1} ELSE {})
         /\ Shown(c)' \in {Shown(c), Append(Shown(c), appended + 1)}
<1>1. /\ replay[c] \in Seq(Nat) /\ sent[c] \in Seq(Nat) /\ chan[c] \in Seq(Nat)
      /\ appended + 1 \in Nat /\ replay' = replay /\ sent' = sent
  BY DEF TypeOK, AppendLog
<1>2. CASE c \in subs /\ Len(chan[c]) < ChanCapacity
  <2>1. chan'[c] = Append(chan[c], appended + 1) /\ missed'[c] = missed[c]
    BY <1>2, LimitAssumption, LenProperties, <1>1 DEF AppendLog, Offer, TypeOK
  <2>2. Shown(c)' = Append(Shown(c), appended + 1)
    <3>1. replay[c] \o sent[c] \o Append(chan[c], appended + 1)
            = Append(replay[c] \o sent[c] \o chan[c], appended + 1)
      BY <1>1, ConcatGrows
    <3> QED
      BY <1>1, <2>1, <3>1 DEF Shown
  <2>3. ToSet(chan'[c]) = ToSet(chan[c]) \cup {appended + 1}
    BY <1>1, <2>1, ElementsOfAppend
  <2> QED
    BY <1>1, <1>2, <2>1, <2>2, <2>3 DEF Taken
<1>3. CASE c \in subs /\ ~(Len(chan[c]) < ChanCapacity)
  <2>1. chan'[c] = chan[c] /\ missed'[c] = missed[c] \cup {appended + 1}
    BY <1>3, LimitAssumption, LenProperties, <1>1 DEF AppendLog, Offer, TypeOK
  <2> QED
    BY <1>1, <1>3, <2>1 DEF Taken, Shown
<1>4. CASE c \notin subs
  <2>1. chan'[c] = chan[c] /\ missed'[c] = missed[c]
    BY <1>4 DEF AppendLog, TypeOK
  <2> QED
    BY <1>1, <1>4, <2>1 DEF Taken, Shown
<1> QED
  BY <1>2, <1>3, <1>4

\* Replay and Receive pass lines on in the order they are in.
LEMMA PassedOn ==
  ASSUME TypeOK, HandlerInv, NEW c \in Client, Replay(c) \/ Receive(c), NEW d \in Client
  PROVE  Taken(d)' = Taken(d) /\ Shown(d)' = Shown(d)
<1>1. \A e \in Client : replay[e] \in Seq(Nat) /\ sent[e] \in Seq(Nat) /\ chan[e] \in Seq(Nat)
  BY DEF TypeOK
<1>2. CASE d # c
  <2>1. replay'[d] = replay[d] /\ sent'[d] = sent[d] /\ chan'[d] = chan[d] /\ missed' = missed
    BY <1>2 DEF Replay, Receive, TypeOK
  <2> QED
    BY <2>1 DEF Taken, Shown
<1>3. CASE d = c /\ Replay(c)
  <2>1. /\ replay'[c] = <<>> /\ sent'[c] = replay[c] /\ sent[c] = <<>>
        /\ chan' = chan /\ missed' = missed
    BY <1>3 DEF Replay, ReplayOf, TypeOK, HandlerInv
  <2>2. replay[c] \o <<>> = replay[c] /\ <<>> \o replay[c] = replay[c]
    BY <1>1, ConcatEmptySeq
  <2> QED
    BY <1>3, <2>1, <2>2 DEF Taken, Shown
<1>4. CASE d = c /\ Receive(c)
  <2>1. /\ chan[c] # <<>> /\ sent'[c] = Append(sent[c], Head(chan[c]))
        /\ chan'[c] = Tail(chan[c]) /\ replay' = replay /\ missed' = missed
    BY <1>4 DEF Receive, TypeOK
  <2>2. Head(chan[c]) \in Nat
    BY <1>1, <2>1, TailLines
  <2>3. Shown(c)' = Shown(c)
    <3>1. replay[c] \o Append(sent[c], Head(chan[c])) \o Tail(chan[c])
            = replay[c] \o sent[c] \o chan[c]
      <4>1. /\ replay[c] \in Seq(Nat) /\ sent[c] \in Seq(Nat)
            /\ chan[c] \in Seq(Nat) /\ chan[c] # <<>>
        BY <1>1, <2>1
      <4> QED
        BY <4>1, ConcatMoves
    <3> QED
      BY <2>1, <3>1 DEF Shown
  <2>4. ToSet(Append(sent[c], Head(chan[c]))) = ToSet(sent[c]) \cup {Head(chan[c])}
    BY <1>1, <2>2, ElementsOfAppend
  <2>5. ToSet(chan[c]) = {Head(chan[c])} \cup ToSet(Tail(chan[c]))
    BY <1>1, <2>1, ElementsOfTail
  <2> QED
    BY <1>4, <2>1, <2>3, <2>4, <2>5 DEF Taken
<1> QED
  BY <1>2, <1>3, <1>4

\* A new connection starts with what the ring holds; the others see nothing of it.
LEMMA SubscribeView ==
  ASSUME TypeOK, HandlerInv, NEW c \in Client, Subscribe(c), NEW d \in Client
  PROVE  /\ d # c => Taken(d)' = Taken(d) /\ Shown(d)' = Shown(d)
         /\ Taken(c)' = ToSet(buf) /\ Shown(c)' = buf
<1>1. ASSUME d # c PROVE Taken(d)' = Taken(d) /\ Shown(d)' = Shown(d)
  <2>1. replay'[d] = replay[d] /\ sent' = sent /\ chan' = chan /\ missed' = missed
    BY <1>1 DEF Subscribe, TypeOK
  <2> QED
    BY <1>1, <2>1 DEF Taken, Shown
<1>2. /\ replay'[c] = buf /\ sent'[c] = <<>> /\ chan'[c] = <<>> /\ missed'[c] = {}
  BY DEF Subscribe, Snapshot, TypeOK, HandlerInv
<1>3. buf \o <<>> = buf /\ buf \in Seq(Nat) /\ ToSet(<<>>) = {}
  BY ConcatEmptySeq DEF TypeOK, ToSet
<1> QED
  BY <1>1, <1>2, <1>3 DEF Taken, Shown

\* The ring is a run of lines that ends with the latest.
LEMMA RingLines ==
  ASSUME TypeOK, BufferIsTail
  PROVE  /\ ToSet(buf) = (appended - Len(buf) + 1)..appended
         /\ Len(buf) \in Nat /\ Len(buf) <= appended /\ (appended > 0 => Len(buf) > 0)
         /\ Ascending(buf)
<1>1. /\ Len(buf) \in Nat /\ Len(buf) <= appended /\ (appended > 0 => Len(buf) > 0)
      /\ DOMAIN buf = 1..Len(buf) /\ appended \in Nat
  BY LimitAssumption, LineAssumption, LenProperties DEF TypeOK, BufferIsTail
<1>2. \A i \in 1..Len(buf) : buf[i] = appended - Len(buf) + i
  BY DEF BufferIsTail
<1>3. ASSUME NEW n \in (appended - Len(buf) + 1)..appended PROVE n \in ToSet(buf)
  <2>1. n - appended + Len(buf) \in DOMAIN buf /\ buf[n - appended + Len(buf)] = n
    BY <1>1, <1>2
  <2> QED
    BY <2>1 DEF ToSet
<1>4. ToSet(buf) \subseteq (appended - Len(buf) + 1)..appended
  BY <1>1, <1>2 DEF ToSet
<1>5. Ascending(buf)
  BY <1>1, <1>2 DEF Ascending
<1> QED
  BY <1>1, <1>3, <1>4, <1>5

--------------------------------------------------------------------------------
\* Steps

LEMMA NextTypes ==
  ASSUME TypeOK, BufferIsTail, Next
  PROVE  TypeOK' /\ BufferIsTail'
<1> USE LimitAssumption, LineAssumption DEF At, Goto
<1>1. CASE AppendLog
  <2>1. appended \in Nat /\ appended + 1 \in 1..MaxLines
    BY <1>1 DEF AppendLog, Line, TypeOK
  <2>2. buf' \in Seq(Nat) /\ BufferIsTail'
    <3> DEFINE k == Keep(buf, appended + 1)
    <3>1. /\ k \in Seq(Nat)
          /\ Len(k) = IF appended + 1 < BufferLimit THEN appended + 1 ELSE BufferLimit
          /\ \A i \in 1..Len(k) : k[i] = appended + 1 - Len(k) + i
      BY <2>1, KeepsTail DEF TypeOK, BufferIsTail
    <3>2. buf' = k /\ appended' = appended + 1
      BY <1>1 DEF AppendLog
    <3> HIDE DEF k
    <3>3. \A i \in 1..Len(k) : k[i] = (appended + 1) - Len(k) + i
      <4>1. Len(k) \in Nat
        BY <3>1, LenProperties
      <4> QED
        BY <2>1, <3>1, <4>1
    <3>4. BufferIsTail'
      BY <3>1, <3>2, <3>3 DEF BufferIsTail
    <3> QED
      BY <3>1, <3>2, <3>4
  <2>3. chan' \in [Client -> Seq(Nat)]
    <3>1. \A c \in Client : Offer(chan[c], appended + 1) \in Seq(Nat)
      BY <2>1, AppendLine DEF TypeOK, Offer
    <3> QED
      BY <1>1, <3>1 DEF AppendLog, TypeOK
  <2>4. missed' \in [Client -> SUBSET Nat]
    BY <1>1, <2>1 DEF AppendLog, TypeOK
  <2> QED
    BY <1>1, <2>1, <2>2, <2>3, <2>4 DEF AppendLog, TypeOK
<1>2. CASE SaveReport \/ FinishStep
  BY <1>2 DEF SaveReport, FinishStep, Finish, RefreshReportMeta, OpenAfterFinish,
              SubscribersAfterFinish, TypeOK, BufferIsTail
<1>3. ASSUME NEW c \in Client, Subscribe(c) \/ HandlerStep(c) \/ Leave(c)
      PROVE  TypeOK' /\ BufferIsTail'
  <2>1. BufferIsTail'
    BY <1>3 DEF Subscribe, HandlerStep, Leave, Replay, Receive, ReceiveClosed, SendStatus, BufferIsTail
  <2>2. CASE Receive(c)
    <3>1. Tail(chan[c]) \in Seq(Nat) /\ Append(sent[c], Head(chan[c])) \in Seq(Nat)
      BY <2>2, TailLines, AppendLine DEF Receive, TypeOK
    <3> QED
      BY <2>1, <2>2, <3>1 DEF Receive, TypeOK
  <2>3. CASE Replay(c)
    <3>1. <<>> \in Seq(Nat)
      BY EmptySeq
    <3> QED
      BY <2>1, <2>3, <3>1 DEF Replay, ReplayOf, TypeOK
  <2>4. CASE Subscribe(c) \/ ReceiveClosed(c) \/ Leave(c) \/ SendStatus(c)
    <3>1. CASE Subscribe(c)
      BY <2>1, <3>1 DEF Subscribe, Snapshot, TypeOK
    <3>2. CASE ReceiveClosed(c)
      BY <2>1, <3>2 DEF ReceiveClosed, TypeOK
    <3>3. CASE Leave(c)
      BY <2>1, <3>3 DEF Leave, TypeOK
    <3>4. CASE SendStatus(c)
      BY <2>1, <3>4 DEF SendStatus, TypeOK
    <3> QED
      BY <2>4, <3>1, <3>2, <3>3, <3>4
  <2> QED
    BY <1>3, <2>2, <2>3, <2>4 DEF HandlerStep
<1> QED
  BY <1>1, <1>2, <1>3 DEF Next

ControlInv == HandlerInv /\ NoSendOnClosed /\ StatusComesLast

\* Who is registered gets lines, and finish closes exactly these channels.
LEMMA NextControl ==
  ASSUME TypeOK, ControlInv, Next
  PROVE  ControlInv'
<1> USE DEF ControlInv, HandlerInv, NoSendOnClosed, StatusComesLast, TypeOK, At, Goto
<1>1. CASE AppendLog
  <2>1. \A c \in Client \ subs : chan'[c] = chan[c] /\ missed'[c] = missed[c]
    BY <1>1 DEF AppendLog
  <2> QED
    BY <1>1, <2>1 DEF AppendLog
<1>2. CASE SaveReport
  BY <1>2 DEF SaveReport
<1>3. CASE Finish
  BY <1>3 DEF Finish, OpenAfterFinish, SubscribersAfterFinish
<1>4. CASE RefreshReportMeta
  BY <1>4 DEF RefreshReportMeta
<1>5. ASSUME NEW c \in Client, Subscribe(c) PROVE ControlInv'
  BY <1>5 DEF Subscribe
<1>6. ASSUME NEW c \in Client, Replay(c) PROVE ControlInv'
  BY <1>6 DEF Replay
<1>7. ASSUME NEW c \in Client, Receive(c) PROVE ControlInv'
  BY <1>7 DEF Receive
<1>8. ASSUME NEW c \in Client, ReceiveClosed(c) PROVE ControlInv'
  BY <1>8 DEF ReceiveClosed, Drained
<1>9. ASSUME NEW c \in Client, Leave(c) PROVE ControlInv'
  BY <1>9 DEF Leave
<1>10. ASSUME NEW c \in Client, SendStatus(c) PROVE ControlInv'
  BY <1>10 DEF SendStatus
<1> QED
  BY <1>1, <1>2, <1>3, <1>4, <1>5, <1>6, <1>7, <1>8, <1>9, <1>10 DEF Next, FinishStep, HandlerStep

LineInv == LinesAreLogged /\ InOrder /\ Unbroken

\* A step that logs nothing, closes nothing and leaves the lines of every connection
\* alone keeps what is said of them.
LEMMA FrameLines ==
  ASSUME LineInv, TypeOK,
         UNCHANGED <<appended, sealed>>,
         (phase' = "running") <=> (phase = "running"),
         \A c \in Client : Taken(c)' = Taken(c) /\ Shown(c)' = Shown(c),
         \A c \in Client : at'[c] \notin {"connect", "gone"} => at[c] \notin {"connect", "gone"}
  PROVE  LineInv'
<1>1. LinesAreLogged'
  BY DEF LineInv, LinesAreLogged
<1>2. InOrder'
  BY DEF LineInv, InOrder
<1>3. Unbroken'
  BY DEF LineInv, Unbroken
<1> QED
  BY <1>1, <1>2, <1>3 DEF LineInv

\* A new line comes after all others and joins the run of whoever is registered.
LEMMA AppendLogLines ==
  ASSUME TypeOK, ControlInv, LineInv, AppendLog
  PROVE  LineInv'
<1> DEFINE n == appended + 1
<1>1. /\ appended' = n /\ appended \in Nat /\ sealed \in Nat
      /\ sealed' = sealed /\ phase' = phase /\ at' = at /\ subs' = subs
  BY LineAssumption DEF AppendLog, TypeOK
<1>2. \A c \in Client : Taken(c) \subseteq Nat /\ Shown(c) \in Seq(Nat)
  <2>1. ASSUME NEW c \in Client PROVE Taken(c) \subseteq Nat /\ Shown(c) \in Seq(Nat)
    BY ElementsOfConcat DEF TypeOK, Taken, Shown, LineInv, LinesAreLogged, ToSet
  <2> QED
    BY <2>1
<1>3. LinesAreLogged'
  BY <1>1, <1>2, AppendLogView DEF LineInv, LinesAreLogged
<1>4. InOrder'
  <2> SUFFICES ASSUME NEW c \in Client PROVE Ascending(Shown(c)')
    BY DEF InOrder
  <2>1. \A i \in 1..Len(Shown(c)) : Shown(c)[i] \in Taken(c)
    BY ElementsOfConcat DEF TypeOK, Taken, Shown
  <2>2. \A i \in 1..Len(Shown(c)) : Shown(c)[i] < n
    BY <1>1, <1>2, <2>1 DEF LineInv, LinesAreLogged
  <2>3. Ascending(Shown(c)) /\ Ascending(Append(Shown(c), n))
    BY <1>1, <1>2, <2>2, AscendingAppend DEF LineInv, InOrder
  <2> QED
    BY <2>3, AppendLogView
<1>5. Unbroken'
  <2> SUFFICES ASSUME NEW c \in Client, at[c] \notin {"connect", "gone"}
               PROVE  /\ Convex(Taken(c)')
                      /\ phase = "running" /\ n > 0 => n \in Taken(c)'
                      /\ phase # "running" /\ sealed > 0 => \E i \in Taken(c)' : i >= sealed
    BY <1>1 DEF Unbroken
  <2>1. /\ Convex(Taken(c))
        /\ phase = "running" /\ appended > 0 => appended \in Taken(c)
        /\ phase # "running" /\ sealed > 0 => \E i \in Taken(c) : i >= sealed
        /\ \A i \in Taken(c) : i \in Nat /\ 0 < i /\ i <= appended
    BY <1>2 DEF LineInv, LinesAreLogged, Unbroken
  <2>2. CASE c \in subs
    <3>1. phase = "running"
      BY <2>2 DEF ControlInv, HandlerInv, TypeOK, At
    <3>2. Taken(c)' = Taken(c) \cup {n}
      BY <2>2, AppendLogView
    <3>3. Convex(Taken(c) \cup {n})
      BY <1>1, <2>1, <3>1 DEF Convex
    <3> QED
      BY <3>1, <3>2, <3>3
  <2>3. CASE c \notin subs
    <3>1. Taken(c)' = Taken(c)
      BY <2>3, AppendLogView
    <3>2. phase # "running"
      BY <2>3 DEF ControlInv, HandlerInv, TypeOK, At
    <3> QED
      BY <2>1, <3>1, <3>2
  <2> QED
    BY <2>2, <2>3
<1> QED
  BY <1>3, <1>4, <1>5 DEF LineInv

\* A connection that comes gets the ring, which reaches up to the latest line.
LEMMA SubscribeLines ==
  ASSUME TypeOK, BufferIsTail, ControlInv, LineInv, NEW c \in Client, Subscribe(c)
  PROVE  LineInv'
<1>1. /\ appended' = appended /\ sealed' = sealed /\ phase' = phase
      /\ appended \in Nat /\ sealed \in Nat
      /\ \A d \in Client \ {c} : at'[d] = at[d]
  BY LineAssumption DEF Subscribe, Goto, TypeOK
<1>2. /\ Taken(c)' = (appended - Len(buf) + 1)..appended /\ Shown(c)' = buf
      /\ Len(buf) \in Nat /\ Len(buf) <= appended /\ (appended > 0 => Len(buf) > 0)
  BY RingLines, SubscribeView DEF ControlInv
<1>3. \A d \in Client \ {c} : Taken(d)' = Taken(d) /\ Shown(d)' = Shown(d)
  BY SubscribeView DEF ControlInv
<1>4. LinesAreLogged'
  BY <1>1, <1>2, <1>3 DEF LineInv, LinesAreLogged
<1>5. InOrder'
  BY <1>2, <1>3, RingLines DEF LineInv, InOrder
<1>6. Unbroken'
  <2>1. Convex(Taken(c)') /\ (appended > 0 => appended \in Taken(c)')
    BY <1>1, <1>2 DEF Convex
  <2> QED
    BY <1>1, <1>3, <2>1 DEF LineInv, LinesAreLogged, Unbroken
<1> QED
  BY <1>4, <1>5, <1>6 DEF LineInv

\* finish finds every registered connection with the latest line.
LEMMA FinishLines ==
  ASSUME TypeOK, LineInv, Finish
  PROVE  LineInv'
<1>1. /\ sealed' = appended /\ appended' = appended /\ at' = at /\ phase = "running"
      /\ phase' = "closed" /\ appended \in Nat
      /\ \A c \in Client : Taken(c)' = Taken(c) /\ Shown(c)' = Shown(c)
  BY LineAssumption DEF Finish, TypeOK, Taken, Shown
<1>2. LinesAreLogged' /\ InOrder'
  BY <1>1 DEF LineInv, LinesAreLogged, InOrder
<1>3. Unbroken'
  BY <1>1 DEF LineInv, Unbroken
<1> QED
  BY <1>2, <1>3 DEF LineInv

LEMMA NextLines ==
  ASSUME TypeOK, BufferIsTail, ControlInv, LineInv, Next
  PROVE  LineInv'
<1>1. CASE AppendLog
  BY <1>1, AppendLogLines
<1>2. CASE Finish
  BY <1>2, FinishLines
<1>3. CASE SaveReport \/ RefreshReportMeta
  BY <1>3, FrameLines DEF SaveReport, RefreshReportMeta, Taken, Shown
<1>4. ASSUME NEW c \in Client, Subscribe(c) PROVE LineInv'
  BY <1>4, SubscribeLines
<1>5. ASSUME NEW c \in Client, Replay(c) \/ Receive(c) PROVE LineInv'
  <2>1. \A d \in Client : Taken(d)' = Taken(d) /\ Shown(d)' = Shown(d)
    BY <1>5, PassedOn DEF ControlInv
  <2> QED
    BY <1>5, <2>1, FrameLines DEF Replay, Receive, Goto, TypeOK
<1>6. ASSUME NEW c \in Client, ReceiveClosed(c) \/ Leave(c) \/ SendStatus(c) PROVE LineInv'
  <2>1. \A d \in Client : Taken(d)' = Taken(d) /\ Shown(d)' = Shown(d)
    BY <1>6 DEF ReceiveClosed, Leave, SendStatus, Taken, Shown
  <2> QED
    BY <1>6, <2>1, FrameLines DEF ReceiveClosed, Leave, SendStatus, Goto, TypeOK
<1> QED
  BY <1>1, <1>2, <1>3, <1>4, <1>5, <1>6 DEF Next, FinishStep, HandlerStep

--------------------------------------------------------------------------------
\* Theorems

\* Every reachable state satisfies the inductive invariant, for any browsers, lines and
\* capacities.
THEOREM Invariance == Spec => []IInv
<1>1. Init => IInv
  <2> SUFFICES ASSUME Init PROVE IInv
    OBVIOUS
  <2>1. TypeOK
    <3>1. <<>> \in Seq(Nat)
      BY EmptySeq
    <3>2. 0 \in 0..MaxLines
      BY LineAssumption
    <3>3. /\ chan \in [Client -> Seq(Nat)] /\ replay \in [Client -> Seq(Nat)]
          /\ sent \in [Client -> Seq(Nat)] /\ buf \in Seq(Nat)
      BY <3>1 DEF Init
    <3> QED
      BY <3>2, <3>3 DEF Init, TypeOK, At
  <2>2. BufferIsTail
    BY LimitAssumption DEF Init, BufferIsTail
  <2>3. HandlerInv /\ NoSendOnClosed /\ StatusComesLast
    BY DEF Init, HandlerInv, NoSendOnClosed, StatusComesLast
  <2>4. \A c \in Client : Taken(c) = {} /\ Shown(c) = <<>>
    BY DEF Init, Taken, Shown, ToSet
  <2>5. LinesAreLogged /\ InOrder /\ Unbroken
    BY <2>4 DEF Init, LinesAreLogged, InOrder, Ascending, Unbroken
  <2> QED
    BY <2>1, <2>2, <2>3, <2>5 DEF IInv
<1>2. IInv /\ [Next]_vars => IInv'
  <2> SUFFICES ASSUME IInv, [Next]_vars PROVE IInv'
    OBVIOUS
  <2>1. CASE Next
    BY <2>1, NextTypes, NextControl, NextLines DEF IInv, ControlInv, LineInv
  <2>2. CASE UNCHANGED vars
    BY <2>2 DEF vars, IInv, TypeOK, BufferIsTail, HandlerInv, LinesAreLogged, InOrder, Unbroken,
                Shown, Taken, NoSendOnClosed, StatusComesLast
  <2> QED
    BY <2>1, <2>2
<1> QED
  BY <1>1, <1>2, PTL DEF Spec

\* A line is never sent to a closed channel, nor a channel closed twice (appendLog,
\* finish, unsubscribe).
THEOREM SendsAreSafe == Spec => []NoSendOnClosed
BY Invariance, PTL DEF IInv

\* The status event comes after every line the browser was still to get (handleEvents).
THEOREM StatusIsLast == Spec => []StatusComesLast
BY Invariance, PTL DEF IInv

\* Replay and live lines are one run in order, but for the lines a full channel did not
\* take (subscribe, appendLog, handleEvents).
THEOREM LogIsGapless == Spec => []NoSilentGap
<1>1. IInv => NoSilentGap
  <2> SUFFICES ASSUME IInv, NEW c \in Client
               PROVE  /\ \A i, j \in DOMAIN Shown(c) : i < j => Shown(c)[i] < Shown(c)[j]
                      /\ at[c] \in {"replay", "live", "status", "ended"} =>
                           /\ Convex(Taken(c))
                           /\ c \in subs /\ appended > 0 => appended \in Taken(c)
                           /\ phase # "running" /\ sealed > 0 => \E i \in Taken(c) : i >= sealed
    BY DEF NoSilentGap, Shown, Convex
  <2>1. DOMAIN Shown(c) = 1..Len(Shown(c))
    BY ElementsOfConcat, LenProperties DEF IInv, TypeOK, Shown
  <2>2. c \in subs => phase = "running"
    BY DEF IInv, TypeOK, HandlerInv, At
  <2> QED
    BY <2>1, <2>2 DEF IInv, InOrder, Ascending, Unbroken
<1> QED
  BY <1>1, Invariance, PTL
================================================================================
