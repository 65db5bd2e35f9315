------------------------------- MODULE ChatProofs ------------------------------
(* Theorems about the files of a conversation of Chat and about what is said to  *)
(* the model, for any number of Sends, of turns and tools in them, and of         *)
(* restarts. What a transcript means to the model is a fold: its two facts are    *)
(* proved by induction on a length, from the least natural number of a set.       *)
EXTENDS Chat, SequenceTheorems, FiniteSetTheorems, WellFoundedInduction, TLAPS

--------------------------------------------------------------------------------
\* The inductive invariant

Transcript == Seq(Stored)
Place == {"idle", "checked", "loop", "tools", "saving", "opened", "written", "returned"}
Idle == {"idle", "checked", "returned"}

TypeOK ==
  /\ file \in Inode \cup {None} /\ tmp \in Sender \cup {None}
  /\ content \in [Inode -> Transcript \cup {Empty, Torn}]
  /\ pc \in [Sender -> Place]
  /\ local \in [Sender -> Transcript]
  /\ turn \in [Sender -> Nat] /\ called \in [Sender -> Nat]
  /\ fd \in [Sender -> Sender \cup {None}]
  /\ acked \subseteq Sender /\ clashed \subseteq Sender

\* Until it opens the temporary file a Send has not used its own inode; while it
\* writes, it has one open.
InodeInv ==
  \A s \in Sender :
    /\ pc[s] \notin {"opened", "written", "returned"} => s \notin {file, tmp}
    /\ pc[s] \in {"opened", "written"} => fd[s] # None

\* The temporary file is another one than the conversation's, and the server
\* has done nothing before the conversation is created.
NamesInv ==
  /\ tmp # None => tmp # file
  /\ content[Created] = Empty =>
       /\ file = None /\ acked = {}
       /\ \A s \in Sender : pc[s] \in {"idle", "returned"}

\* A Send that overlaps no other works alone, on the temporary file it opened.
AloneInv ==
  \A s \in Sender : pc[s] \notin Idle /\ s \notin clashed =>
    /\ \A t \in Sender : pc[t] \notin Idle => t = s
    /\ pc[s] \in {"opened", "written"} => fd[s] = tmp
    /\ pc[s] = "opened" => content[tmp] = Empty
    /\ pc[s] = "written" => content[tmp] = local[s]

\* What an acknowledged Send left is in all that may still become the conversation:
\* the file, the temporary file, and the transcripts of the Sends at work.
KeptInv ==
  \A s \in acked :
    /\ pc[s] = "returned"
    /\ s \notin clashed =>
         /\ Readable(file) => IsPrefix(local[s], content[file])
         /\ Readable(tmp) => IsPrefix(local[s], content[tmp])
         /\ \A t \in Sender : pc[t] \notin Idle => IsPrefix(local[s], local[t])

IInv == TypeOK /\ InodeInv /\ NamesInv /\ AloneInv /\ KeptInv /\ FileIsWhole

--------------------------------------------------------------------------------
\* The inductive invariant: what is said to the model

Group == Seq(Stored) \ {<<>>}
Known(s) == pc[s] \notin {"idle", "checked"}

\* A message of a Send is found only after this Send has loaded the conversation, and
\* its own tool uses are those of its turns so far.
OriginInv ==
  /\ \A s \in Sender, i \in Inode : ~Known(s) /\ content[i] \notin {Empty, Torn} =>
       \A m \in ToSet(content[i]) : m.from[1] # s
  /\ \A s, t \in Sender : ~Known(s) /\ s # t => \A m \in ToSet(local[t]) : m.from[1] # s
  /\ \A s \in Sender : pc[s] \in {"loop", "tools"} =>
       \A m \in ToSet(local[s]) :
         m.role = "assistant_tool_use" /\ m.from[1] = s => m.from[2] <= turn[s]

\* Between two turns what is rebuilt is what was said, and the model speaks next.
Agrees(s) ==
  /\ local[s] # <<>> /\ Last(local[s]).role \in {"user", "tool_result"}
  /\ api[s] = BuildAPIMessages(local[s])

LoopInv == \A s \in Sender : pc[s] = "loop" => Agrees(s)

\* An answer that asks for n tools in this turn of s.
Asks(s, said, n) ==
  /\ Last(said).role = "assistant_tool_use"
  /\ \A i, j \in DOMAIN said : said[i] = said[j] => i = j
  /\ Ids(said, "assistant_tool_use") = {<<s, turn[s], k>> : k \in 1..n}
  /\ Ids(said, "tool_result") = {}

\* In the middle of a turn: what was said ends with the answer, and what is rebuilt
\* has the results so far besides.
Answered(s) == [k \in 1..called[s] |-> Result(s, turn[s], k)]
Asking(s) ==
  /\ api[s] # <<>> /\ PairsUp(Front(api[s]))
  /\ Cardinality(Uses(s)) \in Nat /\ called[s] < Cardinality(Uses(s))
  /\ Uses(s) = {Use(s, turn[s], k) : k \in 1..Cardinality(Uses(s))}
  /\ Asks(s, Last(api[s]), Cardinality(Uses(s)))
  /\ BuildAPIMessages(local[s]) = IF called[s] = 0 THEN api[s] ELSE Append(api[s], Answered(s))

AskInv == \A s \in Sender : pc[s] = "tools" => Asking(s)

\* What is stored, or is to be, pairs up.
PairInv ==
  /\ \A i \in Inode : content[i] \notin {Empty, Torn} => PairsUp(BuildAPIMessages(content[i]))
  /\ \A s \in Sender : pc[s] \in {"loop", "saving", "opened", "written"} =>
       PairsUp(BuildAPIMessages(local[s]))

SpeechInv ==
  /\ api \in [Sender -> Seq(Group)]
  /\ OriginInv /\ LoopInv /\ AskInv /\ PairInv

--------------------------------------------------------------------------------
\* Lemmas on transcripts

LEMMA PrefixMeans ==
  ASSUME NEW a \in Transcript, NEW b \in Transcript
  PROVE  IsPrefix(a, b) <=> /\ Len(a) <= Len(b)
                            /\ \A i \in 1..Len(a) : a[i] = b[i]
<1>1. Len(a) \in Nat /\ Len(b) \in Nat
  BY LenProperties DEF Transcript
<1>2. SubSeq(a, 1, Len(a)) = a
  BY SubSeqFull DEF Transcript
<1>3. ASSUME Len(a) <= Len(b)
      PROVE  /\ SubSeq(b, 1, Len(a)) \in Seq(Stored)
             /\ Len(SubSeq(b, 1, Len(a))) = Len(a)
             /\ \A i \in 1..Len(a) : SubSeq(b, 1, Len(a))[i] = b[i]
  <2>1. \A i \in 1..Len(a) : b[i] \in Stored
    BY <1>1, <1>3, ElementOfSeq DEF Transcript
  <2> QED
    BY <1>1, <2>1, SubSeqProperties
<1>4. ASSUME Len(a) <= Len(b), \A i \in 1..Len(a) : a[i] = b[i]
      PROVE  SubSeq(b, 1, Len(a)) = a
  BY <1>3, <1>4, SeqEqual DEF Transcript
<1> QED
  BY <1>2, <1>3, <1>4 DEF IsPrefix

LEMMA PrefixSelf == \A a \in Transcript : IsPrefix(a, a)
BY PrefixMeans, LenProperties DEF Transcript

LEMMA PrefixOfConcat ==
  ASSUME NEW a \in Transcript, NEW b \in Transcript, NEW c \in Transcript, IsPrefix(a, b)
  PROVE  b \o c \in Transcript /\ IsPrefix(a, b \o c)
<1>1. Len(a) \in Nat /\ Len(b) \in Nat /\ Len(c) \in Nat
  BY LenProperties DEF Transcript
<1>2. /\ b \o c \in Transcript /\ Len(b \o c) = Len(b) + Len(c)
      /\ \A i \in 1..Len(b) : (b \o c)[i] = b[i]
  BY <1>1, ConcatProperties DEF Transcript
<1>3. Len(a) <= Len(b) /\ \A i \in 1..Len(a) : a[i] = b[i]
  BY PrefixMeans
<1>4. Len(a) <= Len(b \o c) /\ \A i \in 1..Len(a) : a[i] = (b \o c)[i]
  BY <1>1, <1>2, <1>3
<1> QED
  BY <1>2, <1>4, PrefixMeans

LEMMA PrefixOfAppend ==
  ASSUME NEW a \in Transcript, NEW b \in Transcript, NEW m \in Stored, IsPrefix(a, b)
  PROVE  Append(b, m) \in Transcript /\ IsPrefix(a, Append(b, m))
<1>1. Append(b, m) = b \o <<m>> /\ <<m>> \in Transcript
  BY AppendIsConcat DEF Transcript
<1> QED
  BY <1>1, PrefixOfConcat

\* What a Send adds to its transcript.
LEMMA AnswerIsStored ==
  ASSUME NEW s \in Sender, NEW i \in Nat, NEW a \in Answer
  PROVE  AnswerText(s, i, a) \o AnswerUses(s, i, a) \in Transcript
<1>1. a.tools \in Nat
  BY ChatAssumption DEF Answer
<1>2. \A k \in Nat : Text(s, i) \in Stored /\ Use(s, i, k) \in Stored
  BY DEF Text, Use, Message, Stored, Role
<1>3. AnswerText(s, i, a) \in Transcript
  BY <1>2, EmptySeq DEF AnswerText, Transcript
<1>4. AnswerUses(s, i, a) \in Transcript
  BY <1>1, <1>2, IsASeq DEF AnswerUses, Transcript
<1> QED
  BY <1>3, <1>4, ConcatProperties DEF Transcript

\* A file that holds a transcript can be read, and only such a one.
LEMMA ReadableMeans ==
  ASSUME TypeOK, NEW i \in Inode \cup {None}
  PROVE  /\ Readable(i) <=> i \in Inode /\ content[i] \in Transcript
         /\ None \notin Inode
BY FileAssumption, ChatAssumption DEF Readable, TypeOK, Inode, Transcript

--------------------------------------------------------------------------------
\* Steps

\* A step of a Send that touches no file: its transcript grows at most, and it does
\* not come nearer to its file than "saving".
LEMMA Moves ==
  ASSUME IInv, NEW s \in Sender,
         UNCHANGED <<fileVars, fd, acked, clashed>>,
         pc[s] # "returned", pc' = [pc EXCEPT ![s] = pc'[s]], pc'[s] \in Place,
         \/ pc'[s] = "returned"
         \/ pc[s] \notin {"opened", "written"} /\ pc'[s] \notin {"opened", "written"},
         pc'[s] \notin Idle => pc[s] \notin Idle,
         pc'[s] = "checked" => content[Created] # Empty,
         local' \in [Sender -> Transcript],
         \A t \in Sender : t # s => local'[t] = local[t],
         \A a \in Transcript : IsPrefix(a, local[s]) => IsPrefix(a, local'[s]),
         turn' \in [Sender -> Nat], called' \in [Sender -> Nat]
  PROVE  IInv'
<1>1. TypeOK'
  BY DEF IInv, TypeOK, fileVars
<1>2. \A t \in Sender : t # s => pc'[t] = pc[t]
  BY DEF IInv, TypeOK
<1>3. InodeInv'
  BY <1>2 DEF IInv, InodeInv, fileVars
<1>4. NamesInv'
  BY <1>2 DEF IInv, NamesInv, fileVars, Idle
<1>5. AloneInv'
  BY <1>2 DEF IInv, AloneInv, fileVars, Idle
<1>6. KeptInv'
  <2> SUFFICES ASSUME NEW u \in acked
               PROVE  /\ pc'[u] = "returned"
                      /\ u \notin clashed =>
                           /\ Readable(file) => IsPrefix(local'[u], content[file])
                           /\ Readable(tmp) => IsPrefix(local'[u], content[tmp])
                           /\ \A t \in Sender : pc'[t] \notin Idle => IsPrefix(local'[u], local'[t])
    BY DEF KeptInv, fileVars, Readable
  <2>1. u \in Sender /\ u # s /\ pc[u] = "returned" /\ local'[u] = local[u] /\ local[u] \in Transcript
    BY DEF IInv, TypeOK, KeptInv
  <2>2. ASSUME u \notin clashed, NEW t \in Sender, pc'[t] \notin Idle
        PROVE  IsPrefix(local[u], local'[t])
    BY <1>2, <2>1, <2>2 DEF IInv, KeptInv
  <2> QED
    BY <1>2, <2>1, <2>2 DEF IInv, KeptInv
<1>7. FileIsWhole'
  BY DEF IInv, FileIsWhole, fileVars, Readable
<1> QED
  BY <1>1, <1>3, <1>4, <1>5, <1>6, <1>7 DEF IInv

\* The steps that Moves covers.
LEMMA MovingSteps ==
  ASSUME IInv, NEW s \in Sender,
         \/ StartMessage(s) \/ LoadFails(s) \/ SendFails(s) \/ Respond(s) \/ CallTool(s)
         \/ OpenFails(s) \/ RenameFails(s)
  PROVE  IInv'
<1>1. CASE StartMessage(s)
  <2>1. content[Created] # Empty
    BY <1>1 DEF StartMessage, Readable, IInv, NamesInv
  <2> QED
    BY <1>1, <2>1, Moves DEF StartMessage, Goto, fileVars, IInv, TypeOK, Idle, Place
<1>2. CASE LoadFails(s) \/ SendFails(s) \/ OpenFails(s) \/ RenameFails(s)
  BY <1>2, Moves DEF LoadFails, SendFails, OpenFails, RenameFails, Return, Goto, fileVars, IInv,
                     TypeOK, Idle, Place
<1>3. CASE Respond(s)
  <2>1. PICK a \in Answer : local' = [local EXCEPT ![s] = @ \o
                              (AnswerText(s, turn[s] + 1, a) \o AnswerUses(s, turn[s] + 1, a))]
    BY <1>3 DEF Respond
  <2>2. AnswerText(s, turn[s] + 1, a) \o AnswerUses(s, turn[s] + 1, a) \in Transcript
    BY AnswerIsStored DEF IInv, TypeOK
  <2>3. local[s] \in Transcript /\ local \in [Sender -> Transcript]
    BY DEF IInv, TypeOK
  <2>4. /\ local' \in [Sender -> Transcript]
        /\ \A t \in Sender : t # s => local'[t] = local[t]
        /\ \A b \in Transcript : IsPrefix(b, local[s]) => IsPrefix(b, local'[s])
    BY <2>1, <2>2, <2>3, PrefixOfConcat, PrefixSelf
  <2>5. /\ turn' \in [Sender -> Nat] /\ called' \in [Sender -> Nat]
        /\ pc[s] = "loop" /\ pc'[s] \in {"saving", "tools"} /\ pc' = [pc EXCEPT ![s] = pc'[s]]
        /\ UNCHANGED <<fileVars, fd, acked, clashed>>
    BY <1>3 DEF Respond, Goto, IInv, TypeOK
  <2> QED
    BY <2>4, <2>5, Moves DEF Idle, Place
<1>4. CASE CallTool(s)
  <2>1. Result(s, turn[s], called[s] + 1) \in Stored
    BY DEF Result, Message, Stored, Role, IInv, TypeOK
  <2>2. local[s] \in Transcript /\ local \in [Sender -> Transcript]
    BY DEF IInv, TypeOK
  <2>3. local' = [local EXCEPT ![s] = Append(@, Result(s, turn[s], called[s] + 1))]
    BY <1>4 DEF CallTool, WithResult
  <2>4. /\ local' \in [Sender -> Transcript]
        /\ \A t \in Sender : t # s => local'[t] = local[t]
        /\ \A b \in Transcript : IsPrefix(b, local[s]) => IsPrefix(b, local'[s])
    BY <2>1, <2>2, <2>3, PrefixOfAppend, PrefixSelf
  <2>5. /\ turn' \in [Sender -> Nat] /\ called' \in [Sender -> Nat]
        /\ pc[s] = "tools" /\ pc'[s] \in {"tools", "loop", "saving"}
        /\ pc' = [pc EXCEPT ![s] = pc'[s]]
        /\ UNCHANGED <<fileVars, fd, acked, clashed>>
    BY <1>4 DEF CallTool, AfterTurn, Goto, IInv, TypeOK
  <2> QED
    BY <2>4, <2>5, Moves DEF Idle, Place
<1> QED
  BY <1>1, <1>2, <1>3, <1>4

\* What a Send loads continues what every acknowledged one left.
LEMMA LoadStep ==
  ASSUME IInv, NEW s \in Sender, Load(s)
  PROVE  IInv'
<1>1. /\ pc[s] = "checked" /\ pc' = [pc EXCEPT ![s] = "loop"]
      /\ local' = [local EXCEPT ![s] = Append(content[file], UserMessage(s))]
      /\ clashed' = IF Active = {} THEN clashed ELSE clashed \cup Active \cup {s}
      /\ UNCHANGED <<fileVars, fd, acked, turn, called>> /\ Readable(file)
  BY DEF Load, Opening, Goto
<1>2. file \in Inode /\ content[file] \in Transcript
  BY <1>1, ReadableMeans DEF IInv, TypeOK
<1>3. UserMessage(s) \in Stored
  BY DEF UserMessage, Message, Stored, Role
<1>4. /\ Append(content[file], UserMessage(s)) \in Transcript
      /\ \A a \in Transcript : IsPrefix(a, content[file]) =>
                             IsPrefix(a, Append(content[file], UserMessage(s)))
  BY <1>2, <1>3, PrefixOfAppend, PrefixSelf
<1>5. /\ clashed' \in SUBSET Sender /\ clashed \subseteq clashed'
      /\ \A t \in Sender : pc[t] \notin Idle => {s, t} \subseteq clashed'
  BY <1>1 DEF Active, Idle, IInv, TypeOK
<1>6. TypeOK'
  BY <1>1, <1>4, <1>5 DEF IInv, TypeOK, Place, fileVars
<1>7. InodeInv' /\ NamesInv'
  BY <1>1 DEF IInv, TypeOK, InodeInv, NamesInv, fileVars, Readable
<1>8. AloneInv'
  BY <1>1, <1>5 DEF IInv, TypeOK, AloneInv, Idle, fileVars
<1>9. KeptInv'
  <2> SUFFICES ASSUME NEW u \in acked
               PROVE  /\ pc'[u] = "returned"
                      /\ u \notin clashed' =>
                           /\ Readable(file) => IsPrefix(local'[u], content[file])
                           /\ Readable(tmp) => IsPrefix(local'[u], content[tmp])
                           /\ \A t \in Sender : pc'[t] \notin Idle => IsPrefix(local'[u], local'[t])
    BY <1>1 DEF KeptInv, fileVars, Readable
  <2>1. u \in Sender /\ u # s /\ pc[u] = "returned" /\ local'[u] = local[u] /\ local[u] \in Transcript
    BY <1>1 DEF IInv, TypeOK, KeptInv
  <2>2. ASSUME u \notin clashed', NEW t \in Sender, pc'[t] \notin Idle
        PROVE  IsPrefix(local[u], local'[t])
    BY <1>1, <1>4, <1>5, <2>1, <2>2 DEF IInv, TypeOK, KeptInv
  <2> QED
    BY <1>1, <1>5, <2>1, <2>2 DEF IInv, TypeOK, KeptInv
<1>10. FileIsWhole'
  BY <1>1 DEF FileIsWhole, fileVars, Readable
<1> QED
  BY <1>6, <1>7, <1>8, <1>9, <1>10 DEF IInv

LEMMA OpenStep ==
  ASSUME IInv, NEW s \in Sender, OpenTmp(s)
  PROVE  IInv'
<1> DEFINE i == TmpOf(s)
<1>1. /\ i \in Sender /\ i # file /\ i # None /\ i # Created
      /\ pc[s] = "saving" /\ pc' = [pc EXCEPT ![s] = "opened"]
      /\ tmp' = i /\ fd' = [fd EXCEPT ![s] = i] /\ content' = [content EXCEPT ![i] = Empty]
      /\ UNCHANGED <<file, local, turn, called, acked, clashed>>
  BY ChatAssumption, FileAssumption DEF OpenTmp, TmpOf, Goto, IInv, TypeOK, InodeInv, NamesInv
<1>2. \A t \in Sender : pc[t] \notin {"opened", "written", "returned"} /\ t # s => t # i
  BY DEF TmpOf, IInv, InodeInv
<1> HIDE DEF i
<1>3. TypeOK'
  BY <1>1 DEF IInv, TypeOK, Place, Inode
<1>4. InodeInv' /\ NamesInv'
  BY <1>1, <1>2 DEF IInv, TypeOK, InodeInv, NamesInv, Inode
<1>5. AloneInv'
  BY <1>1 DEF IInv, TypeOK, AloneInv, Idle, Inode
<1>6. ~Readable(tmp)' /\ (Readable(file)' <=> Readable(file)) /\ (file # None => content'[file] = content[file])
  BY <1>1 DEF Readable, IInv, TypeOK, Inode
<1>7. KeptInv'
  BY <1>1, <1>6 DEF IInv, TypeOK, KeptInv, Idle, Readable
<1>8. FileIsWhole'
  BY <1>1, <1>6 DEF IInv, FileIsWhole
<1> QED
  BY <1>3, <1>4, <1>5, <1>7, <1>8 DEF IInv

\* A Send writes its whole transcript, or leaves its file truncated or torn.
LEMMA WriteStep ==
  ASSUME IInv, NEW s \in Sender, WriteTmp(s) \/ WriteFails(s)
  PROVE  IInv'
<1>1. /\ pc[s] = "opened" /\ fd[s] \in Sender /\ fd[s] # Created
      /\ UNCHANGED <<file, tmp, local, turn, called, fd, acked, clashed>>
  BY FileAssumption DEF WriteTmp, WriteFails, Return, IInv, TypeOK, InodeInv
<1>2. PICK data \in {local[s], Torn, content[fd[s]]} :
        /\ content' = [content EXCEPT ![fd[s]] = data]
        /\ \/ /\ pc' = [pc EXCEPT ![s] = "written"]
              /\ data \in {local[s], Torn}
              /\ content[fd[s]] = Empty => data = local[s]
           \/ /\ pc' = [pc EXCEPT ![s] = "returned"]
              /\ data \in {content[fd[s]], Torn}
  BY DEF WriteTmp, WriteFails, Overwritten, Return, Goto
<1>3. TypeOK'
  BY <1>1, <1>2 DEF IInv, TypeOK, Place, Inode
<1>4. InodeInv' /\ NamesInv'
  BY <1>1, <1>2 DEF IInv, TypeOK, InodeInv, NamesInv
<1>5. AloneInv'
  BY <1>1, <1>2 DEF IInv, TypeOK, AloneInv, Idle, InodeInv, Inode
<1>6. KeptInv'
  <2> SUFFICES ASSUME NEW u \in acked
               PROVE  /\ pc'[u] = "returned"
                      /\ u \notin clashed =>
                           /\ Readable(file)' => IsPrefix(local[u], content'[file])
                           /\ Readable(tmp)' => IsPrefix(local[u], content'[tmp])
                           /\ \A t \in Sender : pc'[t] \notin Idle => IsPrefix(local[u], local[t])
    BY <1>1 DEF KeptInv
  <2>1. pc'[u] = "returned" /\ \A t \in Sender : pc'[t] \notin Idle => pc[t] \notin Idle
    BY <1>1, <1>2 DEF IInv, TypeOK, KeptInv, Idle
  <2>2. ASSUME u \notin clashed, NEW i \in {file, tmp}, Readable(i)'
        PROVE  IsPrefix(local[u], content'[i])
    <3>1. CASE i # fd[s] \/ data = content[fd[s]]
      <4>1. content'[i] = content[i] /\ Readable(i)
        BY <1>1, <1>2, <2>2, <3>1 DEF Readable, IInv, TypeOK, Inode
      <4> QED
        BY <2>2, <4>1 DEF IInv, KeptInv
    <3>2. CASE i = fd[s] /\ data = local[s]
      BY <1>1, <1>2, <2>2, <3>2 DEF IInv, TypeOK, KeptInv, Idle, Inode
    <3>3. CASE i = fd[s] /\ data = Torn
      BY <1>1, <1>2, <2>2, <3>3 DEF Readable, IInv, TypeOK, Inode
    <3> QED
      BY <1>2, <3>1, <3>2, <3>3
  <2>3. ASSUME u \notin clashed, NEW t \in Sender, pc'[t] \notin Idle
        PROVE  IsPrefix(local[u], local[t])
    BY <2>1, <2>3 DEF IInv, KeptInv
  <2>4. \A i \in {file, tmp} : Readable(i)' <=> i # None /\ content'[i] \notin {Empty, Torn}
    BY DEF Readable
  <2> QED
    BY <1>1, <2>1, <2>2, <2>3, <2>4 DEF Readable
<1>7. FileIsWhole'
  <2> SUFFICES ASSUME clashed = {}, file # None
               PROVE  Readable(file)'
    BY <1>1 DEF FileIsWhole
  <2>1. fd[s] = tmp /\ tmp # file
    BY <1>1, FileAssumption, ChatAssumption DEF IInv, AloneInv, NamesInv, Idle
  <2> QED
    BY <1>1, <1>2, <2>1 DEF IInv, TypeOK, FileIsWhole, Readable, Inode
<1> QED
  BY <1>3, <1>4, <1>5, <1>6, <1>7 DEF IInv

\* A Send that overlapped no other makes its own transcript the conversation.
LEMMA RenameStep ==
  ASSUME IInv, NEW s \in Sender, Rename(s)
  PROVE  IInv'
<1>1. /\ pc[s] = "written" /\ pc' = [pc EXCEPT ![s] = "returned"] /\ tmp \in Sender
      /\ file' = tmp /\ tmp' = None /\ acked' = acked \cup {s}
      /\ UNCHANGED <<content, local, turn, called, fd, clashed>>
  BY DEF Rename, Goto, IInv, TypeOK
<1>2. s \notin clashed =>
        content[tmp] = local[s] /\ \A t \in Sender : pc[t] \notin Idle => t = s
  BY <1>1 DEF IInv, AloneInv, Idle
<1>3. tmp \in Inode /\ (Readable(file)' <=> Readable(tmp)) /\ ~Readable(tmp)'
  BY <1>1 DEF Readable, Inode
<1>4. TypeOK'
  BY <1>1, <1>3 DEF IInv, TypeOK, Place
<1>5. InodeInv' /\ NamesInv'
  BY <1>1, ChatAssumption DEF IInv, TypeOK, InodeInv, NamesInv
<1>6. AloneInv'
  BY <1>1 DEF IInv, TypeOK, AloneInv, Idle
<1>7. KeptInv'
  <2> SUFFICES ASSUME NEW u \in acked'
               PROVE  /\ pc'[u] = "returned"
                      /\ u \notin clashed =>
                           /\ Readable(tmp) => IsPrefix(local[u], content[tmp])
                           /\ \A t \in Sender : pc'[t] \notin Idle => IsPrefix(local[u], local[t])
    BY <1>1, <1>3 DEF KeptInv
  <2>1. CASE u = s
    BY <1>1, <1>2, <2>1, PrefixSelf DEF IInv, TypeOK, Idle
  <2>2. CASE u # s
    BY <1>1, <2>2 DEF IInv, TypeOK, KeptInv, Idle
  <2> QED
    BY <2>1, <2>2
<1>8. FileIsWhole'
  <2> SUFFICES ASSUME clashed = {} PROVE Readable(tmp)
    BY <1>1, <1>3 DEF FileIsWhole
  <2>1. tmp \in Inode /\ content[tmp] \in Transcript
    BY <1>1, <1>2, <1>3 DEF IInv, TypeOK
  <2> QED
    BY <2>1, ReadableMeans DEF IInv
<1> QED
  BY <1>4, <1>5, <1>6, <1>7, <1>8 DEF IInv

LEMMA CreateStep ==
  ASSUME IInv, CreateConversation
  PROVE  IInv'
<1>1. /\ content[Created] = Empty /\ content' = [content EXCEPT ![Created] = <<>>]
      /\ file' = Created
      /\ UNCHANGED <<tmp, pc, local, turn, called, fd, acked, clashed>>
  BY DEF CreateConversation, sendVars
<1>2. /\ acked = {} /\ \A s \in Sender : pc[s] \in Idle
      /\ tmp # Created /\ Created \in Inode /\ Created \notin Sender
  BY <1>1, FileAssumption DEF IInv, NamesInv, TypeOK, Inode, Idle
<1>3. <<>> \in Transcript /\ <<>> \notin {Empty, Torn}
  BY EmptySeq, FileAssumption DEF Transcript
<1>4. TypeOK'
  BY <1>1, <1>2, <1>3 DEF IInv, TypeOK
<1>5. InodeInv' /\ NamesInv'
  BY <1>1, <1>2, <1>3 DEF IInv, TypeOK, InodeInv, NamesInv
<1>6. AloneInv' /\ KeptInv'
  BY <1>1, <1>2 DEF AloneInv, KeptInv
<1>7. FileIsWhole'
  BY <1>1, <1>2, <1>3, FileAssumption DEF IInv, TypeOK, FileIsWhole, Readable
<1> QED
  BY <1>4, <1>5, <1>6, <1>7 DEF IInv

\* No Send is at work after a restart; what it left of the files stays.
LEMMA RestartStep ==
  ASSUME IInv, Restart
  PROVE  IInv'
<1>1. /\ pc' = [s \in Sender |-> IF pc[s] = "idle" THEN "idle" ELSE "returned"]
      /\ UNCHANGED <<fileVars, local, turn, called, fd, acked, clashed>>
  BY DEF Restart
<1>2. TypeOK'
  BY <1>1 DEF IInv, TypeOK, Place, fileVars
<1>3. InodeInv' /\ NamesInv'
  BY <1>1 DEF IInv, TypeOK, InodeInv, NamesInv, fileVars
<1>4. AloneInv'
  BY <1>1 DEF AloneInv, Idle
<1>5. KeptInv' /\ FileIsWhole'
  BY <1>1 DEF IInv, TypeOK, KeptInv, FileIsWhole, Readable, Idle, fileVars
<1> QED
  BY <1>2, <1>3, <1>4, <1>5 DEF IInv

\* The configuration, and a Delete between its two steps, are no part of the invariant.
LEMMA OtherSteps ==
  ASSUME IInv, SetConfig \/ DeleteStart \/ DeleteConversation \/ UNCHANGED vars
  PROVE  IInv'
<1>1. /\ file' \in {file, None}
      /\ UNCHANGED <<tmp, content, pc, local, turn, called, fd, acked, clashed>>
  BY DEF SetConfig, DeleteStart, DeleteConversation, vars, fileVars, sendVars
<1>2. TypeOK' /\ InodeInv' /\ NamesInv' /\ AloneInv'
  BY <1>1, ChatAssumption DEF IInv, TypeOK, InodeInv, NamesInv, AloneInv
<1>3. KeptInv' /\ FileIsWhole'
  BY <1>1 DEF IInv, KeptInv, FileIsWhole, Readable
<1> QED
  BY <1>2, <1>3 DEF IInv

--------------------------------------------------------------------------------
\* What a transcript means to the model: two facts about a fold

\* A nonempty set of naturals has a least element: this is what induction rests on.
LEMMA LeastNatural ==
  ASSUME NEW T \in SUBSET Nat, T # {}
  PROVE  \E n \in T : \A m \in T : n <= m
<1> DEFINE R == OpToRel(<, Nat)
<1>1. IsWellFoundedOn(R, Nat)
  BY NatLessThanWellFounded
<1>2. \A x, y \in Nat : y < x => <<y, x>> \in R
  BY DEF OpToRel
<1> HIDE DEF R
<1>3. PICK x \in T : \A y \in T : ~(<<y, x>> \in R)
  BY <1>1, WFMin
<1>4. ASSUME NEW y \in T
      PROVE  x <= y
  <2>1. ~(y < x)
    BY <1>2, <1>3
  <2> QED
    BY <2>1
<1> QED
  BY <1>4

\* The fold behind BuildAPIMessages, one message at a time.
Building(g, D, msgs) ==
  g = [s \in SUBSET D |-> IF s = {} THEN <<>> ELSE Put(g[s \ {Max(s)}], msgs[Max(s)])]

LEMMA MaxOfPart ==
  ASSUME NEW m \in Nat, NEW s \in SUBSET (1..m), m \in s
  PROVE  Max(s) = m
<1>1. \A y \in s : m >= y
  OBVIOUS
<1>2. \A x \in s : (\A y \in s : x >= y) => x = m
  OBVIOUS
<1> QED
  BY <1>1, <1>2 DEF Max

\* The step of a construction: how one more message is built.
LEMMA BuildingGoesOn ==
  ASSUME NEW m \in Nat \ {0}, NEW msgs, NEW g, Building(g, 1..(m - 1), msgs)
  PROVE  Building([s \in SUBSET (1..m) |->
                     IF m \in s THEN Put(g[s \ {m}], msgs[m]) ELSE g[s]], 1..m, msgs)
<1> DEFINE h == [s \in SUBSET (1..m) |-> IF m \in s THEN Put(g[s \ {m}], msgs[m]) ELSE g[s]]
           W == [s \in SUBSET (1..m) |->
                   IF s = {} THEN <<>> ELSE Put(h[s \ {Max(s)}], msgs[Max(s)])]
<1>1. ASSUME NEW s \in SUBSET (1..m)
      PROVE  h[s] = W[s]
  <2>1. CASE m \in s
    <3>1. Max(s) = m
      BY <2>1, MaxOfPart
    <3>2. s \ {m} \in SUBSET (1..m) /\ m \notin s \ {m}
      OBVIOUS
    <3>3. h[s \ {m}] = g[s \ {m}]
      BY <3>2
    <3> QED
      BY <2>1, <3>1, <3>3
  <2>2. CASE m \notin s
    <3>1. s \in SUBSET (1..(m - 1)) /\ h[s] = g[s]
      BY <2>2
    <3>2. g[s] = IF s = {} THEN <<>> ELSE Put(g[s \ {Max(s)}], msgs[Max(s)])
      BY <3>1 DEF Building
    <3>3. s \ {Max(s)} \in SUBSET (1..m) /\ m \notin s \ {Max(s)}
      BY <2>2
    <3>4. h[s \ {Max(s)}] = g[s \ {Max(s)}]
      BY <3>3
    <3> QED
      BY <3>1, <3>2, <3>4
  <2> QED
    BY <2>1, <2>2
<1>2. h = W
  BY <1>1
<1> QED
  BY <1>2 DEF Building

LEMMA BuildingExists ==
  ASSUME NEW n \in Nat, NEW msgs
  PROVE  \E g : Building(g, 1..n, msgs)
<1> DEFINE Bad == {m \in Nat : ~\E g : Building(g, 1..m, msgs)}
<1>1. SUFFICES ASSUME Bad # {} PROVE FALSE
  OBVIOUS
<1>2. PICK m \in Bad : \A k \in Bad : m <= k
  BY <1>1, LeastNatural
<1>3. m # 0
  <2> DEFINE g == [s \in SUBSET (1..0) |-> <<>>]
  <2>1. \A s \in SUBSET (1..0) : s = {}
    OBVIOUS
  <2>2. Building(g, 1..0, msgs)
    BY <2>1 DEF Building
  <2> HIDE DEF g
  <2> QED
    BY <2>2
<1>4. m \in Nat \ {0} /\ m - 1 \in Nat /\ m - 1 \notin Bad
  BY <1>2, <1>3
<1>5. PICK g : Building(g, 1..(m - 1), msgs)
  BY <1>4
<1> QED
  BY <1>2, <1>4, <1>5, BuildingGoesOn

\* What is built of a part does not depend on what follows it.
LEMMA BuildingStep ==
  ASSUME NEW n \in Nat, NEW m \in 1..n, NEW msgs, NEW g, Building(g, 1..n, msgs)
  PROVE  g[1..m] = Put(g[1..(m - 1)], msgs[m])
<1>1. (1..m) \in SUBSET (1..n) /\ 1..m # {}
  <2>1. m \in Int /\ n \in Int /\ 1 <= m /\ m <= n
    OBVIOUS
  <2>2. \A x \in 1..m : x \in 1..n
    BY <2>1
  <2>3. m \in 1..m
    BY <2>1
  <2> QED
    BY <2>2, <2>3
<1>2. (1..m) \ {m} = 1..(m - 1)
  OBVIOUS
<1>3. Max(1..m) = m
  <2>1. m \in Nat /\ m \in 1..m /\ (1..m) \in SUBSET (1..m)
    OBVIOUS
  <2> QED
    BY <2>1, MaxOfPart
<1> QED
  BY <1>1, <1>2, <1>3 DEF Building

LEMMA BuildingAgrees ==
  ASSUME NEW n \in Nat, NEW k \in Nat, NEW a, NEW b, NEW g, NEW h, n <= k,
         Building(g, 1..n, a), Building(h, 1..k, b), \A i \in 1..n : a[i] = b[i]
  PROVE  g[1..n] = h[1..n]
<1> DEFINE Bad == {m \in 0..n : g[1..m] # h[1..m]}
<1>1. SUFFICES ASSUME Bad # {} PROVE FALSE
  <2>1. n \in 0..n
    OBVIOUS
  <2> QED
    BY <2>1
<1>2. PICK m \in Bad : \A l \in Bad : m <= l
  <2>1. Bad \in SUBSET Nat
    OBVIOUS
  <2> QED
    BY <1>1, <2>1, LeastNatural
<1>3. m # 0
  <2>1. 1..0 = {} /\ {} \in SUBSET (1..n) /\ {} \in SUBSET (1..k)
    OBVIOUS
  <2>2. g[1..0] = <<>> /\ h[1..0] = <<>>
    BY <2>1 DEF Building
  <2> QED
    BY <1>2, <2>2
<1>4. m \in 1..n /\ m \in 1..k /\ m - 1 \in 0..n /\ m - 1 \notin Bad
  BY <1>2, <1>3
<1>5. g[1..m] = Put(g[1..(m - 1)], a[m]) /\ h[1..m] = Put(h[1..(m - 1)], b[m])
  BY <1>4, BuildingStep
<1> QED
  BY <1>2, <1>4, <1>5

LEMMA BuildIsBuilding ==
  ASSUME NEW msgs \in Transcript
  PROVE  \E g : Building(g, 1..Len(msgs), msgs) /\ BuildAPIMessages(msgs) = g[1..Len(msgs)]
<1>1. DOMAIN msgs = 1..Len(msgs) /\ Len(msgs) \in Nat
  BY DEF Transcript
<1> DEFINE it == CHOOSE g : Building(g, DOMAIN msgs, msgs)
<1>2. Building(it, DOMAIN msgs, msgs)
  BY <1>1, BuildingExists
<1>3. BuildAPIMessages(msgs) = it[DOMAIN msgs]
  BY DEF BuildAPIMessages, FoldLeft, MapThenFoldSet, Building
<1> QED
  BY <1>1, <1>2, <1>3

\* Nothing becomes nothing; one more message is put behind what there is.
LEMMA BuildOfNone == BuildAPIMessages(<<>>) = <<>>
<1>1. <<>> \in Transcript /\ Len(<<>>) = 0 /\ 1..0 = {} /\ {} \in SUBSET (1..0)
  BY EmptySeq DEF Transcript
<1>2. PICK g : Building(g, 1..0, <<>>) /\ BuildAPIMessages(<<>>) = g[1..0]
  BY <1>1, BuildIsBuilding
<1> QED
  BY <1>1, <1>2 DEF Building

LEMMA BuildOfAppend ==
  ASSUME NEW msgs \in Transcript, NEW m \in Stored
  PROVE  BuildAPIMessages(Append(msgs, m)) = Put(BuildAPIMessages(msgs), m)
<1> DEFINE n == Len(msgs)
           more == Append(msgs, m)
<1>1. /\ n \in Nat /\ more \in Transcript /\ Len(more) = n + 1 /\ more[n + 1] = m
      /\ \A i \in 1..n : msgs[i] = more[i]
  BY DEF Transcript
<1>2. PICK g : Building(g, 1..n, msgs) /\ BuildAPIMessages(msgs) = g[1..n]
  BY BuildIsBuilding
<1>3. PICK h : Building(h, 1..(n + 1), more) /\ BuildAPIMessages(more) = h[1..(n + 1)]
  BY <1>1, BuildIsBuilding
<1> HIDE DEF n, more
<1>4. g[1..n] = h[1..n]
  <2>1. n + 1 \in Nat /\ n <= n + 1
    BY <1>1
  <2>2. Building(g, 1..n, msgs) /\ Building(h, 1..(n + 1), more)
    BY <1>2, <1>3
  <2> QED
    BY <1>1, <2>1, <2>2, BuildingAgrees
<1>5. h[1..(n + 1)] = Put(h[1..n], more[n + 1])
  <2>1. n + 1 \in Nat /\ n + 1 \in 1..(n + 1) /\ (n + 1) - 1 = n
    BY <1>1
  <2> QED
    BY <1>3, <2>1, BuildingStep
<1> QED
  BY <1>1, <1>2, <1>3, <1>4, <1>5 DEF more

\* The last element of a sequence and the ones before it.
LEMMA FrontAndLast ==
  ASSUME NEW S, NEW a \in Seq(S), NEW x \in S
  PROVE  /\ Append(a, x) \in Seq(S) /\ Append(a, x) # <<>> /\ Append(a, x) \notin {<<>>}
         /\ Last(Append(a, x)) = x /\ Front(Append(a, x)) = a
<1>1. /\ Append(a, x) \in Seq(S) /\ Len(Append(a, x)) = Len(a) + 1 /\ Len(a) \in Nat
      /\ Append(a, x)[Len(a) + 1] = x /\ \A i \in 1..Len(a) : Append(a, x)[i] = a[i]
  BY AppendProperties, LenProperties
<1>2. Last(Append(a, x)) = x
  BY <1>1 DEF Last
<1>3. Front(Append(a, x)) = a
  <2> DEFINE b == Append(a, x)
  <2>1. Len(b) - 1 = Len(a) /\ \A i \in 1..Len(a) : b[i] \in S
    BY <1>1, ElementOfSeq
  <2> HIDE DEF b
  <2>2. /\ SubSeq(b, 1, Len(a)) \in Seq(S) /\ Len(SubSeq(b, 1, Len(a))) = Len(a)
        /\ \A i \in 1..Len(a) : SubSeq(b, 1, Len(a))[i] = b[i]
    BY <1>1, <2>1, SubSeqProperties DEF b
  <2>3. SubSeq(b, 1, Len(a)) = a
    BY <1>1, <2>2, SeqEqual DEF b
  <2> QED
    BY <2>1, <2>3 DEF Front, b
<1> QED
  BY <1>1, <1>2, <1>3

LEMMA LastIsAppended ==
  ASSUME NEW S, NEW a \in Seq(S), a # <<>>
  PROVE  Front(a) \in Seq(S) /\ Last(a) \in S /\ a = Append(Front(a), Last(a))
         /\ Len(Front(a)) = Len(a) - 1 /\ Len(a) \in Nat \ {0}
<1>1. Len(a) \in Nat \ {0} /\ \A i \in 1..Len(a) : a[i] \in S
  BY EmptySeq, LenProperties, ElementOfSeq
<1>2. /\ Front(a) \in Seq(S) /\ Len(Front(a)) = Len(a) - 1
      /\ \A i \in 1..(Len(a) - 1) : Front(a)[i] = a[i]
  <2>1. /\ Len(a) - 1 \in Nat /\ \A i \in 1..(Len(a) - 1) : a[i] \in S
        /\ Front(a) = SubSeq(a, 1, Len(a) - 1)
    BY <1>1 DEF Front
  <2> DEFINE n == Len(a) - 1
             b == SubSeq(a, 1, n)
  <2>2. 1 \in Int /\ n \in Int /\ n \in Nat /\ \A i \in 1..n : a[i] \in S
    BY <2>1
  <2>3. Front(a) = b
    BY <2>1
  <2> HIDE DEF n
  <2>4. /\ b \in Seq(S) /\ Len(b) = IF 1 <= n THEN n - 1 + 1 ELSE 0
        /\ \A i \in 1..(n - 1 + 1) : b[i] = a[1 + i - 1]
    BY <2>2, SubSeqProperties
  <2> HIDE DEF b
  <2>5. b \in Seq(S) /\ Len(b) = n /\ \A i \in 1..n : b[i] = a[i]
    BY <2>2, <2>4
  <2> QED
    BY <2>3, <2>5 DEF n
<1>3. Last(a) \in S /\ Last(a) = a[Len(a)]
  BY <1>1 DEF Last
<1> DEFINE b == Append(Front(a), Last(a))
<1>4. /\ b \in Seq(S) /\ Len(b) = Len(a) /\ b[Len(a)] = a[Len(a)]
      /\ \A i \in 1..(Len(a) - 1) : b[i] = a[i]
  BY <1>1, <1>2, <1>3, AppendProperties
<1> HIDE DEF b
<1>5. \A i \in 1..Len(a) : a[i] = b[i]
  BY <1>1, <1>4
<1>6. a = b
  BY <1>4, <1>5, SeqEqual
<1> QED
  BY <1>1, <1>2, <1>3, <1>6 DEF b

\* A message that is put somewhere comes last.
LEMMA PutIsLast ==
  ASSUME NEW out \in Seq(Group), NEW m \in Stored
  PROVE  Put(out, m) \in Seq(Group) /\ Put(out, m) # <<>> /\ Last(Last(Put(out, m))) = m
<1>1. <<m>> \in Group /\ <<m>> = Append(<<>>, m) /\ Last(<<m>>) = m
  BY DEF Group, Last
<1>2. CASE out # <<>> /\ Joins(Last(Last(out)), m)
  <2>1. Front(out) \in Seq(Group) /\ Last(out) \in Group
    BY <1>2, LastIsAppended
  <2>2. Append(Last(out), m) \in Group /\ Last(Append(Last(out), m)) = m
    BY <2>1, FrontAndLast DEF Group
  <2>3. Put(out, m) = Append(Front(out), Append(Last(out), m))
    BY <1>2 DEF Put
  <2> QED
    BY <2>1, <2>2, <2>3, FrontAndLast
<1>3. CASE ~(out # <<>> /\ Joins(Last(Last(out)), m))
  <2>1. Put(out, m) = Append(out, <<m>>)
    BY <1>3 DEF Put
  <2> QED
    BY <1>1, <2>1, FrontAndLast
<1> QED
  BY <1>2, <1>3

LEMMA BuildIsGroups ==
  ASSUME NEW msgs \in Transcript
  PROVE  /\ BuildAPIMessages(msgs) \in Seq(Group)
         /\ msgs # <<>> => /\ BuildAPIMessages(msgs) # <<>>
                           /\ Last(Last(BuildAPIMessages(msgs))) = Last(msgs)
<1> DEFINE Bad == {Len(t) : t \in {u \in Transcript : BuildAPIMessages(u) \notin Seq(Group)}}
<1>1. Bad = {}
  <2> SUFFICES ASSUME Bad # {} PROVE FALSE
    OBVIOUS
  <2>1. PICK n \in Bad : \A k \in Bad : n <= k
    <3>1. Bad \in SUBSET Nat
      BY LenProperties DEF Transcript
    <3> QED
      BY <3>1, LeastNatural
  <2>2. PICK t \in Transcript : BuildAPIMessages(t) \notin Seq(Group) /\ n = Len(t)
    BY <2>1
  <2>3. t # <<>>
    BY <2>2, BuildOfNone, EmptySeq
  <2>4. /\ Front(t) \in Transcript /\ Last(t) \in Stored /\ t = Append(Front(t), Last(t))
        /\ Len(Front(t)) = Len(t) - 1 /\ Len(t) \in Nat \ {0}
    BY <2>3, LastIsAppended DEF Transcript
  <2>5. BuildAPIMessages(Front(t)) \in Seq(Group)
    <3> SUFFICES ASSUME BuildAPIMessages(Front(t)) \notin Seq(Group) PROVE FALSE
      OBVIOUS
    <3>1. Len(Front(t)) \in Bad
      BY <2>4
    <3> QED
      BY <2>1, <2>2, <2>4, <3>1
  <2>6. BuildAPIMessages(t) = Put(BuildAPIMessages(Front(t)), Last(t))
    BY <2>4, BuildOfAppend
  <2> QED
    BY <2>2, <2>4, <2>5, <2>6, PutIsLast
<1>2. \A t \in Transcript : BuildAPIMessages(t) \in Seq(Group)
  BY <1>1
<1>3. ASSUME msgs # <<>>
      PROVE  /\ BuildAPIMessages(msgs) # <<>>
             /\ Last(Last(BuildAPIMessages(msgs))) = Last(msgs)
  <2>1. Front(msgs) \in Transcript /\ Last(msgs) \in Stored /\ msgs = Append(Front(msgs), Last(msgs))
    BY <1>3, LastIsAppended DEF Transcript
  <2>2. BuildAPIMessages(msgs) = Put(BuildAPIMessages(Front(msgs)), Last(msgs))
    BY <2>1, BuildOfAppend
  <2> QED
    BY <1>2, <2>1, <2>2, PutIsLast
<1> QED
  BY <1>2, <1>3

\* A message that joins nothing makes a group of its own.
LEMMA BuildOfNewGroup ==
  ASSUME NEW msgs \in Transcript, NEW m \in Stored, msgs # <<>> => ~Joins(Last(msgs), m)
  PROVE  BuildAPIMessages(Append(msgs, m)) = Append(BuildAPIMessages(msgs), <<m>>)
<1>1. BuildAPIMessages(Append(msgs, m)) = Put(BuildAPIMessages(msgs), m)
  BY BuildOfAppend
<1>2. CASE msgs = <<>>
  BY <1>1, <1>2, BuildOfNone DEF Put
<1>3. CASE msgs # <<>>
  BY <1>1, <1>3, BuildIsGroups DEF Put
<1> QED
  BY <1>2, <1>3

\* A message that joins the last group.
LEMMA BuildOfJoining ==
  ASSUME NEW msgs \in Transcript, NEW m \in Stored, NEW before \in Seq(Group), NEW group \in Group,
         BuildAPIMessages(msgs) = Append(before, group), Joins(Last(group), m)
  PROVE  BuildAPIMessages(Append(msgs, m)) = Append(before, Append(group, m))
<1>1. BuildAPIMessages(Append(msgs, m)) = Put(Append(before, group), m)
  BY BuildOfAppend
<1>2. /\ Append(before, group) # <<>> /\ Last(Append(before, group)) = group
      /\ Front(Append(before, group)) = before
  BY FrontAndLast
<1> QED
  BY <1>1, <1>2 DEF Put

\* An answer of the model, a text or none and then tool uses, becomes one group.
LEMMA BuildOfAnswer ==
  ASSUME NEW msgs \in Transcript, msgs # <<>>, Last(msgs).role \in {"user", "tool_result"},
         NEW said \in Group, said[1].role \in {"assistant", "assistant_tool_use"},
         \A i \in 2..Len(said) : said[i].role = "assistant_tool_use"
  PROVE  BuildAPIMessages(msgs \o said) = Append(BuildAPIMessages(msgs), said)
<1> DEFINE Fits(u) == /\ u[1].role \in {"assistant", "assistant_tool_use"}
                      /\ \A i \in 2..Len(u) : u[i].role = "assistant_tool_use"
           Right(u) == BuildAPIMessages(msgs \o u) = Append(BuildAPIMessages(msgs), u)
           Bad == {Len(u) : u \in {v \in Group : Fits(v) /\ ~Right(v)}}
<1>1. SUFFICES ASSUME Bad # {} PROVE FALSE
  <2>1. Fits(said)
    OBVIOUS
  <2>2. said \in {v \in Group : Fits(v) /\ ~Right(v)} => Bad # {}
    OBVIOUS
  <2> QED
    BY <2>1, <2>2
<1> HIDE DEF Right
<1>2. PICK n \in Bad : \A k \in Bad : n <= k
  <2>1. Bad \in SUBSET Nat
    BY LenProperties DEF Group
  <2> QED
    BY <1>1, <2>1, LeastNatural
<1>3. PICK u \in Group : Fits(u) /\ ~Right(u) /\ n = Len(u)
  BY <1>2
<1>4. /\ u \in Seq(Stored) /\ Front(u) \in Seq(Stored) /\ Last(u) \in Stored
      /\ u = Append(Front(u), Last(u)) /\ Len(Front(u)) = Len(u) - 1 /\ Len(u) \in Nat \ {0}
      /\ Last(u) = u[Len(u)]
  <2>1. u \in Seq(Stored) /\ u # <<>>
    BY DEF Group
  <2> QED
    BY <2>1, LastIsAppended DEF Last
<1>5. msgs \o u = Append(msgs \o Front(u), Last(u)) /\ msgs \o Front(u) \in Transcript
  <2> DEFINE f == Front(u)
             m == Last(u)
  <2>1. f \in Seq(Stored) /\ m \in Stored /\ msgs \in Seq(Stored) /\ u = Append(f, m)
    BY <1>4 DEF Transcript
  <2> HIDE DEF f, m
  <2>2. msgs \o Append(f, m) = Append(msgs \o f, m) /\ msgs \o f \in Seq(Stored)
    BY <2>1
  <2> QED
    BY <2>1, <2>2 DEF f, m, Transcript
<1>6. BuildAPIMessages(msgs) \in Seq(Group)
  BY BuildIsGroups
<1>7. CASE Len(u) = 1
  <2>1. Front(u) = <<>> /\ msgs \o Front(u) = msgs /\ u = <<Last(u)>>
    BY <1>4, <1>7, EmptySeq DEF Transcript
  <2>2. ~Joins(Last(msgs), Last(u))
    BY <1>3, <1>4, <1>7 DEF Joins
  <2>3. BuildAPIMessages(Append(msgs, Last(u))) = Append(BuildAPIMessages(msgs), <<Last(u)>>)
    BY <1>4, <2>2, BuildOfNewGroup
  <2> QED
    BY <1>3, <1>5, <2>1, <2>3 DEF Right
<1>8. CASE Len(u) # 1
  <2>1. Len(Front(u)) \in Nat \ {0} /\ Front(u) \in Group
    BY <1>4, <1>8, EmptySeq DEF Group
  <2>2. \A i \in 1..Len(Front(u)) : Front(u)[i] = u[i]
    BY <1>4, AppendProperties
  <2>3. Fits(Front(u)) /\ Last(Front(u)).role \in {"assistant", "assistant_tool_use"}
    BY <1>3, <1>4, <2>1, <2>2 DEF Last
  <2>4. Right(Front(u))
    <3> SUFFICES ASSUME ~Right(Front(u)) PROVE FALSE
      OBVIOUS
    <3>1. Len(Front(u)) \in Bad
      BY <2>1, <2>3
    <3> QED
      BY <1>2, <1>3, <1>4, <3>1
  <2>5. Last(u).role = "assistant_tool_use"
    BY <1>3, <1>4, <1>8
  <2>6. BuildAPIMessages(Append(msgs \o Front(u), Last(u)))
          = Append(BuildAPIMessages(msgs), Append(Front(u), Last(u)))
    BY <1>4, <1>5, <1>6, <2>1, <2>3, <2>4, <2>5, BuildOfJoining DEF Right, Joins
  <2> QED
    BY <1>3, <1>4, <1>5, <2>6 DEF Right
<1> QED
  BY <1>7, <1>8

--------------------------------------------------------------------------------
\* Groups that pair up

Distinct(group) == \A i, j \in DOMAIN group : group[i] = group[j] => i = j

\* Neither a message of the user nor a text asks or answers.
LEMMA PairsWithGroup ==
  ASSUME NEW groups \in Seq(Group), PairsUp(groups), NEW group \in Group, Distinct(group),
         Ids(group, "assistant_tool_use") = {}, Ids(group, "tool_result") = {}
  PROVE  PairsUp(Append(groups, group))
<1> DEFINE n == Len(groups)
           more == Append(groups, group)
<1>1. /\ n \in Nat /\ DOMAIN groups = 1..n /\ DOMAIN more = 1..(n + 1) /\ more[n + 1] = group
      /\ \A g \in 1..n : more[g] = groups[g]
  OBVIOUS
<1> HIDE DEF n, more
<1>2. SUFFICES ASSUME NEW g \in DOMAIN more
               PROVE  /\ Distinct(more[g])
                      /\ Ids(more[g], "assistant_tool_use") # {} =>
                           /\ g + 1 \in DOMAIN more
                           /\ Ids(more[g + 1], "tool_result") = Ids(more[g], "assistant_tool_use")
                      /\ Ids(more[g], "tool_result") # {} =>
                           g > 1 /\ Ids(more[g - 1], "assistant_tool_use") # {}
  BY DEF PairsUp, Distinct, more
<1>3. CASE g = n + 1
  BY <1>1, <1>3
<1>4. CASE g \in 1..n
  <2>1. more[g] = groups[g] /\ g + 1 \in DOMAIN more
    BY <1>1, <1>4
  <2>2. g + 1 \in 1..n => more[g + 1] = groups[g + 1]
    BY <1>1
  <2>3. g > 1 => more[g - 1] = groups[g - 1]
    BY <1>1, <1>4
  <2> QED
    BY <1>1, <1>4, <2>1, <2>2, <2>3 DEF PairsUp, Distinct
<1> QED
  BY <1>1, <1>3, <1>4

\* A message that neither asks nor answers may stand alone.
LEMMA AloneInGroup ==
  ASSUME NEW m \in Stored, m.role \in {"user", "assistant"}
  PROVE  /\ <<m>> \in Group /\ Distinct(<<m>>)
         /\ Ids(<<m>>, "assistant_tool_use") = {} /\ Ids(<<m>>, "tool_result") = {}
<1>1. <<m>> \in Group /\ DOMAIN <<m>> = 1..1 /\ <<m>>[1] = m
  BY DEF Group
<1>2. \A i \in 1..1 : i = 1
  OBVIOUS
<1>3. Distinct(<<m>>)
  BY <1>1, <1>2 DEF Distinct
<1>4. \A n \in ToSet(<<m>>) : n = m
  BY <1>1, <1>2 DEF ToSet
<1>5. \A role \in {"assistant_tool_use", "tool_result"} :
        {n \in ToSet(<<m>>) : n.role = role} = {}
  BY <1>4
<1>6. \A role \in {"assistant_tool_use", "tool_result"} : Ids(<<m>>, role) = {}
  BY <1>5 DEF Ids
<1> QED
  BY <1>1, <1>3, <1>6

\* An answer that asks, and its results behind it.
LEMMA PairsWithTurn ==
  ASSUME NEW groups \in Seq(Group), PairsUp(groups),
         NEW said \in Group, Distinct(said), Ids(said, "tool_result") = {},
         NEW results \in Group, Distinct(results), Ids(results, "assistant_tool_use") = {},
         Ids(said, "assistant_tool_use") # {},
         Ids(results, "tool_result") = Ids(said, "assistant_tool_use")
  PROVE  PairsUp(Append(Append(groups, said), results))
<1> DEFINE n == Len(groups)
           more == Append(Append(groups, said), results)
<1>1. /\ n \in Nat /\ DOMAIN groups = 1..n /\ DOMAIN more = 1..(n + 2)
      /\ more[n + 1] = said /\ more[n + 2] = results
      /\ \A g \in 1..n : more[g] = groups[g]
  OBVIOUS
<1> HIDE DEF n, more
<1>2. SUFFICES ASSUME NEW g \in DOMAIN more
               PROVE  /\ Distinct(more[g])
                      /\ Ids(more[g], "assistant_tool_use") # {} =>
                           /\ g + 1 \in DOMAIN more
                           /\ Ids(more[g + 1], "tool_result") = Ids(more[g], "assistant_tool_use")
                      /\ Ids(more[g], "tool_result") # {} =>
                           g > 1 /\ Ids(more[g - 1], "assistant_tool_use") # {}
  BY DEF PairsUp, Distinct, more
<1>3. CASE g = n + 1
  <2>1. g + 1 = n + 2 /\ g + 1 \in DOMAIN more
    BY <1>1, <1>3
  <2> QED
    BY <1>1, <1>3, <2>1
<1>4. CASE g = n + 2
  <2>1. g - 1 = n + 1 /\ g > 1
    BY <1>1, <1>4
  <2> QED
    BY <1>1, <1>4, <2>1
<1>5. CASE g \in 1..n
  <2>1. more[g] = groups[g] /\ g + 1 \in DOMAIN more
    BY <1>1, <1>5
  <2>2. g + 1 \in 1..n => more[g + 1] = groups[g + 1]
    BY <1>1
  <2>3. g > 1 => more[g - 1] = groups[g - 1]
    BY <1>1, <1>5
  <2> QED
    BY <1>1, <1>5, <2>1, <2>2, <2>3 DEF PairsUp, Distinct
<1> QED
  BY <1>1, <1>3, <1>4, <1>5

\* The messages of one answer, and of the results of n tools.
Said(s, i, a) == AnswerText(s, i, a) \o AnswerUses(s, i, a)

LEMMA AnswerShape ==
  ASSUME NEW s \in Sender, NEW i \in Nat, NEW a \in Answer
  PROVE  /\ Said(s, i, a) \in Transcript /\ a.tools \in Nat
         /\ \A m \in ToSet(Said(s, i, a)) : m = Text(s, i) \/ \E k \in 1..a.tools : m = Use(s, i, k)
         /\ \A k \in 1..a.tools : Use(s, i, k) \in ToSet(Said(s, i, a))
         /\ a.tools = 0 => Said(s, i, a) = <<>> \/ Said(s, i, a) = <<Text(s, i)>>
         /\ a.tools > 0 => /\ Said(s, i, a) \in Group /\ Distinct(Said(s, i, a))
                           /\ Said(s, i, a)[1].role \in {"assistant", "assistant_tool_use"}
                           /\ \A j \in 2..Len(Said(s, i, a)) : Said(s, i, a)[j].role = "assistant_tool_use"
                           /\ Last(Said(s, i, a)).role = "assistant_tool_use"
<1> DEFINE said == Said(s, i, a)
           d == IF a.text THEN 1 ELSE 0
           n == a.tools
<1>0. /\ Text(s, i) \in Stored /\ Text(s, i).role = "assistant"
      /\ \A k : Use(s, i, k).role = "assistant_tool_use" /\ Use(s, i, k).from = <<s, i, k>>
  BY DEF Text, Use, Message, Stored, Role
<1>1. n \in Nat /\ a.text \in BOOLEAN /\ d \in {0, 1}
  BY ChatAssumption DEF Answer
<1>2. said \in Transcript
  BY AnswerIsStored DEF Said
<1>3. /\ AnswerText(s, i, a) = IF a.text THEN <<Text(s, i)>> ELSE <<>>
      /\ Len(AnswerText(s, i, a)) = d /\ AnswerText(s, i, a) \in Seq(Stored)
  <2>1. CASE a.text
    BY <1>0, <2>1 DEF AnswerText
  <2>2. CASE ~a.text
    BY <2>2, EmptySeq DEF AnswerText
  <2> QED
    BY <2>1, <2>2 DEF AnswerText
<1>4. /\ AnswerUses(s, i, a) \in Seq(Stored) /\ Len(AnswerUses(s, i, a)) = n
      /\ \A k \in 1..n : AnswerUses(s, i, a)[k] = Use(s, i, k)
  <2>1. \A k \in 1..n : Use(s, i, k) \in Stored
    BY <1>1 DEF Use, Message, Stored, Role
  <2> QED
    BY <1>1, <2>1, IsASeq DEF AnswerUses
<1>5. /\ Len(said) = d + n
      /\ d = 1 => said[1] = Text(s, i)
      /\ \A k \in 1..n : said[d + k] = Use(s, i, k)
  <2>1. /\ Len(said) = d + n
        /\ \A j \in 1..d : said[j] = AnswerText(s, i, a)[j]
        /\ \A j \in (d + 1)..(d + n) : said[j] = AnswerUses(s, i, a)[j - d]
    BY <1>1, <1>3, <1>4, ConcatProperties DEF Said
  <2>2. \A k \in 1..n : d + k \in (d + 1)..(d + n) /\ (d + k) - d = k
    BY <1>1
  <2>3. d = 1 => AnswerText(s, i, a)[1] = Text(s, i) /\ 1 \in 1..d
    BY <1>3
  <2> QED
    BY <1>4, <2>1, <2>2, <2>3
<1> HIDE DEF d, n, said
<1>6. DOMAIN said = 1..(d + n)
  BY <1>2, <1>5 DEF Transcript
<1>7. \A j \in 1..(d + n) : \/ j = 1 /\ d = 1
                            \/ j - d \in 1..n /\ j = d + (j - d)
  BY <1>1
<1>8. \A m \in ToSet(said) : m = Text(s, i) \/ \E k \in 1..n : m = Use(s, i, k)
  BY <1>5, <1>6, <1>7 DEF ToSet
<1>9. \A k \in 1..n : Use(s, i, k) \in ToSet(said)
  <2>1. \A k \in 1..n : d + k \in 1..(d + n)
    BY <1>1
  <2> QED
    BY <1>5, <1>6, <2>1 DEF ToSet
<1>10. n = 0 => said = <<>> \/ said = <<Text(s, i)>>
  <2>1. ASSUME n = 0
        PROVE  AnswerUses(s, i, a) = <<>>
    BY <1>4, <2>1, EmptySeq
  <2>2. CASE a.text
    BY <1>3, <2>1, <2>2 DEF said, Said
  <2>3. CASE ~a.text
    BY <1>3, <2>1, <2>3 DEF said, Said
  <2> QED
    BY <2>2, <2>3
<1>11. ASSUME n > 0
       PROVE  /\ said \in Group /\ Distinct(said)
              /\ said[1].role \in {"assistant", "assistant_tool_use"}
              /\ \A j \in 2..Len(said) : said[j].role = "assistant_tool_use"
              /\ Last(said).role = "assistant_tool_use"
  <2>1. said \in Group
    BY <1>1, <1>2, <1>5, <1>11 DEF Group, Transcript
  <2>2. \A j \in 1..(d + n) : \/ j = 1 /\ said[j] = Text(s, i) /\ d = 1
                              \/ j - d \in 1..n /\ said[j] = Use(s, i, j - d)
    BY <1>5, <1>7
  <2>3. Distinct(said)
    <3> SUFFICES ASSUME NEW j \in 1..(d + n), NEW k \in 1..(d + n), said[j] = said[k]
                 PROVE  j = k
      BY <1>6 DEF Distinct
    <3>1. CASE said[j] = Text(s, i)
      <4>1. \A l \in 1..(d + n) : said[l] = Text(s, i) => l = 1
        BY <1>0, <2>2
      <4> QED
        BY <3>1, <4>1
    <3>2. CASE j - d \in 1..n /\ said[j] = Use(s, i, j - d)
      <4>1. said[k] # Text(s, i)
        BY <1>0, <3>2
      <4>2. k - d \in 1..n /\ said[k] = Use(s, i, k - d)
        BY <2>2, <4>1
      <4>3. <<s, i, j - d>> = <<s, i, k - d>>
        BY <1>0, <3>2, <4>2
      <4>4. j - d = k - d
        BY <4>3
      <4> QED
        BY <1>1, <4>4
    <3> QED
      BY <2>2, <3>1, <3>2
  <2>4. \A j \in 2..(d + n) : j - d \in 1..n /\ said[j] = Use(s, i, j - d)
    <3>1. \A j \in 2..(d + n) : j \in 1..(d + n) /\ j # 1
      BY <1>1
    <3> QED
      BY <2>2, <3>1
  <2>5. said[d + n] = Use(s, i, n) /\ Last(said) = said[d + n] /\ 1 \in 1..(d + n)
    BY <1>1, <1>5, <1>11 DEF Last
  <2>6. said[1].role \in {"assistant", "assistant_tool_use"}
    BY <1>0, <2>2, <2>5
  <2>7. \A j \in 2..Len(said) : said[j].role = "assistant_tool_use"
    BY <1>0, <1>5, <2>4
  <2>8. Last(said).role = "assistant_tool_use"
    BY <1>0, <2>5
  <2> QED
    BY <2>1, <2>3, <2>6, <2>7, <2>8
<1> QED
  BY <1>1, <1>2, <1>8, <1>9, <1>10, <1>11 DEF n, said

LEMMA AnswerAsks ==
  ASSUME NEW s \in Sender, NEW i \in Nat, NEW a \in Answer
  PROVE  /\ Ids(Said(s, i, a), "assistant_tool_use") = {<<s, i, k>> : k \in 1..a.tools}
         /\ Ids(Said(s, i, a), "tool_result") = {}
<1>1. /\ \A m \in ToSet(Said(s, i, a)) : m = Text(s, i) \/ \E k \in 1..a.tools : m = Use(s, i, k)
      /\ \A k \in 1..a.tools : Use(s, i, k) \in ToSet(Said(s, i, a))
  BY AnswerShape
<1>2. /\ Text(s, i).role = "assistant"
      /\ \A k : Use(s, i, k).role = "assistant_tool_use" /\ Use(s, i, k).from = <<s, i, k>>
  BY DEF Text, Use, Message
<1>3. {n \in ToSet(Said(s, i, a)) : n.role = "tool_result"} = {}
  BY <1>1, <1>2
<1>4. {n \in ToSet(Said(s, i, a)) : n.role = "assistant_tool_use"} = {Use(s, i, k) : k \in 1..a.tools}
  BY <1>1, <1>2
<1>5. {m.from : m \in {Use(s, i, k) : k \in 1..a.tools}} = {<<s, i, k>> : k \in 1..a.tools}
  BY <1>2
<1> QED
  BY <1>3, <1>4, <1>5 DEF Ids

Results(s, i, n) == [k \in 1..n |-> Result(s, i, k)]

LEMMA ResultsShape ==
  ASSUME NEW s \in Sender, NEW i \in Nat, NEW n \in Nat \ {0}
  PROVE  /\ Results(s, i, n) \in Group /\ Distinct(Results(s, i, n))
         /\ Last(Results(s, i, n)).role = "tool_result"
         /\ Ids(Results(s, i, n), "tool_result") = {<<s, i, k>> : k \in 1..n}
         /\ Ids(Results(s, i, n), "assistant_tool_use") = {}
         /\ Append(Results(s, i, n), Result(s, i, n + 1)) = Results(s, i, n + 1)
<1> DEFINE results == [k \in 1..n |-> Result(s, i, k)]
<1>1. \A k \in Nat : /\ Result(s, i, k) \in Stored /\ Result(s, i, k).role = "tool_result"
                     /\ Result(s, i, k).from = <<s, i, k>>
  BY DEF Result, Message, Stored, Role
<1>2. results \in Seq(Stored) /\ Len(results) = n /\ DOMAIN results = 1..n
  BY <1>1, IsASeq
<1>3. results \in Group
  BY <1>2, EmptySeq DEF Group
<1>4. Distinct(results)
  <2> SUFFICES ASSUME NEW j \in 1..n, NEW k \in 1..n, Result(s, i, j) = Result(s, i, k)
               PROVE  j = k
    BY <1>2 DEF Distinct
  <2>1. j \in Nat /\ k \in Nat
    OBVIOUS
  <2>2. <<s, i, j>> = <<s, i, k>>
    BY <1>1, <2>1
  <2> QED
    BY <2>2
<1>5. Last(results).role = "tool_result"
  BY <1>1, <1>2 DEF Last
<1>6. ToSet(results) = {Result(s, i, k) : k \in 1..n}
  BY <1>2 DEF ToSet
<1>7. /\ {m \in ToSet(results) : m.role = "tool_result"} = {Result(s, i, k) : k \in 1..n}
      /\ {m \in ToSet(results) : m.role = "assistant_tool_use"} = {}
  BY <1>1, <1>6
<1>8. {m.from : m \in {Result(s, i, k) : k \in 1..n}} = {<<s, i, k>> : k \in 1..n}
  <2>1. \A k \in 1..n : Result(s, i, k).from = <<s, i, k>>
    BY <1>1
  <2> QED
    BY <2>1
<1>9. Append(results, Result(s, i, n + 1)) = [k \in 1..(n + 1) |-> Result(s, i, k)]
  <2> DEFINE a == Append(results, Result(s, i, n + 1))
             b == [k \in 1..(n + 1) |-> Result(s, i, k)]
  <2>1. /\ a \in Seq(Stored) /\ Len(a) = n + 1 /\ a[n + 1] = Result(s, i, n + 1)
        /\ \A k \in 1..n : a[k] = Result(s, i, k)
    BY <1>1, <1>2, AppendProperties
  <2>2. b \in Seq(Stored) /\ Len(b) = n + 1 /\ \A k \in 1..(n + 1) : b[k] = Result(s, i, k)
    BY <1>1, IsASeq
  <2> HIDE DEF a, b
  <2>3. \A k \in 1..(n + 1) : k = n + 1 \/ k \in 1..n
    OBVIOUS
  <2>4. \A k \in 1..Len(a) : a[k] = b[k]
    BY <2>1, <2>2, <2>3
  <2> QED
    BY <2>1, <2>2, <2>4, SeqEqual DEF a, b
<1> QED
  BY <1>3, <1>4, <1>5, <1>7, <1>8, <1>9 DEF Ids, Results

--------------------------------------------------------------------------------
\* Steps, and what is said to the model

LEMMA ToSetOfAppend ==
  ASSUME NEW S, NEW a \in Seq(S), NEW x \in S
  PROVE  ToSet(Append(a, x)) = ToSet(a) \cup {x}
<1> DEFINE b == Append(a, x)
<1>1. /\ DOMAIN a = 1..Len(a) /\ Len(a) \in Nat /\ DOMAIN b = 1..(Len(a) + 1)
      /\ b[Len(a) + 1] = x /\ \A i \in 1..Len(a) : b[i] = a[i]
  OBVIOUS
<1> HIDE DEF b
<1>2. \A i \in 1..(Len(a) + 1) : i \in 1..Len(a) \/ i = Len(a) + 1
  BY <1>1
<1>3. Len(a) + 1 \in 1..(Len(a) + 1) /\ \A i \in 1..Len(a) : i \in 1..(Len(a) + 1)
  BY <1>1
<1>4. ToSet(b) = ToSet(a) \cup {x}
  BY <1>1, <1>2, <1>3 DEF ToSet
<1> QED
  BY <1>4 DEF b

LEMMA ToSetOfConcat ==
  ASSUME NEW S, NEW a \in Seq(S), NEW b \in Seq(S)
  PROVE  ToSet(a \o b) = ToSet(a) \cup ToSet(b)
<1> DEFINE c == a \o b
           m == Len(a)
           n == Len(b)
<1>1. /\ DOMAIN a = 1..m /\ m \in Nat /\ DOMAIN b = 1..n /\ n \in Nat /\ DOMAIN c = 1..(m + n)
      /\ \A i \in 1..m : c[i] = a[i]
      /\ \A i \in (m + 1)..(m + n) : c[i] = b[i - m]
  BY ConcatProperties, LenProperties
<1> HIDE DEF c, m, n
<1>2. \A i \in 1..(m + n) : i \in 1..m \/ (i \in (m + 1)..(m + n) /\ i - m \in 1..n)
  BY <1>1
<1>3. /\ \A i \in 1..m : i \in 1..(m + n)
      /\ \A i \in 1..n : m + i \in (m + 1)..(m + n) /\ m + i \in 1..(m + n) /\ (m + i) - m = i
  BY <1>1
<1>4. \A x \in ToSet(c) : x \in ToSet(a) \/ x \in ToSet(b)
  BY <1>1, <1>2 DEF ToSet
<1>5. \A x \in ToSet(a) : x \in ToSet(c)
  BY <1>1, <1>3 DEF ToSet
<1>6. \A x \in ToSet(b) : x \in ToSet(c)
  <2> SUFFICES ASSUME NEW i \in 1..n PROVE b[i] \in ToSet(c)
    BY <1>1 DEF ToSet
  <2>1. c[m + i] = b[i] /\ m + i \in DOMAIN c
    BY <1>1, <1>3
  <2> QED
    BY <2>1 DEF ToSet
<1> QED
  BY <1>4, <1>5, <1>6 DEF c

LEMMA FromIsNat ==
  ASSUME NEW a \in Seq(Stored), NEW m \in ToSet(a)
  PROVE  m \in Stored /\ m.from[2] \in Nat
<1>1. m \in Stored
  BY DEF ToSet
<1> QED
  BY <1>1 DEF Stored

LEMMA CountOfUses ==
  ASSUME NEW s \in Sender, NEW i \in Nat, NEW n \in Nat
  PROVE  Cardinality({Use(s, i, k) : k \in 1..n}) = n
<1> DEFINE U == {Use(s, i, k) : k \in 1..n}
           f == [k \in 1..n |-> Use(s, i, k)]
<1>1. \A k, l \in 1..n : Use(s, i, k) = Use(s, i, l) => k = l
  <2> SUFFICES ASSUME NEW k \in 1..n, NEW l \in 1..n, Use(s, i, k) = Use(s, i, l)
               PROVE  k = l
    OBVIOUS
  <2>1. <<s, i, k>> = <<s, i, l>>
    BY DEF Use, Message
  <2> QED
    BY <2>1
<1>2. f \in Bijection(1..n, U)
  BY <1>1 DEF Bijection, Injection, Surjection, IsInjective
<1>3. ExistsBijection(1..n, U)
  BY <1>2 DEF ExistsBijection
<1>4. IsFiniteSet(1..n) /\ Cardinality(1..n) = n
  BY FS_Interval
<1> QED
  BY <1>3, <1>4, FS_Bijection

\* A step that says nothing: at most an inode gets the transcript of a Send that has it
\* open, is emptied or torn, or is that of a new conversation.
LEMMA NothingSaid ==
  ASSUME IInv, SpeechInv, UNCHANGED <<local, api, turn, called>>,
         \A i \in Inode : \/ content'[i] \in {content[i], Empty, Torn, <<>>}
                          \/ \E t \in Sender : pc[t] = "opened" /\ content'[i] = local[t],
         \A s \in Sender : /\ Known(s) => Known(s)'
                           /\ pc'[s] \in {"loop", "tools"} => pc'[s] = pc[s]
                           /\ pc'[s] \in {"saving", "opened", "written"} =>
                                pc[s] \in {"loop", "saving", "opened", "written"}
  PROVE  SpeechInv'
<1> USE DEF SpeechInv
<1>1. \A s \in Sender : Uses(s)' = Uses(s) /\ Answered(s)' = Answered(s)
  BY DEF Uses, Answered
<1>2. \A s \in Sender : \A said, n : Asks(s, said, n)' <=> Asks(s, said, n)
  BY DEF Asks
<1>3. \A i \in Inode : content'[i] \notin {Empty, Torn} =>
        \/ content'[i] = content[i] /\ content[i] \notin {Empty, Torn}
        \/ content'[i] = <<>>
        \/ \E t \in Sender : pc[t] = "opened" /\ content'[i] = local[t]
  OBVIOUS
<1>4. OriginInv'
  <2>1. ASSUME NEW s \in Sender, NEW i \in Inode, ~Known(s)', content'[i] \notin {Empty, Torn},
               NEW m \in ToSet(content'[i])
        PROVE  m.from[1] # s
    <3>1. ~Known(s)
      BY <2>1
    <3>2. CASE content'[i] = content[i] /\ content[i] \notin {Empty, Torn}
      BY <2>1, <3>1, <3>2 DEF OriginInv
    <3>3. CASE content'[i] = <<>>
      BY <2>1, <3>3 DEF ToSet
    <3>4. ASSUME NEW t \in Sender, pc[t] = "opened", content'[i] = local[t]
          PROVE  m.from[1] # s
      BY <2>1, <3>1, <3>4 DEF OriginInv, Known
    <3> QED
      BY <1>3, <2>1, <3>2, <3>3, <3>4
  <2>2. \A s, t \in Sender : ~Known(s)' /\ s # t => \A m \in ToSet(local[t]) : m.from[1] # s
    BY DEF OriginInv
  <2>3. \A s \in Sender : pc'[s] \in {"loop", "tools"} =>
          \A m \in ToSet(local[s]) :
            m.role = "assistant_tool_use" /\ m.from[1] = s => m.from[2] <= turn[s]
    BY DEF OriginInv
  <2> QED
    BY <2>1, <2>2, <2>3 DEF OriginInv
<1>5. LoopInv'
  BY DEF LoopInv, Agrees
<1>6. AskInv'
  BY <1>1, <1>2 DEF AskInv, Asking
<1>7. PairInv'
  <2>1. ASSUME NEW i \in Inode, content'[i] \notin {Empty, Torn}
        PROVE  PairsUp(BuildAPIMessages(content'[i]))
    <3>1. PairsUp(BuildAPIMessages(<<>>))
      BY BuildOfNone DEF PairsUp
    <3> QED
      BY <1>3, <2>1, <3>1 DEF PairInv
  <2>2. \A s \in Sender : pc'[s] \in {"loop", "saving", "opened", "written"} =>
          PairsUp(BuildAPIMessages(local[s]))
    BY DEF PairInv
  <2> QED
    BY <2>1, <2>2 DEF PairInv
<1> QED
  BY <1>4, <1>5, <1>6, <1>7

LEMMA SilentSteps ==
  ASSUME IInv, SpeechInv,
         \/ SetConfig \/ CreateConversation \/ DeleteStart \/ DeleteConversation \/ Restart
         \/ UNCHANGED vars
         \/ \E s \in Sender : \/ StartMessage(s) \/ LoadFails(s) \/ SendFails(s)
                              \/ OpenTmp(s) \/ OpenFails(s) \/ WriteTmp(s) \/ WriteFails(s)
                              \/ Rename(s) \/ RenameFails(s)
  PROVE  SpeechInv'
<1> USE DEF fileVars, sendVars, Known
<1>1. CASE SetConfig \/ DeleteStart \/ DeleteConversation \/ UNCHANGED vars
  BY <1>1, NothingSaid DEF SetConfig, DeleteStart, DeleteConversation, vars
<1>2. CASE CreateConversation
  <2>1. \A i \in Inode : content'[i] \in {content[i], <<>>}
    BY <1>2 DEF CreateConversation, IInv, TypeOK
  <2> QED
    BY <1>2, <2>1, NothingSaid DEF CreateConversation
<1>3. CASE Restart
  BY <1>3, NothingSaid DEF Restart
<1>4. ASSUME NEW s \in Sender, \/ StartMessage(s) \/ LoadFails(s) \/ SendFails(s)
                               \/ OpenFails(s) \/ RenameFails(s) \/ Rename(s)
      PROVE  SpeechInv'
  <2>1. /\ UNCHANGED <<local, api, turn, called, content>>
        /\ \/ pc[s] = "idle" /\ pc' = [pc EXCEPT ![s] = "checked"]
           \/ pc' = [pc EXCEPT ![s] = "returned"]
    BY <1>4 DEF StartMessage, LoadFails, SendFails, OpenFails, RenameFails, Rename, Return, Goto
  <2> QED
    BY <2>1, NothingSaid DEF IInv, TypeOK
<1>5. ASSUME NEW s \in Sender, OpenTmp(s) \/ WriteTmp(s) \/ WriteFails(s)
      PROVE  SpeechInv'
  <2>1. /\ UNCHANGED <<local, api, turn, called>>
        /\ \/ pc[s] = "saving" /\ pc' = [pc EXCEPT ![s] = "opened"]
           \/ pc[s] = "opened" /\ pc' = [pc EXCEPT ![s] = "written"]
           \/ pc' = [pc EXCEPT ![s] = "returned"]
    BY <1>5 DEF OpenTmp, WriteTmp, WriteFails, Return, Goto
  <2>2. \A i \in Inode : \/ content'[i] \in {content[i], Empty, Torn}
                         \/ pc[s] = "opened" /\ content'[i] = local[s]
    BY <1>5 DEF OpenTmp, WriteTmp, WriteFails, Overwritten, IInv, TypeOK
  <2> QED
    BY <2>1, <2>2, NothingSaid DEF IInv, TypeOK
<1> QED
  BY <1>1, <1>2, <1>3, <1>4, <1>5

\* A step in which one Send speaks: what is to be shown of it, the others having
\* nothing to do with it.
LEMMA OneSpeaks ==
  ASSUME IInv, SpeechInv, NEW s \in Sender, UNCHANGED content,
         \A t \in Sender : t # s => /\ pc'[t] = pc[t] /\ local'[t] = local[t] /\ api'[t] = api[t]
                                    /\ turn'[t] = turn[t] /\ called'[t] = called[t],
         pc'[s] \in {"loop", "tools", "saving"},
         api' \in [Sender -> Seq(Group)],
         \A m \in ToSet(local'[s]) :
           \A t \in Sender : t # s /\ ~Known(t) => m.from[1] # t,
         pc'[s] \in {"loop", "tools"} =>
           \A m \in ToSet(local'[s]) :
             m.role = "assistant_tool_use" /\ m.from[1] = s => m.from[2] <= turn'[s],
         pc'[s] = "loop" => Agrees(s)',
         pc'[s] = "tools" => Asking(s)',
         pc'[s] \in {"loop", "saving"} => PairsUp(BuildAPIMessages(local'[s]))
  PROVE  SpeechInv'
<1> USE DEF SpeechInv, Known
<1>1. \A t \in Sender : t # s => Uses(t)' = Uses(t) /\ Answered(t)' = Answered(t)
  BY DEF Uses, Answered
<1>3. OriginInv'
  <2>1. \A t \in Sender, i \in Inode : ~Known(t)' /\ content'[i] \notin {Empty, Torn} =>
          \A m \in ToSet(content'[i]) : m.from[1] # t
    BY DEF OriginInv
  <2>2. \A t, u \in Sender : ~Known(t)' /\ t # u => \A m \in ToSet(local'[u]) : m.from[1] # t
    <3> SUFFICES ASSUME NEW t \in Sender, NEW u \in Sender, ~Known(t)', t # u,
                        NEW m \in ToSet(local'[u])
                 PROVE  m.from[1] # t
      OBVIOUS
    <3>1. t # s /\ ~Known(t)
      OBVIOUS
    <3>2. CASE u = s
      BY <3>1, <3>2
    <3>3. CASE u # s
      <4>1. m \in ToSet(local[u])
        BY <3>3
      <4> QED
        BY <3>1, <4>1 DEF OriginInv
    <3> QED
      BY <3>2, <3>3
  <2>3. \A t \in Sender : pc'[t] \in {"loop", "tools"} =>
          \A m \in ToSet(local'[t]) :
            m.role = "assistant_tool_use" /\ m.from[1] = t => m.from[2] <= turn'[t]
    <3> SUFFICES ASSUME NEW t \in Sender, t # s, pc[t] \in {"loop", "tools"}
                 PROVE  \A m \in ToSet(local[t]) :
                          m.role = "assistant_tool_use" /\ m.from[1] = t => m.from[2] <= turn[t]
      OBVIOUS
    <3>1. OriginInv
      BY DEF SpeechInv
    <3> HIDE DEF SpeechInv, Known
    <3> QED
      BY <3>1 DEF OriginInv
  <2> QED
    BY <2>1, <2>2, <2>3 DEF OriginInv
<1>4. LoopInv'
  <2> SUFFICES ASSUME NEW t \in Sender, t # s, pc'[t] = "loop" PROVE Agrees(t)'
    BY DEF LoopInv
  <2> QED
    BY DEF LoopInv, Agrees
<1>5. AskInv'
  <2> SUFFICES ASSUME NEW t \in Sender, t # s, pc'[t] = "tools" PROVE Asking(t)'
    BY DEF AskInv
  <2>1. Asking(t)
    BY DEF AskInv
  <2>2. api'[t] = api[t] /\ local'[t] = local[t] /\ turn'[t] = turn[t] /\ called'[t] = called[t]
    OBVIOUS
  <2>3. Uses(t)' = Uses(t) /\ Answered(t)' = Answered(t)
    BY <1>1
  <2> QED
    BY <2>1, <2>2, <2>3 DEF Asking, Asks
<1>6. PairInv'
  BY DEF PairInv
<1> QED
  BY <1>3, <1>4, <1>5, <1>6

\* A file that has been read again says what was stored, and the user's message.
LEMMA LoadSpeech ==
  ASSUME IInv, SpeechInv, NEW s \in Sender, Load(s)
  PROVE  SpeechInv'
<1> DEFINE m == UserMessage(s)
           old == content[file]
           new == Append(old, m)
<1>1. /\ pc[s] = "checked" /\ pc' = [pc EXCEPT ![s] = "loop"]
      /\ local' = [local EXCEPT ![s] = new]
      /\ api' = [api EXCEPT ![s] = BuildAPIMessages(local'[s])]
      /\ UNCHANGED <<content, turn, called>> /\ Readable(file)
  BY DEF Load, Opening, Goto, fileVars
<1>2. file \in Inode /\ old \in Transcript /\ old \notin {Empty, Torn}
  BY <1>1, ReadableMeans DEF IInv, TypeOK, Readable
<1>3. m \in Stored /\ m.role = "user" /\ m.from = <<s, 0, 0>>
  BY DEF UserMessage, Message, Stored, Role
<1>4. /\ new \in Transcript /\ new # <<>> /\ Last(new) = m /\ ToSet(new) = ToSet(old) \cup {m}
  BY <1>2, <1>3, FrontAndLast, ToSetOfAppend DEF Transcript
<1>5. BuildAPIMessages(new) = Append(BuildAPIMessages(old), <<m>>)
  BY <1>2, <1>3, BuildOfNewGroup DEF Joins
<1>6. BuildAPIMessages(new) \in Seq(Group) /\ BuildAPIMessages(old) \in Seq(Group)
  BY <1>2, <1>4, BuildIsGroups
<1> HIDE DEF m, old, new
<1>7. PairsUp(BuildAPIMessages(new))
  <2>1. PairsUp(BuildAPIMessages(old))
    BY <1>2 DEF SpeechInv, PairInv, old
  <2>2. /\ <<m>> \in Group /\ Distinct(<<m>>)
        /\ Ids(<<m>>, "assistant_tool_use") = {} /\ Ids(<<m>>, "tool_result") = {}
    BY <1>3, AloneInGroup
  <2> QED
    BY <1>5, <1>6, <2>1, <2>2, PairsWithGroup
<1>8. /\ pc'[s] = "loop" /\ local'[s] = new /\ api'[s] = BuildAPIMessages(new)
      /\ api' \in [Sender -> Seq(Group)]
      /\ \A t \in Sender : t # s => /\ pc'[t] = pc[t] /\ local'[t] = local[t] /\ api'[t] = api[t]
                                    /\ turn'[t] = turn[t] /\ called'[t] = called[t]
  BY <1>1, <1>6 DEF IInv, TypeOK, SpeechInv
<1>9. \A t \in Sender : ~Known(t) => \A x \in ToSet(old) : x.from[1] # t
  BY <1>2 DEF SpeechInv, OriginInv, old
<1>10. \A x \in ToSet(new) : \A t \in Sender : t # s /\ ~Known(t) => x.from[1] # t
  BY <1>3, <1>4, <1>9
<1>11. \A x \in ToSet(new) : x.role = "assistant_tool_use" => x.from[1] # s
  BY <1>1, <1>3, <1>4, <1>9 DEF Known
<1>12. Agrees(s)'
  BY <1>3, <1>4, <1>8 DEF Agrees
<1> QED
  BY <1>1, <1>7, <1>8, <1>10, <1>11, <1>12, OneSpeaks

\* An answer of the model is one group of what is rebuilt.
LEMMA RespondSpeech ==
  ASSUME IInv, SpeechInv, NEW s \in Sender, Respond(s)
  PROVE  SpeechInv'
<1>1. pc[s] = "loop" /\ UNCHANGED content
  BY DEF Respond, fileVars
<1> PICK i : i = turn[s] + 1
  OBVIOUS
<1> PICK old : old = local[s]
  OBVIOUS
<1>2. PICK a \in Answer :
        /\ local' = [local EXCEPT ![s] = @ \o Said(s, i, a)]
        /\ IF a.tools = 0
           THEN pc' = [pc EXCEPT ![s] = "saving"] /\ UNCHANGED <<api, turn, called>>
           ELSE /\ pc' = [pc EXCEPT ![s] = "tools"]
                /\ api' = [api EXCEPT ![s] = Append(@, Said(s, i, a))]
                /\ turn' = [turn EXCEPT ![s] = i]
                /\ called' = [called EXCEPT ![s] = 0]
  BY DEF Respond, Goto, Said
<1> DEFINE said == Said(s, i, a)
           new == old \o said
<1>3. i \in Nat /\ old \in Transcript /\ turn[s] \in Nat /\ turn[s] < i
  BY DEF IInv, TypeOK
<1>4. /\ said \in Transcript /\ a.tools \in Nat
      /\ \A m \in ToSet(said) : m = Text(s, i) \/ \E k \in 1..a.tools : m = Use(s, i, k)
      /\ \A k \in 1..a.tools : Use(s, i, k) \in ToSet(said)
      /\ a.tools = 0 => said = <<>> \/ said = <<Text(s, i)>>
      /\ a.tools > 0 => /\ said \in Group /\ Distinct(said)
                        /\ said[1].role \in {"assistant", "assistant_tool_use"}
                        /\ \A j \in 2..Len(said) : said[j].role = "assistant_tool_use"
                        /\ Last(said).role = "assistant_tool_use"
  BY <1>3, AnswerShape
<1>5. /\ Ids(said, "assistant_tool_use") = {<<s, i, k>> : k \in 1..a.tools}
      /\ Ids(said, "tool_result") = {}
  BY <1>3, AnswerAsks
<1>6. /\ old # <<>> /\ Last(old).role \in {"user", "tool_result"}
      /\ api[s] = BuildAPIMessages(old) /\ api[s] \in Seq(Group) /\ PairsUp(api[s])
  BY <1>1 DEF SpeechInv, LoopInv, Agrees, PairInv
<1>7. ToSet(new) = ToSet(old) \cup ToSet(said)
  BY <1>3, <1>4, ToSetOfConcat DEF Transcript
<1> HIDE DEF said
<1>8. local'[s] = new /\ local' = [local EXCEPT ![s] = new]
  BY <1>2 DEF IInv, TypeOK, said
<1> HIDE DEF new
<1>9. /\ Text(s, i).role = "assistant" /\ Text(s, i).from = <<s, i, 0>> /\ Text(s, i) \in Stored
      /\ \A k : Use(s, i, k).role = "assistant_tool_use" /\ Use(s, i, k).from = <<s, i, k>>
  BY <1>3 DEF Text, Use, Message, Stored, Role
<1>10. \A m \in ToSet(said) : m.from[1] = s /\ m.from[2] = i
  BY <1>4, <1>9
<1>11. \A m \in ToSet(new) : \A t \in Sender : t # s /\ ~Known(t) => m.from[1] # t
  BY <1>7, <1>10 DEF SpeechInv, OriginInv
<1>12. CASE a.tools = 0
  <2>1. /\ pc' = [pc EXCEPT ![s] = "saving"] /\ UNCHANGED <<api, turn, called>>
    BY <1>2, <1>12
  <2>2. PairsUp(BuildAPIMessages(new))
    <3>1. CASE said = <<>>
      BY <1>3, <1>6, <3>1 DEF new, Transcript
    <3>2. CASE said = <<Text(s, i)>>
      <4>1. new = Append(old, Text(s, i))
        BY <1>3, <1>9, <3>2, AppendIsConcat DEF new, Transcript
      <4>2. BuildAPIMessages(new) = Append(api[s], <<Text(s, i)>>)
        BY <1>3, <1>6, <1>9, <4>1, BuildOfNewGroup DEF Joins
      <4> QED
        BY <1>6, <1>9, <4>2, AloneInGroup, PairsWithGroup
    <3> QED
      BY <1>4, <1>12, <3>1, <3>2
  <2> QED
    BY <1>1, <1>8, <1>11, <2>1, <2>2, OneSpeaks DEF IInv, TypeOK, SpeechInv
<1>13. CASE a.tools > 0
  <2> DEFINE n == a.tools
  <2>0. n \in Nat
    BY <1>4
  <2>1. /\ pc' = [pc EXCEPT ![s] = "tools"]
        /\ api' = [api EXCEPT ![s] = Append(@, said)]
        /\ turn' = [turn EXCEPT ![s] = i]
        /\ called' = [called EXCEPT ![s] = 0]
    BY <1>2, <1>13 DEF said
  <2>2. /\ pc'[s] = "tools" /\ api'[s] = Append(api[s], said) /\ turn'[s] = i /\ called'[s] = 0
        /\ api' \in [Sender -> Seq(Group)]
        /\ \A t \in Sender : t # s => /\ pc'[t] = pc[t] /\ local'[t] = local[t] /\ api'[t] = api[t]
                                      /\ turn'[t] = turn[t] /\ called'[t] = called[t]
    <3>1. Append(api[s], said) \in Seq(Group)
      BY <1>4, <1>6, <1>13
    <3> QED
      BY <1>8, <2>1, <3>1 DEF IInv, TypeOK, SpeechInv
  <2>3. Last(api'[s]) = said /\ Front(api'[s]) = api[s] /\ api'[s] # <<>>
    BY <1>4, <1>6, <1>13, <2>2, FrontAndLast
  <2>4. BuildAPIMessages(new) = api'[s]
    <3>1. BuildAPIMessages(old \o said) = Append(BuildAPIMessages(old), said)
      BY <1>3, <1>4, <1>6, <1>13, BuildOfAnswer
    <3> QED
      BY <1>6, <2>2, <3>1 DEF new
  <2>5. \A m \in ToSet(old) :
          m.role = "assistant_tool_use" /\ m.from[1] = s => m.from[2] <= turn[s] /\ m.from[2] # i
    <3>1. \A m \in ToSet(old) : m.from[2] \in Nat
      BY <1>3, FromIsNat DEF Transcript
    <3>2. \A m \in ToSet(old) :
            m.role = "assistant_tool_use" /\ m.from[1] = s => m.from[2] <= turn[s]
      BY <1>1 DEF SpeechInv, OriginInv
    <3> QED
      BY <1>3, <3>1, <3>2
  <2>6. \A m \in ToSet(new) :
          m.role = "assistant_tool_use" /\ m.from[1] = s => m.from[2] <= i
    <3>1. \A m \in ToSet(old) : m.from[2] \in Nat
      BY <1>3, FromIsNat DEF Transcript
    <3> QED
      BY <1>3, <1>7, <1>10, <2>5, <3>1
  <2>7. Uses(s)' = {Use(s, i, k) : k \in 1..n}
    <3>1. Uses(s)' = {m \in ToSet(new) : /\ m.role = "assistant_tool_use"
                                         /\ m.from[1] = s /\ m.from[2] = i}
      BY <1>8, <2>2 DEF Uses
    <3>2. \A m \in Uses(s)' : m \in {Use(s, i, k) : k \in 1..n}
      BY <1>4, <1>7, <1>9, <2>5, <3>1
    <3>3. \A k \in 1..n : Use(s, i, k) \in Uses(s)'
      BY <1>4, <1>7, <1>9, <3>1
    <3> QED
      BY <3>2, <3>3
  <2>8. Cardinality(Uses(s)') = n
    BY <1>3, <2>0, <2>7, CountOfUses
  <2>9. Asking(s)'
    <3>1. api'[s] # <<>> /\ PairsUp(Front(api'[s]))
      BY <1>6, <2>3
    <3>2. Cardinality(Uses(s)') \in Nat /\ called'[s] < Cardinality(Uses(s)')
      BY <1>13, <2>0, <2>2, <2>8
    <3>3. Uses(s)' = {Use(s, turn'[s], k) : k \in 1..Cardinality(Uses(s)')}
      BY <2>2, <2>7, <2>8
    <3>4. Asks(s, said, n)'
      BY <1>4, <1>5, <1>13, <2>2 DEF Asks, Distinct
    <3>5. BuildAPIMessages(local'[s]) = api'[s] /\ called'[s] = 0
      BY <1>8, <2>2, <2>4
    <3>6. Last(api'[s]) = said /\ Cardinality(Uses(s)') = n
      BY <2>3, <2>8
    <3> QED
      BY <3>1, <3>2, <3>3, <3>4, <3>5, <3>6 DEF Asking, Asks
  <2> QED
    BY <1>1, <1>8, <1>11, <2>2, <2>6, <2>9, OneSpeaks
<1> QED
  BY <1>4, <1>12, <1>13

\* The result of a tool joins the results of the turn; with the last one what is rebuilt
\* is what was said.
LEMMA CallToolSpeech ==
  ASSUME IInv, SpeechInv, NEW s \in Sender, CallTool(s)
  PROVE  SpeechInv'
<1> PICK i : i = turn[s]
  OBVIOUS
<1> PICK c : c = called[s]
  OBVIOUS
<1> PICK n : n = Cardinality(Uses(s))
  OBVIOUS
<1> PICK old : old = local[s]
  OBVIOUS
<1> PICK spoken : spoken = api[s]
  OBVIOUS
<1> DEFINE m == Result(s, i, c + 1)
           new == Append(old, m)
           said == Last(spoken)
<1>1. /\ pc[s] = "tools" /\ UNCHANGED <<content, turn>>
      /\ local' = [local EXCEPT ![s] = new] /\ called' = [called EXCEPT ![s] = c + 1]
      /\ called'[s] < n => UNCHANGED <<pc, api>>
      /\ ~(called'[s] < n) => /\ api' = [api EXCEPT ![s] = Append(@, Results(s, i, n))]
                              /\ pc' = [pc EXCEPT ![s] = AfterTurn(s)]
  BY DEF CallTool, WithResult, ResultsOf, Results, Goto, fileVars
<1>2. /\ i \in Nat /\ c \in Nat /\ old \in Transcript /\ spoken \in Seq(Group)
      /\ local'[s] = new /\ called'[s] = c + 1 /\ turn'[s] = i
  BY <1>1 DEF IInv, TypeOK, SpeechInv
<1>3. Answered(s) = Results(s, i, c) /\ Asking(s)
  BY <1>1 DEF Answered, Results, SpeechInv, AskInv
<1>4. /\ spoken # <<>> /\ PairsUp(Front(spoken)) /\ n \in Nat /\ c < n
      /\ Uses(s) = {Use(s, i, k) : k \in 1..n}
      /\ Last(said).role = "assistant_tool_use" /\ Distinct(said)
      /\ Ids(said, "assistant_tool_use") = {<<s, i, k>> : k \in 1..n}
      /\ Ids(said, "tool_result") = {}
      /\ BuildAPIMessages(old) = IF c = 0 THEN spoken ELSE Append(spoken, Results(s, i, c))
  BY <1>3 DEF Asking, Asks, Distinct
<1>5. m \in Stored /\ m.role = "tool_result" /\ m.from = <<s, i, c + 1>>
  BY <1>2 DEF Result, Message, Stored, Role
<1>6. /\ new \in Transcript /\ new # <<>> /\ Last(new) = m /\ ToSet(new) = ToSet(old) \cup {m}
  BY <1>2, <1>5, FrontAndLast, ToSetOfAppend DEF Transcript
<1>7. Results(s, i, 1) = <<Result(s, i, 1)>>
  BY DEF Results
<1>8. \A l \in Nat \ {0} :
        /\ Results(s, i, l) \in Group /\ Distinct(Results(s, i, l))
        /\ Last(Results(s, i, l)).role = "tool_result"
        /\ Ids(Results(s, i, l), "tool_result") = {<<s, i, k>> : k \in 1..l}
        /\ Ids(Results(s, i, l), "assistant_tool_use") = {}
        /\ Append(Results(s, i, l), Result(s, i, l + 1)) = Results(s, i, l + 1)
  <2> SUFFICES ASSUME NEW l \in Nat \ {0}
               PROVE  /\ Results(s, i, l) \in Group /\ Distinct(Results(s, i, l))
                      /\ Last(Results(s, i, l)).role = "tool_result"
                      /\ Ids(Results(s, i, l), "tool_result") = {<<s, i, k>> : k \in 1..l}
                      /\ Ids(Results(s, i, l), "assistant_tool_use") = {}
                      /\ Append(Results(s, i, l), Result(s, i, l + 1)) = Results(s, i, l + 1)
    OBVIOUS
  <2>1. s \in Sender /\ i \in Nat
    BY <1>2
  <2> QED
    BY <2>1, ResultsShape
<1> HIDE DEF new
<1>9. BuildAPIMessages(new) = Append(spoken, Results(s, i, c + 1))
  <2>1. CASE c = 0
    <3>1. old # <<>>
      BY <1>4, <2>1, BuildOfNone
    <3>2. Last(Last(BuildAPIMessages(old))) = Last(old)
      BY <1>2, <3>1, BuildIsGroups
    <3>3. ~Joins(Last(old), m)
      BY <1>4, <1>5, <2>1, <3>2 DEF Joins
    <3>4. BuildAPIMessages(Append(old, m)) = Append(BuildAPIMessages(old), <<m>>)
      BY <1>2, <1>5, <3>3, BuildOfNewGroup
    <3>5. <<m>> = Results(s, i, c + 1)
      BY <1>7, <2>1
    <3> QED
      BY <1>4, <2>1, <3>4, <3>5 DEF new
  <2>2. CASE c # 0
    <3>1. c \in Nat \ {0} /\ BuildAPIMessages(old) = Append(spoken, Results(s, i, c))
      BY <1>2, <1>4, <2>2
    <3>2. /\ Results(s, i, c) \in Group /\ Joins(Last(Results(s, i, c)), m)
          /\ Append(Results(s, i, c), m) = Results(s, i, c + 1)
      BY <1>5, <1>8, <3>1 DEF Joins
    <3>3. BuildAPIMessages(Append(old, m)) = Append(spoken, Append(Results(s, i, c), m))
      BY <1>2, <1>5, <3>1, <3>2, BuildOfJoining
    <3> QED
      BY <3>2, <3>3 DEF new
  <2> QED
    BY <2>1, <2>2
<1>10. \A x \in ToSet(new) : \A t \in Sender : t # s /\ ~Known(t) => x.from[1] # t
  BY <1>5, <1>6 DEF SpeechInv, OriginInv
<1>11. \A x \in ToSet(new) : x.role = "assistant_tool_use" /\ x.from[1] = s => x.from[2] <= i
  BY <1>1, <1>5, <1>6 DEF SpeechInv, OriginInv
<1>12. Uses(s)' = Uses(s)
  BY <1>1, <1>2, <1>5, <1>6 DEF Uses
<1>13. CASE c + 1 < n
  <2>1. UNCHANGED <<pc, api>>
    BY <1>1, <1>2, <1>13
  <2>2. Answered(s)' = Results(s, i, c + 1)
    BY <1>1, <1>2 DEF Answered, Results
  <2>3. Asks(s, said, n)'
    BY <1>2, <1>4 DEF Asks, Distinct
  <2>4. Asking(s)'
    <3>1. api'[s] = spoken /\ called'[s] # 0
      BY <1>2, <2>1
    <3>2. BuildAPIMessages(local'[s]) = Append(spoken, Results(s, i, c + 1))
      BY <1>2, <1>9
    <3>3. Cardinality(Uses(s)') = n
      BY <1>12
    <3> QED
      BY <1>2, <1>4, <1>12, <1>13, <2>2, <2>3, <3>1, <3>2, <3>3 DEF Asking, Asks
  <2>5. /\ pc'[s] = "tools" /\ api' \in [Sender -> Seq(Group)]
        /\ \A t \in Sender : t # s => /\ pc'[t] = pc[t] /\ local'[t] = local[t] /\ api'[t] = api[t]
                                      /\ turn'[t] = turn[t] /\ called'[t] = called[t]
    BY <1>1, <2>1 DEF IInv, TypeOK, SpeechInv
  <2> QED
    BY <1>1, <1>2, <1>10, <1>11, <2>4, <2>5, OneSpeaks
<1>14. CASE ~(c + 1 < n)
  <2>1. c + 1 = n /\ n \in Nat \ {0}
    BY <1>2, <1>4, <1>14
  <2>2. /\ api' = [api EXCEPT ![s] = Append(@, Results(s, i, n))]
        /\ pc' = [pc EXCEPT ![s] = AfterTurn(s)]
    BY <1>1, <1>2, <1>14
  <2>3. Append(spoken, Results(s, i, n)) \in Seq(Group) /\ BuildAPIMessages(new) = Append(spoken, Results(s, i, n))
    <3>1. Results(s, i, n) \in Group
      BY <1>8, <2>1
    <3>2. Append(spoken, Results(s, i, n)) \in Seq(Group)
      BY <1>2, <3>1, FrontAndLast
    <3>3. Results(s, i, c + 1) = Results(s, i, n)
      BY <2>1
    <3> QED
      BY <1>9, <3>2, <3>3
  <2>4. /\ pc'[s] \in {"loop", "saving"} /\ api'[s] = Append(spoken, Results(s, i, n))
        /\ api' \in [Sender -> Seq(Group)]
        /\ \A t \in Sender : t # s => /\ pc'[t] = pc[t] /\ local'[t] = local[t] /\ api'[t] = api[t]
                                      /\ turn'[t] = turn[t] /\ called'[t] = called[t]
    BY <1>1, <2>2, <2>3 DEF IInv, TypeOK, SpeechInv, AfterTurn
  <2>5. Front(spoken) \in Seq(Group) /\ said \in Group /\ spoken = Append(Front(spoken), said)
    BY <1>2, <1>4, LastIsAppended
  <2>6. Ids(said, "assistant_tool_use") # {}
    <3>1. 1 \in 1..n
      BY <2>1
    <3>2. <<s, i, 1>> \in Ids(said, "assistant_tool_use")
      BY <1>4, <3>1
    <3> QED
      BY <3>2
  <2>7. PairsUp(Append(spoken, Results(s, i, n)))
    BY <1>4, <1>8, <2>1, <2>5, <2>6, PairsWithTurn
  <2>8. Agrees(s)'
    BY <1>2, <1>5, <1>6, <2>3, <2>4 DEF Agrees
  <2>9. PairsUp(BuildAPIMessages(local'[s]))
    BY <1>2, <2>3, <2>7
  <2>10. pc'[s] # "tools"
    BY <2>4
  <2> QED
    BY <1>1, <1>2, <1>10, <1>11, <2>4, <2>8, <2>9, <2>10, OneSpeaks
<1> QED
  BY <1>13, <1>14

LEMMA SpeechBegins == Init => SpeechInv
<1> SUFFICES ASSUME Init PROVE SpeechInv
  OBVIOUS
<1>1. api \in [Sender -> Seq(Group)]
  BY EmptySeq DEF Init
<1>2. \A s \in Sender : local[s] = <<>> /\ pc[s] = "idle"
  BY DEF Init
<1>3. \A i \in Inode : content[i] = Empty
  BY DEF Init
<1>4. OriginInv
  <2>1. ToSet(<<>>) = {}
    BY DEF ToSet
  <2> QED
    BY <1>2, <1>3, <2>1 DEF OriginInv
<1>5. LoopInv /\ AskInv /\ PairInv
  BY <1>2, <1>3 DEF LoopInv, AskInv, PairInv
<1> QED
  BY <1>1, <1>4, <1>5 DEF SpeechInv

--------------------------------------------------------------------------------
\* Theorems

\* Every reachable state satisfies the inductive invariant, for any number of Sends,
\* turns, tools and restarts.
THEOREM Invariance == Spec => []IInv
<1>1. Init => IInv
  <2> SUFFICES ASSUME Init PROVE IInv
    OBVIOUS
  <2>1. <<>> \in Transcript
    BY EmptySeq DEF Transcript
  <2>2. local \in [Sender -> Transcript]
    BY <2>1 DEF Init
  <2>3. TypeOK
    BY <2>2 DEF Init, TypeOK, Place
  <2>4. InodeInv /\ NamesInv /\ AloneInv /\ KeptInv /\ FileIsWhole
    BY ChatAssumption DEF Init, InodeInv, NamesInv, AloneInv, KeptInv, FileIsWhole, Idle
  <2> QED
    BY <2>3, <2>4 DEF IInv
<1>2. IInv /\ [Next]_vars => IInv'
  BY MovingSteps, LoadStep, OpenStep, WriteStep, RenameStep, CreateStep, RestartStep, OtherSteps
     DEF Next, Send
<1> QED
  BY <1>1, <1>2, PTL DEF Spec

\* Unless Sends overlap, the conversation can be read at any point (saveConversation,
\* Send, CreateConversation, and a server that stops anywhere in them).
THEOREM FileStaysWhole == Spec => []FileIsWhole
BY Invariance, PTL DEF IInv

\* The exchange of an acknowledged Send that overlapped no other stays the beginning of
\* the conversation (Send, saveConversation).
THEOREM AcknowledgedIsKept == Spec => []AcknowledgedMessageIsKept
<1>1. IInv => AcknowledgedMessageIsKept
  BY DEF IInv, KeptInv, AcknowledgedMessageIsKept
<1> QED
  BY <1>1, Invariance, PTL

\* Every reachable state satisfies the invariant on what is said to the model, for any
\* number of Sends, turns, tools and restarts.
THEOREM SpeechInvariance == Spec => []SpeechInv
<1>1. Init => SpeechInv
  BY SpeechBegins
<1>2. IInv /\ SpeechInv /\ [Next]_vars => SpeechInv'
  BY SilentSteps, LoadSpeech, RespondSpeech, CallToolSpeech DEF Next, Send
<1> QED
  BY <1>1, <1>2, Invariance, PTL DEF Spec

\* Every transcript that can be read from the disk is one the model accepts: its tool uses
\* and results pair up, however Sends end, overlap and are cut off (Send, buildAPIMessages,
\* saveConversation).
THEOREM HistoryPairsUp == Spec => []StoredHistoryPairsUp
<1>1. IInv /\ SpeechInv => StoredHistoryPairsUp
  <2> SUFFICES ASSUME IInv, SpeechInv, Readable(file)
               PROVE  PairsUp(BuildAPIMessages(content[file]))
    BY DEF StoredHistoryPairsUp
  <2>1. file \in Inode /\ content[file] \notin {Empty, Torn}
    BY DEF Readable, IInv, TypeOK
  <2> QED
    BY <2>1 DEF SpeechInv, PairInv
<1> QED
  BY <1>1, Invariance, SpeechInvariance, PTL

\* After every turn what the next Send would rebuild from the transcript is what this one
\* has said to the model (Send, buildAPIMessages).
THEOREM RebuiltIsSaid == Spec => []RebuiltIsWhatWasSaid
<1>1. SpeechInv => RebuiltIsWhatWasSaid
  BY DEF SpeechInv, LoopInv, Agrees, RebuiltIsWhatWasSaid
<1> QED
  BY <1>1, SpeechInvariance, PTL

================================================================================
