---------------------------------- MODULE Chat ---------------------------------
(* One conversation of the AI chat (webui/chat.go) and the handlers that create *)
(* it, send to it and delete it (webui/main.go). A conversation is a file, and   *)
(* no lock is held around it: Send reads it, talks to the model and to the tools *)
(* for minutes, and writes it back through a temporary file whose name it shares *)
(* with every other Send of the conversation. The server may stop at any point.  *)
(*                                                                              *)
(* A message is its role and where it comes from: the call of Send, the turn of *)
(* the tool loop and its place there. Texts, titles, times, the length of a tool *)
(* result and the order of text and tool blocks inside one answer of the model   *)
(* are left out. Owners are: one user is at work.                                *)
EXTENDS Naturals, FiniteSets, SequencesExt

CONSTANTS
  Sender,             \* calls of Send, one message of the user each
  MaxToolIterations,  \* maxToolIterations (10)
  MaxTools,           \* bound: tool uses in one answer of the model
  MaxRestarts,        \* bound: restarts of the server
  Empty, Torn,        \* a file just truncated; a file json.Unmarshal refuses
  None

ASSUME ChatAssumption == /\ MaxToolIterations \in Nat \ {0}
                         /\ MaxTools \in Nat /\ MaxRestarts \in Nat
                         /\ None \notin Sender

Created == "created"          \* the inode CreateConversation makes
Inode == Sender \cup {Created}

VARIABLES
  key, keyFile,     \* cm.config.APIKey is set; what config.json says
  file, tmp,        \* the inodes <id>.json and <id>.json.tmp name
  content,          \* what each inode holds
  pc, local, api,   \* Send: where it is, convo.Messages and apiMessages
  turn, called,     \* Send: iterCount, tool uses answered in this turn
  fd,               \* Send: the inode saveConversation has opened
  deleting,         \* handleChatDelete has found the conversation
  restarts,
  acked, clashed    \* history: Sends that returned nil; Sends that overlapped

vars == <<key, keyFile, file, tmp, content, pc, local, api, turn, called,
          fd, deleting, restarts, acked, clashed>>
sendVars == <<pc, local, api, turn, called, fd, acked, clashed>>
fileVars == <<file, tmp, content>>
keyVars == <<key, keyFile>>

--------------------------------------------------------------------------------
\* Transcripts

Role == {"user", "assistant", "assistant_tool_use", "tool_result"}
Message(role, s, i, k) == [role |-> role, from |-> <<s, i, k>>]

\* What a transcript is a sequence of.
Stored == [role : Role, from : Sender \X Nat \X Nat]

\* A file that cannot be read holds no transcript, and inodes are told apart.
ASSUME FileAssumption == /\ Empty \notin Seq(Stored) /\ Torn \notin Seq(Stored)
                         /\ Created \notin Sender \cup {None}

UserMessage(s) == Message("user", s, 0, 0)
Text(s, i) == Message("assistant", s, i, 0)
Use(s, i, k) == Message("assistant_tool_use", s, i, k)
Result(s, i, k) == Message("tool_result", s, i, k)

\* Mutant: a tool use after a text starts a message of its own.
JoinsSameRole(last, m) ==
  last.role = m.role /\ m.role \in {"assistant_tool_use", "tool_result"}

\* m goes into the API message that ends with last.
Joins(last, m) ==
  \/ m.role = "assistant_tool_use" /\ last.role \in {"assistant", "assistant_tool_use"}
  \/ m.role = "tool_result" /\ last.role = "tool_result"

\* The API messages of a stored transcript, each as the messages it is made of.
Put(out, m) ==
  IF out # <<>> /\ Joins(Last(Last(out)), m)
  THEN Append(Front(out), Append(Last(out), m))
  ELSE Append(out, <<m>>)

BuildAPIMessages(msgs) == FoldLeft(Put, <<>>, msgs)

Readable(i) == i # None /\ content[i] \notin {Empty, Torn}

\* Answers of the model: a text or none, then tool uses. A stream cut short and a
\* tool use with malformed input leave an answer with less in it.
Answer == [text : BOOLEAN, tools : 0..MaxTools]

AnswerText(s, i, a) == IF a.text THEN <<Text(s, i)>> ELSE <<>>
AnswerUses(s, i, a) == [k \in 1..a.tools |-> Use(s, i, k)]

--------------------------------------------------------------------------------

Init ==
  /\ key = FALSE /\ keyFile = "absent"
  /\ file = None /\ tmp = None /\ content = [i \in Inode |-> Empty]
  /\ pc = [s \in Sender |-> "idle"]
  /\ local = [s \in Sender |-> <<>>] /\ api = [s \in Sender |-> <<>>]
  /\ turn = [s \in Sender |-> 0] /\ called = [s \in Sender |-> 0]
  /\ fd = [s \in Sender |-> None]
  /\ deleting = FALSE /\ restarts = 0 /\ acked = {} /\ clashed = {}

Active == {s \in Sender : pc[s] \notin {"idle", "checked", "returned"}}
Goto(s, p) == pc' = [pc EXCEPT ![s] = p]
Return(s) ==
  Goto(s, "returned") /\ UNCHANGED <<local, api, turn, called, acked, clashed>>

\* handleSetChatConfig. The key stays in memory if config.json cannot be written;
\* a server that stops while it writes the file in place leaves it torn.
SetConfig ==
  /\ key' = TRUE
  /\ keyFile' \in {"saved", "torn"}
  /\ UNCHANGED <<fileVars, sendVars, deleting, restarts>>

\* The id is new, so that nobody else can meet this temporary file.
CreateConversation ==
  /\ content[Created] = Empty
  /\ content' = [content EXCEPT ![Created] = <<>>]
  /\ file' = Created
  /\ UNCHANGED <<keyVars, tmp, sendVars, deleting, restarts>>

\* handleChatMessage: configured, found (and the user's own).
StartMessage(s) ==
  /\ pc[s] = "idle" /\ key /\ Readable(file)
  /\ Goto(s, "checked")
  /\ UNCHANGED <<keyVars, fileVars, local, api, turn, called, fd, deleting, restarts, acked,
                 clashed>>

\* Mutant: only the last messages of a long conversation are carried on.
OpeningOfRecent(s) == Append(SubSeq(content[file], 2, Len(content[file])), UserMessage(s))

\* Send loads the conversation once more and adds the user's message to it.
Opening(s) == Append(content[file], UserMessage(s))

Load(s) ==
  /\ pc[s] = "checked" /\ key /\ Readable(file)
  /\ local' = [local EXCEPT ![s] = Opening(s)]
  /\ api' = [api EXCEPT ![s] = BuildAPIMessages(local'[s])]
  /\ clashed' = IF Active = {} THEN clashed ELSE clashed \cup Active \cup {s}
  /\ Goto(s, "loop")
  /\ UNCHANGED <<keyVars, fileVars, turn, called, fd, deleting, restarts, acked>>

LoadFails(s) ==
  /\ pc[s] = "checked" /\ (~key \/ ~Readable(file))
  /\ Return(s)
  /\ UNCHANGED <<keyVars, fileVars, fd, deleting, restarts>>

\* The browser has gone, or the request to the model failed: nothing is saved.
SendFails(s) ==
  /\ pc[s] = "loop"
  /\ Return(s)
  /\ UNCHANGED <<keyVars, fileVars, fd, deleting, restarts>>

\* An answer of the model. Its tool uses are recorded before any is carried out.
Respond(s) ==
  /\ pc[s] = "loop"
  /\ \E a \in Answer :
       LET i == turn[s] + 1
           said == AnswerText(s, i, a) \o AnswerUses(s, i, a)
       IN  /\ local' = [local EXCEPT ![s] = @ \o said]
           /\ IF a.tools = 0
              THEN Goto(s, "saving") /\ UNCHANGED <<api, turn, called>>
              ELSE /\ Goto(s, "tools")
                   /\ api' = [api EXCEPT ![s] = Append(@, said)]
                   /\ turn' = [turn EXCEPT ![s] = i]
                   /\ called' = [called EXCEPT ![s] = 0]
  /\ UNCHANGED <<keyVars, fileVars, fd, deleting, restarts, acked, clashed>>

\* The tool uses of this turn, and their results.
Uses(s) == {m \in ToSet(local[s]) : /\ m.role = "assistant_tool_use"
                                    /\ m.from[1] = s /\ m.from[2] = turn[s]}
ResultsOf(s) == [k \in 1..Cardinality(Uses(s)) |-> Result(s, turn[s], k)]

\* Mutant: a failed call leaves no result (here: every first call of a turn fails).
WithResultUnlessError(s) ==
  IF called[s] = 0 THEN local[s] ELSE Append(local[s], Result(s, turn[s], called[s] + 1))

\* The transcript with the result of the next tool; an error is one like any other.
WithResult(s) == Append(local[s], Result(s, turn[s], called[s] + 1))

AfterTurn(s) == IF turn[s] < MaxToolIterations THEN "loop" ELSE "saving"

\* The next tool is called. With the last one the results go to the model, unless
\* this was the last turn.
CallTool(s) ==
  /\ pc[s] = "tools"
  /\ local' = [local EXCEPT ![s] = WithResult(s)]
  /\ called' = [called EXCEPT ![s] = @ + 1]
  /\ IF called'[s] < Cardinality(Uses(s))
     THEN UNCHANGED <<pc, api>>
     ELSE /\ api' = [api EXCEPT ![s] = Append(@, ResultsOf(s))]
          /\ Goto(s, AfterTurn(s))
  /\ UNCHANGED <<keyVars, fileVars, turn, fd, deleting, restarts, acked, clashed>>

\* Mutant: the conversation is written in place.
FileItself(s) == IF file = None THEN s ELSE file

\* saveConversation: os.WriteFile opens the temporary file, creating or
\* truncating it, and writes it; os.Rename then puts it in place.
TmpOf(s) == IF tmp = None THEN s ELSE tmp

OpenTmp(s) ==
  /\ pc[s] = "saving"
  /\ tmp' = TmpOf(s)
  /\ fd' = [fd EXCEPT ![s] = TmpOf(s)]
  /\ content' = [content EXCEPT ![TmpOf(s)] = Empty]
  /\ Goto(s, "opened")
  /\ UNCHANGED <<keyVars, file, local, api, turn, called, deleting, restarts, acked, clashed>>

\* What a file holds after s wrote to it from its beginning: of data another
\* Send wrote since it was truncated a longer tail may remain.
Overwritten(s) ==
  IF content[fd[s]] = Empty THEN {local[s]} ELSE {local[s], Torn}

WriteTmp(s) ==
  /\ pc[s] = "opened"
  /\ \E data \in Overwritten(s) : content' = [content EXCEPT ![fd[s]] = data]
  /\ Goto(s, "written")
  /\ UNCHANGED <<keyVars, file, tmp, local, api, turn, called, fd, deleting, restarts,
                 acked, clashed>>

OpenFails(s) ==
  /\ pc[s] = "saving"
  /\ Return(s)
  /\ UNCHANGED <<keyVars, fileVars, fd, deleting, restarts>>

WriteFails(s) ==
  /\ pc[s] = "opened"
  /\ \E data \in {content[fd[s]], Torn} : content' = [content EXCEPT ![fd[s]] = data]
  /\ Return(s)
  /\ UNCHANGED <<keyVars, file, tmp, fd, deleting, restarts>>

Rename(s) ==
  /\ pc[s] = "written" /\ tmp # None
  /\ file' = tmp /\ tmp' = None
  /\ acked' = acked \cup {s}
  /\ Goto(s, "returned")
  /\ UNCHANGED <<keyVars, content, local, api, turn, called, fd, deleting, restarts, clashed>>

\* Another Send has renamed the temporary file away.
RenameFails(s) ==
  /\ pc[s] = "written" /\ tmp = None
  /\ Return(s)
  /\ UNCHANGED <<keyVars, fileVars, fd, deleting, restarts>>

\* handleChatDelete finds the conversation, then removes the file if it is there.
DeleteStart ==
  /\ ~deleting /\ Readable(file)
  /\ deleting' = TRUE
  /\ UNCHANGED <<keyVars, fileVars, sendVars, restarts>>

DeleteConversation ==
  /\ deleting
  /\ deleting' = FALSE
  /\ file' = None
  /\ UNCHANGED <<keyVars, tmp, content, sendVars, restarts>>

\* The server stops and starts again: NewChatManager reads config.json.
Restart ==
  /\ restarts < MaxRestarts
  /\ restarts' = restarts + 1
  /\ key' = (keyFile = "saved")
  /\ pc' = [s \in Sender |-> IF pc[s] = "idle" THEN "idle" ELSE "returned"]
  /\ deleting' = FALSE
  /\ UNCHANGED <<keyFile, fileVars, local, api, turn, called, fd, acked, clashed>>

Send(s) ==
  \/ Load(s) \/ LoadFails(s) \/ Respond(s) \/ SendFails(s) \/ CallTool(s)
  \/ OpenTmp(s) \/ OpenFails(s) \/ WriteTmp(s) \/ WriteFails(s) \/ Rename(s) \/ RenameFails(s)

Next ==
  \/ SetConfig \/ CreateConversation
  \/ \E s \in Sender : StartMessage(s) \/ Send(s)
  \/ DeleteStart \/ DeleteConversation \/ Restart

Spec == Init /\ [][Next]_vars

--------------------------------------------------------------------------------
\* Properties

\* The tool uses that the messages of a role in a group stand for.
Ids(group, role) == {m.from : m \in {n \in ToSet(group) : n.role = role}}

\* Each answer with tool uses is followed by the results of exactly these, once each.
PairsUp(groups) ==
  \A g \in DOMAIN groups :
    /\ \A i, j \in DOMAIN groups[g] : groups[g][i] = groups[g][j] => i = j
    /\ Ids(groups[g], "assistant_tool_use") # {} =>
         /\ g + 1 \in DOMAIN groups
         /\ Ids(groups[g + 1], "tool_result") = Ids(groups[g], "assistant_tool_use")
    /\ Ids(groups[g], "tool_result") # {} =>
         g > 1 /\ Ids(groups[g - 1], "assistant_tool_use") # {}

\* The model accepts a conversation only if its tool uses and results pair up: so do
\* those of every transcript on the disk, however Sends end, overlap and are cut off
\* (Send, buildAPIMessages).
StoredHistoryPairsUp == Readable(file) => PairsUp(BuildAPIMessages(content[file]))

\* What the next Send will rebuild from the file is what this one said to the
\* model: the two ways apiMessages comes about agree after every turn.
RebuiltIsWhatWasSaid ==
  \A s \in Sender : pc[s] = "loop" => BuildAPIMessages(local[s]) = api[s]

\* What a Send left that returned without an error, and overlapped no other Send,
\* stays the beginning of the conversation for as long as this exists, whatever
\* the Sends, failures and restarts that come later.
AcknowledgedMessageIsKept ==
  \A s \in acked \ clashed :
    Readable(file) => IsPrefix(local[s], content[file])

\* Unless Sends overlap, the conversation can be read at any point, in the middle
\* of a save or after a stop there.
FileIsWhole == clashed = {} /\ file # None => Readable(file)
================================================================================
