--------------------------------- MODULE Wayback -------------------------------
(* The wayback module (internal/modules/discovery.go): the URLs the web archive has  *)
(* of the target are asked for page by page, as long as the archive gives a key to    *)
(* resume at, until there are enough. A query for the subdomains goes first; when it   *)
(* has given nothing, a second one for the whole domain starts from its own beginning. *)
(* The hosts in the URLs go to the shared list of names.                               *)
(*                                                                                    *)
(* External: the archive. It gives at most ArchivePage rows at a time, and at most as   *)
(* many as it is asked for. A request may fail. A row is the host in its URL; its        *)
(* parameters and its extension only shape the text of the finding.                       *)
EXTENDS ScanContext, SequencesExt

CONSTANTS
  Archives,       \* what it may hold: query 1, 2 -> the rows that match it
  ArchivePage,    \* how many rows the archive gives at a time
  ArchiveLimits,  \* values of -wayback-limit
  MaxArchivePages,\* 20
  TargetHosts,    \* the hosts of the target domain
  MaxLostPages    \* bound: requests that fail

ASSUME WaybackAssumption ==
  /\ \A a \in Archives : DOMAIN a = {1, 2} /\ \A q \in {1, 2} : a[q] \in Seq(STRING)
  /\ ArchivePage \in Nat \ {0}
  /\ ArchiveLimits \subseteq Int /\ MaxArchivePages \in Nat \ {0}

VARIABLES
  held,       \* what the archive holds
  totalLimit, \* totalLimit
  queryIdx,   \* 1 or 2
  page,       \* page
  resumeKey,  \* how many rows of the query the key skips
  allRows,    \* allRows
  lostPages,  \* history: requests that failed
  archive     \* the module: "idle", "asking", "done", or "nothing" for a limit below 1

archiveVars == <<held, totalLimit, queryIdx, page, resumeKey, allRows, lostPages, archive>>

--------------------------------------------------------------------------------
WaybackInit ==
  /\ held = [q \in {1, 2} |-> <<>>]
  /\ totalLimit = 0 /\ queryIdx = 1 /\ page = 0 /\ resumeKey = 0
  /\ allRows = <<>> /\ lostPages = 0
  /\ archive = "idle"

StartWayback ==
  /\ archive = "idle"
  /\ held' \in Archives
  /\ \E n \in ArchiveLimits :
       /\ totalLimit' = n
       /\ archive' = IF n < 1 THEN "nothing" ELSE "asking"
  /\ UNCHANGED <<queryIdx, page, resumeKey, allRows, lostPages, contextVars>>

\* Enough pages or enough rows.
Enough == page >= MaxArchivePages \/ Len(allRows) >= totalLimit

\* The inner loop is left: a first query without a row gives way to the second one.
LeaveQuery ==
  IF allRows' = <<>> /\ queryIdx = 1
  THEN /\ queryIdx' = 2 /\ page' = 0 /\ resumeKey' = 0
       /\ UNCHANGED <<archive, subdomains, findings>>
  ELSE /\ archive' = "done"
       /\ AddSharedSubdomains(ToSet(allRows') \cap TargetHosts)
       /\ Add({Finding("wayback", "result")})
       /\ UNCHANGED queryIdx

\* parseWaybackPage and appendWaybackRows: what the archive gives where there is room
\* for so many rows.
RowsOfPage(rows, room) ==
  SubSeq(rows, resumeKey + 1, Min({Len(rows), resumeKey + ArchivePage, resumeKey + room}))

\* FetchBodyRL with limit and key. A full list and the end of the rows leave the loop,
\* and so does the page limit.
AskPage ==
  /\ archive = "asking" /\ ~Enough /\ ~cancelled
  /\ LET rows == held[queryIdx]
         new == RowsOfPage(rows, totalLimit - Len(allRows))
         last == resumeKey + Len(new)
     IN  /\ allRows' = allRows \o new
         /\ IF last = Len(rows) \/ Len(allRows') >= totalLimit \/ page + 1 = MaxArchivePages
            THEN LeaveQuery /\ (queryIdx' = queryIdx => page' = page + 1 /\ resumeKey' = last)
            ELSE /\ page' = page + 1 /\ resumeKey' = last
                 /\ UNCHANGED <<queryIdx, archive, subdomains, findings>>
  /\ UNCHANGED <<held, totalLimit, lostPages, width, cancelled, endpoints>>

\* An error, another status than 200, or rows that do not parse.
PageFails ==
  /\ archive = "asking" /\ ~Enough
  /\ \/ cancelled /\ UNCHANGED lostPages
     \/ ~cancelled /\ lostPages < MaxLostPages /\ lostPages' = lostPages + 1
  /\ UNCHANGED allRows
  /\ LeaveQuery /\ (queryIdx' = queryIdx => UNCHANGED <<page, resumeKey>>)
  /\ UNCHANGED <<held, totalLimit, width, cancelled, endpoints>>

WaybackStep == StartWayback \/ AskPage \/ PageFails

WaybackReturned == archive \in {"done", "nothing"}

--------------------------------------------------------------------------------
\* Property

\* What the archive gives is read once and without a gap across pages and queries, as
\* far as the limits allow, and a domain whose subdomains it does not know is still
\* asked for; every host of the target in it reaches the shared list. (discovery.go:46-183)
ArchiveIsRead ==
  archive = "done" =>
    LET rows == held[queryIdx]
        reach == Min({totalLimit, MaxArchivePages * ArchivePage})
    IN  /\ IsPrefix(allRows, rows) /\ Len(allRows) <= totalLimit
        /\ ToSet(allRows) \cap TargetHosts \subseteq subdomains
        /\ lostPages = 0 /\ ~cancelled =>
             /\ queryIdx = IF held[1] = <<>> THEN 2 ELSE 1
             /\ allRows = SubSeq(rows, 1, Min({reach, Len(rows)}))
================================================================================
