-------------------------------- MODULE DirBrute -------------------------------
(* The dirbrute module (internal/modules/discovery.go): the list of paths with      *)
(* their extensions, a baseline of what the server says of a path that does not      *)
(* exist, one worker per path, at most `width` at a time, and then two filters over  *)
(* what was found. The first drops the 200 answers that are one page served for       *)
(* every path, the second the 403 answers that are one block page. Paths so           *)
(* sensitive that a hit must not be missed pass the first filter unless their body    *)
(* is provably the common page.                                                       *)
(*                                                                                  *)
(* External: the server. A path has a status, the size of its body and the hash of    *)
(* it with the path taken out; `soft` says that its text is that of the baseline. A   *)
(* request, or the read of its body, may fail. Different bodies have different        *)
(* hashes, none of them 0.                                                            *)
EXTENDS ScanContext, SequencesExt

CONSTANTS
  WordLists,    \* values of -dir-wordlist: the lines, <<>> if it cannot be read
  DefaultPaths, \* defaultDirPaths
  Directories,  \* the paths that end in a slash
  ExtLists,     \* values of -dir-ext: sequences of extensions
  WithExt,      \* path -> extension -> path
  Servers,      \* the servers: [baseline : [status, size], served : path ->
                \*   [status, size, hash, soft]]
  AlwaysKeep,   \* the paths isAlwaysKeepPath knows
  Classified,   \* the paths whose 200 body is a metrics page or a directory listing
  MaxFailures   \* bound: requests that fail

--------------------------------------------------------------------------------
\* The list of paths

LoadDirPaths(lines) == IF lines = <<>> THEN DefaultPaths ELSE lines

ExpandDirExtensions(list, exts) ==
  LET Of(p) == <<p>> \o IF p \in Directories THEN <<>>
                        ELSE [i \in DOMAIN exts |-> WithExt[p][exts[i]]]
      Once(out, p) == IF Contains(out, p) THEN out ELSE Append(out, p)
  IN  IF exts = <<>> THEN list
      ELSE FoldLeft(Once, <<>>, FlattenSeq([i \in DOMAIN list |-> Of(list[i])]))

PathLists == {ExpandDirExtensions(LoadDirPaths(lines), exts) : lines \in WordLists, exts \in ExtLists}

\* A server has an answer for every path it may be asked for.
ASSUME BruteAssumption ==
  \A s \in Servers :
    /\ \A list \in PathLists : list \in Seq(DOMAIN s.served)
    /\ \A p \in DOMAIN s.served : s.served[p].size \in Nat

--------------------------------------------------------------------------------
VARIABLES
  server,     \* one of Servers
  paths,      \* paths
  baseline,   \* baseline404
  tried,      \* how many paths have got a worker
  sent,       \* the paths whose worker waits for an answer
  hits,       \* result.Found
  kept,       \* result.Found after the filters
  unheard,    \* bound: paths whose request has failed
  brute       \* the module: "idle", "probing", "done", "unreachable"

bruteVars == <<server, paths, baseline, tried, sent, hits, kept, unheard, brute>>

--------------------------------------------------------------------------------
\* The filters

Status(p) == server.served[p].status
Size(p) == server.served[p].size
BodyHash(p) == server.served[p].hash
With(status) == {p \in hits : Status(p) = status}

Abs(x) == IF x < 0 THEN -x ELSE x

\* sizes[len(sizes)/2] of the sorted sizes: as many are smaller as its index or
\* fewer, and as many are not larger as that and one, or more.
Median(found) ==
  LET Below(s) == Cardinality({q \in found : Size(q) < s})
      UpTo(s) == Cardinality({q \in found : Size(q) <= s})
      middle == Cardinality(found) \div 2
  IN  CHOOSE s \in {Size(p) : p \in found} : Below(s) <= middle /\ middle < UpTo(s)

Tolerance(median, least) ==
  IF (median * 15) \div 100 < least THEN least ELSE (median * 15) \div 100

Cluster(found, least) ==
  LET median == Median(found)
  IN  {p \in found : Abs(Size(p) - median) <= Tolerance(median, least)}

IsShare(part, percent, whole) == Cardinality(part) * 100 >= percent * Cardinality(whole)

\* The body most paths of the cluster have. A map is ranged over in any order, so of
\* several that are equally frequent it is any.
ModalBodyHash(cluster) ==
  LET Having(h) == {p \in cluster : BodyHash(p) = h}
      hashes == {BodyHash(p) : p \in cluster}
  IN  {h \in hashes : \A g \in hashes : Cardinality(Having(g)) <= Cardinality(Having(h))}

BaselineConfirms(found, cluster) ==
  /\ baseline.status = 200
  /\ Abs(baseline.size - Median(found)) <= Tolerance(Median(found), 150)
  /\ IsShare(cluster, 60, found)

\* Mutant: a body of the size of the common page is taken for that page.
ShellBySize(p, shell) == TRUE

\* provablyShell, of a path of the cluster.
ProvablyShell(p, shell) == BodyHash(p) = shell

KeptBy(found, cluster, shell) ==
  {p \in found : \/ p \notin cluster
                 \/ p \in AlwaysKeep /\ ~ProvablyShell(p, shell)
                 \/ p \in Classified}

\* What is left of the 200 answers: a set of outcomes, one per choice of the shell.
ClusterFilterSoft404s ==
  LET found == With(200)
      cluster == Cluster(found, 150)
  IN  IF \/ Cardinality(found) < 8
         \/ ~IsShare(cluster, 70, found) /\ ~BaselineConfirms(found, cluster)
      THEN {found}
      ELSE {KeptBy(found, cluster, shell) : shell \in ModalBodyHash(cluster)}

FilterCatchAll403s ==
  LET forbidden == With(403)
      cluster == Cluster(forbidden, 64)
  IN  IF Cardinality(forbidden) < 5 \/ ~IsShare(cluster, 70, forbidden)
      THEN forbidden
      ELSE forbidden \ cluster

--------------------------------------------------------------------------------
\* The module

BruteInit ==
  /\ server = CHOOSE s \in Servers : TRUE
  /\ paths = <<>> /\ baseline = [status |-> 0, size |-> 0]
  /\ tried = 0 /\ sent = {} /\ hits = {} /\ kept = {} /\ unheard = {}
  /\ brute = "idle"

\* The list, and the three requests of detectSoft404Baseline: the first that is
\* answered is the baseline. When none is, the root decides whether to go on.
StartBrute ==
  /\ brute = "idle"
  /\ server' \in Servers
  /\ paths' \in PathLists
  /\ \/ ~cancelled /\ baseline' = server'.baseline /\ brute' = "probing" /\ UNCHANGED findings
     \/ /\ ~cancelled
        /\ baseline' = [status |-> 404, size |-> 0]
        /\ brute' = "probing"
        /\ UNCHANGED findings
     \/ brute' = "unreachable" /\ Add({Finding("dirbrute", "incomplete")}) /\ UNCHANGED baseline
  /\ UNCHANGED <<tried, sent, hits, kept, unheard>>
  /\ UNCHANGED <<width, cancelled, subdomains, endpoints>>

SpawnProbe ==
  /\ brute = "probing" /\ tried < Len(paths)
  /\ SlotFree(sent)
  /\ tried' = tried + 1
  /\ sent' = sent \cup {paths[tried + 1]}
  /\ UNCHANGED <<server, paths, baseline, hits, kept, unheard, brute, contextVars>>

IsHit(p) ==
  /\ Status(p) \in {200, 301, 302, 403}
  /\ ~(Status(p) = 200 /\ baseline.status = 200 /\ server.served[p].soft)

\* The answer of p, judged against the baseline, and the append under mu.
Answered(p) ==
  /\ p \in sent /\ ~cancelled
  /\ sent' = sent \ {p}
  /\ hits' = IF IsHit(p) THEN hits \cup {p} ELSE hits
  /\ UNCHANGED <<server, paths, baseline, tried, kept, unheard, brute, contextVars>>

\* An error, a body that breaks off, or a worker that panics.
Unheard(p) ==
  /\ p \in sent
  /\ \/ cancelled /\ UNCHANGED unheard
     \/ Cardinality(unheard) < MaxFailures /\ unheard' = unheard \cup {p}
  /\ sent' = sent \ {p}
  /\ UNCHANGED <<server, paths, baseline, tried, hits, kept, brute, contextVars>>

\* wg.Wait has returned: the filters, the findings of what has survived them.
JoinBrute ==
  /\ brute = "probing" /\ tried = Len(paths) /\ sent = {}
  /\ \E pages \in ClusterFilterSoft404s :
       kept' = pages \cup FilterCatchAll403s \cup With(301) \cup With(302)
  /\ Add({Finding("dirbrute", "paths")}
         \cup (IF kept' \cap Classified \cap With(200) # {} THEN {Finding("dirbrute", "content")} ELSE {})
         \cup (IF kept' \cap AlwaysKeep \cap With(200) # {}
               THEN {Finding("dirbrute", "critical")} ELSE {}))
  /\ brute' = "done"
  /\ UNCHANGED <<server, paths, baseline, tried, sent, hits, unheard>>
  /\ UNCHANGED <<width, cancelled, subdomains, endpoints>>

BruteStep ==
  \/ StartBrute \/ SpawnProbe \/ JoinBrute
  \/ \E p \in sent : Answered(p) \/ Unheard(p)

--------------------------------------------------------------------------------
\* Properties

\* The paths that were given the page p was: one body, or one block page.
Alike(p) ==
  {q \in With(Status(p)) :
     IF Status(p) = 200 THEN BodyHash(q) = BodyHash(p) ELSE Size(q) = Size(p)}

\* Two paths of about the size most have were given one page.
PageIsShared ==
  \E p, q \in Cluster(With(200), 150) : p # q /\ BodyHash(p) = BodyHash(q)

\* The filters part the common page from the real hits. A sensitive file with a body
\* of its own, and a page recognised by its content, are kept whatever requests have
\* failed, as long as two paths were given a common page; and a page that is served
\* for most paths is dropped, on sensitive paths too, and so is a block page.
\* (discovery.go:1343-1498)
SensitiveKept ==
  brute = "done" =>
    \A p \in hits :
      /\ /\ Status(p) = 200
         /\ p \in Classified \/ (p \in AlwaysKeep /\ Alike(p) = {p} /\ PageIsShared)
         => p \in kept
      /\ /\ \/ Status(p) = 200 /\ p \notin Classified /\ Cardinality(Alike(p)) >= 8
            \/ Status(p) = 403 /\ Cardinality(Alike(p)) >= 5
         /\ IsShare(Alike(p), 70, With(Status(p)))
         => p \notin kept
================================================================================
