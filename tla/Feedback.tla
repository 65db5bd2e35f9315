-------------------------------- MODULE Feedback -------------------------------
(* The modules that live on what others have found: passivesrc (passive.go) fills    *)
(* the shared list of names, permute (takeover.go) adds variants of them, httprobe   *)
(* (httprobe.go) asks each name for a web server, takeover (takeover.go) looks for   *)
(* abandoned ones, jsdeep (jsanalysis.go) fills the shared list of endpoints and     *)
(* endprobe (endpointprobe.go) asks for the sensitive ones.                          *)
(*                                                                                  *)
(* They have one shape: copy the shared list, turn it into jobs, give each job a      *)
(* worker, collect under a mutex what the workers find, join them, publish. A worker  *)
(* is one step here, from its first request to its append: between them it touches    *)
(* nothing that another one can see. A job is a pair: its kind and what it is about.  *)
(* The shared lists are in the order in which workers have appended to them, so the    *)
(* jobs made of them are a set, and any may be the next: of the scripts of jsdeep and   *)
(* the two URLs of a name that allows more orders than there are.                      *)
(*                                                                                  *)
(* External: the sources, the resolver, the hosts; each request may fail and each      *)
(* worker may panic on what it gets.                                                  *)
EXTENDS Wayback

CONSTANTS
  Domain,      \* cfg.Domain
  Sources,     \* sourcesAttempted
  Patient,     \* the source that is asked twice ("crt.sh")
  Names,       \* source -> the names it answers
  InScope,     \* the names of the target domain
  Variants,    \* name -> the candidates permuted from it
  Resolving,   \* the candidates that resolve to more than the wildcard
  Live,        \* <<scheme or "target", host>> -> [scheme, host, hash] it ends at
  NoHash,      \* no favicon
  Unclaimed,   \* the names whose page is that of an unclaimed service
  ContentJS,   \* the scripts the content module leaves in the shared list
  PageJS,      \* the scripts of the main page
  JSFlags,     \* values of -js-files
  DefaultJS,   \* 50
  Routes,      \* script -> the endpoints and the buckets in it
  Buckets,     \* those of them that are addresses of cloud storage
  ApiPrefixes, \* the endpoints that look like a namespace
  Sensitive,   \* the endpoints isSensitiveEndpoint knows
  Under,       \* short sensitive endpoint -> prefix -> the path under that prefix
  Unguarded,   \* the paths that answer with data and no authentication
  MaxMisses    \* bound: requests that fail and workers that panic

\* Only the jobs of httprobe lead to a host.
ASSUME FeedAssumption ==
  \A p \in DOMAIN Live : /\ p[1] \in {"target", "https", "http"}
                        /\ DOMAIN Live[p] = {"scheme", "host", "hash"}

VARIABLES
  feed,       \* the module that runs, or "idle"
  jobs,       \* its jobs without a worker
  asked,      \* the jobs of jsdeep, as it was started with them
  working,    \* its jobs with one
  again,      \* jobs whose first request has failed and is repeated
  collected,  \* what has been appended under the mutex, in order
  missed,     \* history: <<job, "failed" or "panic" or "favicon">>
  data        \* module -> <<the Data of its finding>>, <<>> until it has returned

feedVars == <<feed, jobs, asked, working, again, collected, missed, data>>

FeedModule == {"passivesrc", "permute", "httprobe", "takeover", "jsdeep", "endprobe"}

--------------------------------------------------------------------------------
\* Jobs

Pairs(kind, names) == {<<kind, name>> : name \in names}

ProbeJobs == {<<"target", Domain>>} \cup ({"https", "http"} \X (subdomains \ {Domain}))

\* gatherJSFiles: the shared scripts first, each once. The content module may not
\* have run, and the main page may not be there.
GatherJSFiles ==
  {FoldLeft(LAMBDA seen, js : IF Contains(seen, js) THEN seen ELSE Append(seen, js), <<>>,
            shared \o main) : shared \in {<<>>, ContentJS}, main \in {<<>>, PageJS}}

JSJobs(files, flag) ==
  LET limit == Min({Len(files), IF flag <= 0 THEN DefaultJS ELSE flag})
  IN  {<<"js", files[i]>> : i \in 1..limit}

\* The candidates for names of the target domain, made of the words around its labels.
PermutedNames == UNION {Variants[s] : s \in subdomains \cap DOMAIN Variants}

\* The sensitive endpoints, and the short ones under each prefix too.
Candidates ==
  LET sensitive == endpoints \cap Sensitive
  IN  sensitive \cup {Under[e][a] : e \in sensitive \cap DOMAIN Under, a \in endpoints \cap ApiPrefixes}

\* The jobs of a module; those of jsdeep are chosen when it starts.
JobsOf(m) ==
  CASE m = "passivesrc" -> Pairs("source", ToSet(Sources))
    [] m = "permute" -> Pairs("candidate", PermutedNames)
    [] m = "httprobe" -> ProbeJobs
    [] m = "takeover" -> Pairs("name", subdomains)
    [] m = "jsdeep" -> asked
    [] m = "endprobe" -> Pairs("endpoint", Candidates)

\* The six sources are asked at once, the endpoints one after the other, the URL of the
\* target before those of the names.
MayStart(m, job) ==
  CASE m = "passivesrc" -> TRUE
    [] m = "endprobe" -> working = {}
    [] m = "httprobe" -> SlotFree(working) /\ (job[1] = "target" \/ <<"target", Domain>> \notin jobs)
    [] OTHER -> SlotFree(working)

\* What a worker appends when it gets its answers: add keeps the names of the target
\* domain that a source knows; a variant has to resolve, and not to the wildcard; ...
SourceNames(source) == Names[source] \cap InScope
ResolvedVariant(name) == {name} \cap Resolving

\* ... a URL leads to a live host, by whatever redirects, with the hash of its icon; ...
LiveHost(probe) == {Live[p] : p \in {probe} \cap DOMAIN Live}

\* ... a name shows the page of an unclaimed service; a script is mined; an endpoint
\* on the target's own host gives data to anybody.
UnclaimedName(name) == {name} \cap Unclaimed
MinedFrom(script) == Routes[script]
OpenEndpoint(path) == {path} \cap Unguarded

Outcome(job) ==
  CASE job[1] = "source" -> SourceNames(job[2])
    [] job[1] = "candidate" -> ResolvedVariant(job[2])
    [] job[1] \in {"target", "https", "http"} -> LiveHost(job)
    [] job[1] = "name" -> UnclaimedName(job[2])
    [] job[1] = "js" -> MinedFrom(job[2])
    [] job[1] = "endpoint" -> OpenEndpoint(job[2])

--------------------------------------------------------------------------------
\* Reports

Everything == UNION {collected[i] : i \in DOMAIN collected}

\* Mutant: of two answers of one host the first is kept.
FirstCome(old, new) == old

\* Of two answers of one host, https is preferred and then the first.
Preferred(old, new) == IF new.scheme = "https" /\ old.scheme # "https" THEN new ELSE old

\* byHost: one entry per host, in the order of the appends.
Listed(list, answer) ==
  LET same == {a \in list : a.host = answer.host}
  IN  (list \ same) \cup (IF same = {} THEN {answer} ELSE {Preferred(a, answer) : a \in same})

HostsOf(answers) ==
  FoldLeft(LAMBDA list, found : UNION {Listed(list, a) : a \in found}, {}, answers)

LiveHosts == HostsOf(collected)

FaviconHashes ==
  LET hashed == {a \in LiveHosts : a.hash # NoHash}
  IN  [h \in {a.host : a \in hashed} |-> (CHOOSE a \in hashed : a.host = h).hash]

FailedSources == {s \in ToSet(Sources) : <<<<"source", s>>, "failed">> \in missed}

DataOf(m) ==
  CASE m = "passivesrc" -> [names |-> Everything, failed |-> FailedSources,
                            successful |-> ToSet(Sources) \ FailedSources]
    [] m = "httprobe" -> [hosts |-> LiveHosts, hashes |-> FaviconHashes]
    [] OTHER -> Everything

--------------------------------------------------------------------------------
\* The modules

FeedInit ==
  /\ feed = "idle" /\ jobs = {} /\ asked = {} /\ working = {} /\ again = {} /\ collected = <<>>
  /\ missed = {}
  /\ data = [m \in FeedModule |-> <<>>]

HasReturned(m) == data[m] # <<>>

\* The shared list is copied under its mutex.
StartFeed(m) ==
  /\ feed = "idle" /\ ~HasReturned(m)
  /\ feed' = m
  /\ IF m = "jsdeep"
     THEN asked' \in {JSJobs(files, flag) : files \in GatherJSFiles, flag \in JSFlags}
     ELSE UNCHANGED asked
  /\ jobs' = IF m = "jsdeep" THEN asked' ELSE JobsOf(m)
  /\ UNCHANGED <<working, again, collected, missed, data, contextVars>>

SpawnJob(job) ==
  /\ MayStart(feed, job)
  /\ working' = working \cup {job}
  /\ jobs' = jobs \ {job}
  /\ UNCHANGED <<feed, asked, again, collected, missed, data, contextVars>>

Collect(found) == collected' = IF found = {} THEN collected ELSE Append(collected, found)

\* The worker of a job gets its answers.
Answer(job) ==
  /\ job \in working /\ ~cancelled
  /\ working' = working \ {job}
  /\ Collect(Outcome(job))
  /\ UNCHANGED <<feed, jobs, asked, again, missed, data, contextVars>>

\* The page is there, its icon is not.
NoFavicon(job) ==
  /\ job \in working \cap DOMAIN Live /\ ~cancelled
  /\ Cardinality(missed) < MaxMisses
  /\ missed' = missed \cup {<<job, "favicon">>}
  /\ working' = working \ {job}
  /\ Collect({[Live[job] EXCEPT !.hash = NoHash]})
  /\ UNCHANGED <<feed, jobs, asked, again, data, contextVars>>

Miss(job, how) ==
  \/ cancelled /\ missed' = missed \cup {<<job, how>>}
  \/ ~cancelled /\ Cardinality(missed) < MaxMisses /\ missed' = missed \cup {<<job, how>>}

\* The patient source has not answered and is asked once more.
Retry(job) ==
  /\ job = <<"source", Patient>> /\ job \in working \ again
  /\ again' = again \cup {job}
  /\ UNCHANGED <<feed, jobs, asked, working, collected, missed, data, contextVars>>

\* A request fails for good, or what it brings cannot be read: recordFailure.
Fail(job) ==
  /\ job \in working
  /\ Miss(job, "failed")
  /\ working' = working \ {job}
  /\ UNCHANGED <<feed, jobs, asked, again, collected, data, contextVars>>

\* A worker panics on what it has got: RecoverWorker logs it, and nothing is recorded
\* but what jsdeep has put into its sets by then. endprobe has no workers.
PanicOn(job) ==
  /\ job \in working /\ ~cancelled /\ feed # "endprobe"
  /\ Miss(job, "panic")
  /\ working' = working \ {job}
  /\ \E found \in IF feed = "jsdeep" THEN SUBSET MinedFrom(job[2]) ELSE {{}} : Collect(found)
  /\ UNCHANGED <<feed, jobs, asked, again, data, contextVars>>

\* wg.Wait has returned. Nothing is reported where there was nothing to do or, by
\* takeover, permute and endprobe, nothing found.
JoinFeed ==
  /\ feed # "idle" /\ jobs = {} /\ working = {}
  /\ data' = [data EXCEPT ![feed] = <<DataOf(feed)>>]
  /\ AddSharedSubdomains(IF feed \in {"passivesrc", "permute"} THEN Everything ELSE {})
  /\ AddSharedEndpoints(IF feed = "jsdeep" THEN Everything \ Buckets ELSE {})
  /\ Add({Finding(feed, "result") :
            m \in {feed} \cap ({"passivesrc", "httprobe"}
                               \cup (IF Everything # {} THEN FeedModule ELSE {})
                               \cup (IF asked # {} THEN {"jsdeep"} ELSE {}))}
         \cup {Finding("jsdeep", b) : b \in IF feed = "jsdeep" THEN Everything \cap Buckets ELSE {}})
  /\ feed' = "idle" /\ collected' = <<>> /\ again' = {}
  /\ UNCHANGED <<jobs, asked, working, missed, width, cancelled>>

FeedStep(m) ==
  \/ StartFeed(m)
  \/ /\ feed = m
     /\ \/ JoinFeed
        \/ \E job \in jobs : SpawnJob(job)
        \/ \E job \in working : Answer(job) \/ NoFavicon(job) \/ Retry(job) \/ Fail(job) \/ PanicOn(job)

--------------------------------------------------------------------------------
\* Properties

Missed(job) == \E how \in {"failed", "panic"} : <<job, how>> \in missed

\* passivesrc: a source that is listed as successful, and has not panicked, has all its
\* names in the shared list.
SourcesAreListed ==
  HasReturned("passivesrc") =>
    \A s \in data["passivesrc"][1].successful :
      <<<<"source", s>>, "panic">> \notin missed => SourceNames(s) \subseteq subdomains

\* httprobe: every name of the list was asked for a web server, and https is listed where
\* it answered; each host is listed once, and its icon's hash is that of the listed entry.
StandsFor(a, host) == a.host = host.host /\ (host.scheme = "https" => a.scheme = "https")
OncePerHost(list) == \A a, b \in list : a.host = b.host => a = b

HostsAreListed ==
  HasReturned("httprobe") =>
    LET listed == data["httprobe"][1].hosts
        hashes == data["httprobe"][1].hashes
    IN  /\ \A job \in ProbeJobs \cap DOMAIN Live :
             Missed(job) \/ \E a \in listed : StandsFor(a, Live[job])
        /\ OncePerHost(listed)
        /\ \A a \in listed : a.hash = IF a.host \in DOMAIN hashes THEN hashes[a.host] ELSE NoHash

\* takeover: every abandoned name of the list is found.
NamesAreChecked ==
  HasReturned("takeover") =>
    \A s \in subdomains \cap Unclaimed : Missed(<<"name", s>>) \/ s \in data["takeover"][1]

\* jsdeep: what a script holds is in the list of endpoints, or reported as a bucket.
ScriptsAreMined ==
  HasReturned("jsdeep") =>
    \A job \in asked : Missed(job) \/
      \A e \in Routes[job[2]] :
        IF e \in Buckets THEN Finding("jsdeep", e) \in findings ELSE e \in endpoints

\* endprobe: every unguarded endpoint is found.
EndpointsAreAsked ==
  HasReturned("endprobe") =>
    \A e \in Candidates \cap Unguarded : Missed(<<"endpoint", e>>) \/ e \in data["endprobe"][1]

\* What one module publishes reaches the later ones, and nothing that was answered is
\* lost on the way, whatever the order of the answers: the archive is read as far as it
\* goes, and each of the six modules has dealt with all that the lists hold for it.
\* (passive.go:62-318, httprobe.go:59-240, takeover.go:98-191, jsanalysis.go:68-258,
\* endpointprobe.go:50-139, discovery.go:46-183)
FeedbackReachesProbes == feed = "idle" =>
  /\ ArchiveIsRead
  /\ SourcesAreListed /\ HostsAreListed /\ NamesAreChecked
  /\ ScriptsAreMined /\ EndpointsAreAsked
================================================================================
