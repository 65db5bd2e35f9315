--------------------------------- MODULE Crawler --------------------------------
(* The crawler module (internal/modules/crawler.go). The queue is drained in        *)
(* batches; each URL of a batch gets a worker, at most `width` at a time, and the    *)
(* batch is joined before the next one is drained. A worker marks its URL as         *)
(* visited, fetches it, and, if it is an HTML page and the page limit is not         *)
(* reached, lists it, mines it for links, parameters and endpoints, and queues the   *)
(* links of this host that nobody has visited yet.                                   *)
(*                                                                                  *)
(* External: the site. A URL is answered by an HTML page, by another document, by    *)
(* the shell a single-page application gives for every path, or by an error. A page  *)
(* may break the worker that reads it, and a fetch may fail.                         *)
EXTENDS ScanContext, SequencesExt

CONSTANTS
  Target,          \* the root URL
  Site,            \* URL -> [answer : {"page", "document", "shell", "error"},
                   \*         links : sequence of URLs, endpoint : BOOLEAN]
  Clean,           \* URL -> the URL without a trailing slash
  PageFlags,       \* values of -crawl-pages
  DefaultPages,    \* 100
  AttemptsPerPage, \* 5
  ExtraAttempts,   \* 10
  MaxMishaps       \* bound: fetches that fail and workers that panic

ASSUME CrawlerAssumption ==
  /\ PageFlags \subseteq Int
  /\ {DefaultPages, AttemptsPerPage, ExtraAttempts, MaxMishaps} \subseteq Nat
  /\ Target \in DOMAIN Site /\ Clean \in [DOMAIN Site -> DOMAIN Site]
  /\ \A u \in DOMAIN Site : /\ Clean[Clean[u]] = Clean[u]
                            /\ Site[u].links \in Seq(DOMAIN Site)

VARIABLES
  maxPages,  \* the page limit
  queue,     \* queue
  batch,     \* what is left of the drained batch
  fetches,   \* the workers: bag of [url, step] as a function of their number
  visited,   \* visited
  pages,     \* result.Pages, by URL
  apis,      \* endpointSet
  refused,   \* history: URLs dropped because of a limit, a failure or a panic
  mishaps,   \* bound
  crawl      \* the module: "idle", "draining", "batch", "sending", "done"

crawlVars == <<maxPages, queue, batch, fetches, visited, pages, apis, refused, mishaps, crawl>>

--------------------------------------------------------------------------------
URL == DOMAIN Site

\* HTML, and not the shell of a single-page application anywhere but at the root.
IsPage(u) == Site[u].answer = "page" \/ (Site[u].answer = "shell" /\ Clean[u] = Target)

MaxVisits == maxPages * AttemptsPerPage + ExtraAttempts

\* Workers are numbered by the slot of the semaphore they hold.
Slot == 1..width
Fetching == {i \in Slot : fetches[i].step # "none"}
NoFetch == [url |-> Target, step |-> "none"]
Leave(i) == fetches' = [fetches EXCEPT ![i] = NoFetch]
Advances(i, step) == fetches' = [fetches EXCEPT ![i].step = step]

Full == Cardinality(pages) >= maxPages
Refuse(u) == refused' = refused \cup {u}

CrawlInit ==
  /\ maxPages = DefaultPages
  /\ queue = <<>> /\ batch = <<>>
  /\ fetches = [i \in Slot |-> NoFetch]
  /\ visited = {} /\ pages = {} /\ apis = {}
  /\ refused = {} /\ mishaps = 0
  /\ crawl = "idle"

StartCrawl ==
  /\ crawl = "idle"
  /\ \E n \in PageFlags : maxPages' = IF n <= 0 THEN DefaultPages ELSE n
  /\ queue' = <<Target>>
  /\ crawl' = "draining"
  /\ UNCHANGED <<batch, fetches, visited, pages, apis, refused, mishaps, contextVars>>

\* The head of the outer loop: the queue becomes the batch.
Drain ==
  /\ crawl = "draining"
  /\ batch' = queue
  /\ queue' = <<>>
  /\ crawl' = "batch"
  /\ UNCHANGED <<maxPages, fetches, visited, pages, apis, refused, mishaps, contextVars>>

\* The inner loop: the next URL is taken when there are not pages enough; the send to
\* sem may then wait for a slot while workers list more pages.
TakeNext ==
  /\ crawl = "batch" /\ batch # <<>> /\ ~Full
  /\ crawl' = "sending"
  /\ UNCHANGED <<maxPages, queue, batch, fetches, visited, pages, apis, refused, mishaps, contextVars>>

SpawnFetch ==
  /\ crawl = "sending"
  /\ SlotFree(Fetching)
  /\ LET i == CHOOSE i \in Slot : i \notin Fetching
     IN  fetches' = [fetches EXCEPT ![i] = [url |-> Head(batch), step |-> "queued"]]
  /\ batch' = Tail(batch)
  /\ crawl' = "batch"
  /\ UNCHANGED <<maxPages, queue, visited, pages, apis, refused, mishaps, contextVars>>

\* The break.
BreakOff ==
  /\ crawl = "batch" /\ batch # <<>> /\ Full
  /\ batch' = <<>>
  /\ refused' = refused \cup {Clean[u] : u \in ToSet(batch)}
  /\ UNCHANGED <<maxPages, queue, fetches, visited, pages, apis, mishaps, crawl, contextVars>>

\* wg.Wait and the test that ends the outer loop.
JoinBatch ==
  /\ crawl = "batch" /\ batch = <<>> /\ Fetching = {}
  /\ IF Full \/ queue = <<>>
     THEN /\ crawl' = "done"
          /\ AddSharedEndpoints(apis)
          /\ Add({Finding("crawler", "Crawl results")})
          /\ refused' = refused \cup {Clean[u] : u \in ToSet(queue)}
     ELSE crawl' = "draining" /\ UNCHANGED <<endpoints, findings, refused>>
  /\ UNCHANGED <<maxPages, queue, batch, fetches, visited, pages, apis, mishaps>>
  /\ UNCHANGED <<width, cancelled, subdomains>>

--------------------------------------------------------------------------------
\* One worker

\* Mutant: a URL is marked as it was found, with its trailing slash.
AsFound(u) == u

\* The key of visited.
CleanURL(u) == Clean[u]

\* The first critical section.
Visit(i) ==
  LET u == CleanURL(fetches[i].url)
  IN  /\ fetches[i].step = "queued"
      /\ IF u \in visited \/ Cardinality(visited) >= MaxVisits
         THEN /\ Leave(i)
              /\ refused' = IF u \in visited THEN refused ELSE refused \cup {u}
              /\ UNCHANGED visited
         ELSE Advances(i, "fetching") /\ visited' = visited \cup {u} /\ UNCHANGED refused
      /\ UNCHANGED <<maxPages, queue, batch, pages, apis, mishaps, crawl, contextVars>>

\* FetchBodyCTRL answers; an error, an empty body, a shell or a document without links
\* ends the work.
Fetch(i) ==
  LET u == fetches[i].url
  IN  /\ fetches[i].step = "fetching"
      /\ ~cancelled
      /\ IF IsPage(u)
         THEN Advances(i, "listing")
         ELSE Leave(i)
      /\ UNCHANGED <<maxPages, queue, batch, visited, pages, apis, refused, mishaps, crawl, contextVars>>

\* The fetch fails, or the body breaks a pattern and RecoverWorker takes the panic.
Mishap(i) ==
  /\ fetches[i].step \in {"fetching", "listing", "queueing"}
  /\ \/ cancelled /\ fetches[i].step = "fetching" /\ UNCHANGED mishaps
     \/ mishaps < MaxMishaps /\ mishaps' = mishaps + 1
  /\ Leave(i)
  /\ Refuse(Clean[fetches[i].url])
  /\ UNCHANGED <<maxPages, queue, batch, visited, pages, apis, crawl, contextVars>>

\* The critical section around the page limit.
ListPage(i) ==
  LET u == fetches[i].url
  IN  /\ fetches[i].step = "listing"
      /\ IF Full
         THEN Leave(i) /\ Refuse(Clean[u]) /\ UNCHANGED pages
         ELSE Advances(i, "queueing") /\ pages' = pages \cup {u} /\ UNCHANGED refused
      /\ UNCHANGED <<maxPages, queue, batch, visited, apis, mishaps, crawl, contextVars>>

\* The links of this host that are not visited, tested one by one against both the
\* link and its resolution, never against its clean form.
Enqueue(urls, links, seen) ==
  FoldLeft(LAMBDA out, l : IF l \in seen THEN out ELSE Append(out, l), urls, links)

\* These links, the endpoint and the append under queueMu. Links are read in one step:
\* a link that is visited in the meantime is dropped by its worker.
QueueLinks(i) ==
  LET u == fetches[i].url
  IN  /\ fetches[i].step = "queueing"
      /\ queue' = Enqueue(queue, Site[u].links, visited)
      /\ apis' = IF Site[u].endpoint THEN apis \cup {u} ELSE apis
      /\ Leave(i)
      /\ UNCHANGED <<maxPages, batch, visited, pages, refused, mishaps, crawl, contextVars>>

CrawlStep ==
  \/ StartCrawl \/ Drain \/ TakeNext \/ SpawnFetch \/ BreakOff \/ JoinBatch
  \/ \E i \in Slot : Visit(i) \/ Fetch(i) \/ Mishap(i) \/ ListPage(i) \/ QueueLinks(i)

--------------------------------------------------------------------------------
\* Properties

\* The pages a reader of the site would list: those that answer with a page and
\* follow from the root by the links of such pages.
Followed(reached) ==
  reached \cup UNION {{Clean[l] : l \in ToSet(Site[u].links)} :
                      u \in {v \in URL : Clean[v] \in reached /\ IsPage(v)}}

HoldsTheSite(reached) == Clean[Target] \in reached /\ Followed(reached) \subseteq reached

\* No link is lost between two batches or two workers: when the crawl is over and
\* no limit, failure or panic has dropped anything, exactly the reachable URLs have
\* been visited and exactly the pages among them are listed. A page is listed once,
\* whatever spelling was found first, and the limits hold throughout.
\* (crawler.go:105-302)
CrawlIsComplete ==
  /\ Cardinality(pages) <= maxPages
  /\ Cardinality(visited) <= MaxVisits
  /\ \A u, v \in pages : Clean[u] = Clean[v] => u = v
  /\ crawl = "done" /\ refused = {} =>
       /\ HoldsTheSite(visited)
       /\ \A reached \in SUBSET URL : HoldsTheSite(reached) => visited \subseteq reached
       /\ {Clean[u] : u \in pages} = {v \in visited : IsPage(v)}
================================================================================
