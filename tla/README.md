# w1r3hound: a verification project in TLA+

w1r3hound is a reconnaissance toolkit written in Go: a command-line program
(`src/main.go`, `src/internal`) and a web console (`src/webui`) that queues scans,
runs them as child processes or through an in-process MCP server, streams their
logs and keeps their reports. The modules in this directory model the concurrent
core of the console (scans, logs, MCP bridge, accounts, chat) and a whole scan, from
its flags through the modules that share state or workers to its report. TLC checks
them on small instances; TLAPS proves the safety properties of the passing runs for all
values of the constants.

## 1. Inventory

| Part | State it keeps | Operations | Talks to | What makes it correct |
|---|---|---|---|---|
| Scan manager (`webui/jobs.go`) | job map, queue, job fields, the files of a scan | Submit, SubmitMCP, Cancel, Delete, worker, run, runMCP, finish | child process, MCP bridge, disk, handlers | every accepted scan ends, once; a name leads to one scan; reports stay with the scan that wrote them |
| Log stream (`webui/jobs.go`, `handleEvents`) | log buffer, subscribers, channels | appendLog, subscribe, unsubscribe, finish | workers, bridge callbacks, browsers | no gap or repetition between replay and live lines; every watcher is released |
| MCP bridge (`webui/mcpbridge.go`) | pending calls, callbacks, two pipes | Scan, CallTool, Prompts, GetPrompt, readLoop, drainPending | scan manager, chat, MCP server | answers reach their caller; nobody blocks for ever; nothing is left behind |
| MCP server (`internal/mcp/server.go`) | active requests, log level, output lock | dispatch, handleToolsCall, handleCancelled | bridge or stdio client, scan modules | one answer per request; a cancellation stops its own request |
| MCP tools (`internal/mcp/tools.go`) | none between calls | executeTool | scan modules | the same pipeline as the CLI |
| Accounts (`webui/auth.go`) | users, their file, sessions, login limiter | setup, login, change, reset, delete, unlock | handlers, disk | an administrator remains; memory and file agree; a change ends old sessions |
| Chat (`webui/chat.go`) | configuration, one file per conversation | Send, create, delete, configure | language model, bridge | no acknowledged message is lost; a stored transcript can be continued |
| Routes (`webui/main.go`) | none | one handler per route | all of the above | ownership is checked on what is acted upon |
| Validation, workflows, password hashing (`webui/*.go`) | none | pure functions | handlers | arguments stay in their table |
| Front end (`webui/static/js`) | view state | fetch, event stream | routes | shows what the server sent |
| CLI pipeline (`main.go`) | configuration, report | phases, interrupt handler | modules, report | every selected module has its turn, whatever panics; a partial report survives an interrupt |
| Core (`internal/core`, `internal/report`) | findings, shared context, rate limiter | Add, Snapshot, Finalize, Wait, Stop, GenerateReport | all modules | JSON and Markdown agree; nobody waits for a token that never comes |
| DNS engine (`dns.go`, `dnsengine.go`) | cursor, wildcard sample, found names | lookups with retries, a worker per word | resolvers, rate limiter | one bad resolver is survived; wildcards and live services are not reported |
| Port scan (`portscan.go`) | open ports | a sweep per address, a worker per port, retried dials | network | a port is closed only if it dropped both dials |
| Crawler (`crawler.go`) | queue, visited set, pages | batches of fetches under two limits | site, endpoint list | without a limit every reachable page is listed once |
| Directory search (`discovery.go`) | hits | a worker per path, two filters | server | sensitive hits survive the filters, common pages do not |
| Archive and passive modules (`discovery.go`, `passive.go`, `takeover.go`) | names, per-source verdicts | paged queries, sources, permutations | archives, name list | names reach every later module; a successful source is complete |
| Live probes (`httprobe.go`, `jsanalysis.go`, `endpointprobe.go`) | hosts, icons, endpoints | a worker per name, script or endpoint | name and endpoint lists | one entry per host, https preferred; nothing answered is lost |
| Other scan modules | none that is shared but the report | one Run function each | network | findings only |

What is hard here: a scan is touched by its worker, by any number of concurrent
Cancel and Delete calls, by browsers that come and go and by callbacks of the
bridge, under two kinds of locks, with files removed and written outside of them;
the server may die between any two steps and its children may survive; both pipes
of the bridge are synchronous, so every write waits for somebody. Conversations of
the chat are read, used for minutes and written back with no lock at all. In a scan,
worker pools of one width wait for slots, tokens and joins while requests fail,
deadlines pass, workers panic and an interrupt reports beside main; and what one
module publishes is what a later one depends on. The complete list, each hazard at its line with the properties that cover it or the reason why
none does yet, is under `hazards` in `PROJECT.json`.

## 2. Modules

| Module | Models | Kind |
|---|---|---|
| `ScanLifecycle` | what the manager promises about scans | abstract specification |
| `ScanManager` | the manager, its workers, files, crash and restart | specification |
| `ScanManagerProofs` | inductive invariant and safety of `ScanManager` | proofs |
| `ScanManagerGuarantees` | action properties, reports, sidecars, flags, refinement | proofs |
| `LogStream` | the log of one scan and its watchers | specification |
| `LogStreamProofs` | inductive invariant and safety of `LogStream` | proofs |
| `MCPBridge` | the bridge and the server end of its pipes | specification |
| `MCPBridgeProofs` | inductive invariant and safety of `MCPBridge` | proofs |
| `AccountRegister` | what the account store promises | abstract specification |
| `Accounts` | user store, sessions, login limiter and their handlers | specification |
| `AccountsProofs` | inductive invariant, safety and refinement of `Accounts`, the login limiter | proofs |
| `Chat` | one conversation, its Sends, its files, the configuration | specification |
| `ChatProofs` | files of a conversation, and what is said to the model | proofs |
| `ScanContext` | what the modules of a scan share | component |
| `RateLimiter` | the limiter of `-rate` | component |
| `SubdomainEnum` | dns: the brute force over the resolver pool | component |
| `PortScan` | portscan: sweeps, retried dials, verdicts | component |
| `Crawler` | crawler: queue, batches, limits | component |
| `DirBrute` | dirbrute: paths, baseline, the two filters | component |
| `Wayback` | wayback: pages, resume key, second query | component |
| `Feedback` | passivesrc, permute, httprobe, takeover, jsdeep, endprobe | component |
| `ScanPipeline` | main and executeScan: flags, module order, panics, reports, interrupt | component |
| `Recon` | a whole scan: the pipeline with the modules in their places | composition |
| `ReconProofs` | report, limiter, port scan and crawl of `Recon` | proofs |
| `ReconGuarantees` | lookups of dns, filters of dirbrute and the feedback between modules, within `Recon` | proofs |
| `MCScanManager`, `MCLogStream`, `MCMCPBridge`, `MCAccounts`, `MCChat`, `MCRecon` | instances for TLC | model checking |

### ScanManager

One action is one critical section of `Manager.mu` or `Job.mu`, one effect on the
disk, or one event of a child or of the bridge. A `*Job` is a model value that is
allocated once (`status` leaves `"none"` once); `jobs`, `queue`, `status`, `base`,
`cancelFn`, `closed` and `hasReport` are the fields of the same name (`base` is the
ID, `closed` also stands for the closed log file). `files[s][e]` is what the file `s.e`
holds: the report, the sidecar or the log of a scan, or what a failed write left of a
sidecar. The paths of two names need not be disjoint: `outputNameRe` (`validate.go:99`)
admits the name `foo.meta`, whose JSON report is the sidecar of `foo`
(`metaPath`, `jobs.go:302`). `SidecarName` is this map of names, so `Submit`,
`DeleteFile`, every writer of a report and the check of a free name (`Accepts`) meet the
file of the other scan where the code does. `unsaved` is a history: the scans whose
sidecar could not be opened. A worker goroutine is a control location
`pc[w]`, the job it took, and the status it will pass to `finish`. The lookup of
Cancel under the manager's lock and its effect under the job's are separate steps,
as are Delete's eviction and the removal of each of its four files. `run` and
`runMCP` share `Dequeue`, `SkipCancelled`, `StartRun`, `Finish` and
`RefreshReportMeta`. The child saves the JSON, then the Markdown, each of which may
fail; it may die in between. `Restart` loses everything in memory; a child that was
running becomes an orphan that may still write its reports. `Submit` stands for
Submit and SubmitMCP, which differ in the kind of job only.

Abstracted: the text and size of reports, severity counts, time stamps, partly
written files (except the sidecar, where a truncated file is unreadable), log
lines (see `LogStream`), and the `cancel()` deferred in `run`, which comes after the
last use of the context.

### LogStream

The lines of one scan, numbered in the order in which `appendLog` took the lock,
the ring buffer, the subscribers with their bounded channels, and one handler per
connection. A full channel drops the line (`missed`). `finish` is two critical
sections, as in the code. With `LateLines` a callback still logs afterwards, which
`MCPBridge` shows to happen: `RunCallback` is possible when Scan has returned.

### MCPBridge

Both pipes are `io.Pipe`: a write is a rendezvous with the reader on the other
side, so `Write` and `WriteCancel` need the server's run loop to be reading, and
every message of the server needs `readLoop` to be reading. A call is its own id
(the counter is atomic). `readLoop` is a sequence of steps because it drops the
table's lock before it sends to the caller or runs a callback. With `Oversize` a
response exceeds the 10 MB limit of its scanner: the loop ends, `done` is closed,
the callers are drained, and the goroutine that was writing keeps the server's
output lock for good, which in the model is simply that nobody takes its message.
Requests other than scans are executed in the run loop itself, as in the code.
`MCPBridge.Close` is called by tests only and is not modelled, so writes block but
never fail.

### Accounts

A request is a goroutine with a control location `at[r]` and its local variables
`job[r]`; a step is one critical section of `AuthManager.mu`, or of the limiter's
semaphore. Hashing and verifying happen between the steps. `users` and `disk` are
the store and `users.json`, written by `saveLocked` in one rename; `sessions` maps a
token to its session. `setup` and `login` take a slot (`Acquire`, or `Shed` for a
429) and give it back wherever they return (`Return`). `Gate` is `authGate`,
`requireAdmin` and the check against deleting one's own account, all on the state
at that moment: what the handler does afterwards it does with a copy.
`createUser` and `deleteUser` undo a change that cannot be saved; `setPassword`,
`authenticate` and `unlockUser` keep it. `Restart` reads the file again, and `Bootstrap` is
`bootstrapAdminFromEnv`, which fills an empty store when the server starts.
`LockExpires` and `Forget` are the passing of time.

Abstracted: a verification of a password succeeds or fails; a policy refuses or
not; the count of failed logins stops at its limit, where the code goes on
counting; CSRF tokens are right; the token bucket of the limiter is a `Shed` that is
always possible. `unrevoked` and the field `known` of a session are not in the
code: they mark the two exemptions of `RotationIsEnforced`, an account whose reset
was reported as failed although it took effect in memory, and a session made for
an account deleted at that moment, which comes alive if the name is used again
before it times out. Two setups at the same time may both make an administrator,
which `docs/SECURITY_ASSESSMENT.md` (line 275) accepts.

### Chat

One conversation. A call of Send is a goroutine with a location `pc[s]`, the
conversation it has loaded (`local[s]`) and the messages of its request to the model
(`api[s]`), which it keeps beside the former and does not derive from it again: that
the two stay the same is `RebuiltIsWhatWasSaid`. Files are inodes, because every save
of a conversation goes through one temporary name: two Sends that save at once open
the same inode, and one may rename away what the other is still writing.
`StartMessage`, `DeleteStart` and `DeleteConversation` are the handlers, whose check
and effect are separate. `BuildAPIMessages` is the loop of the code as a fold: a message
joins the group before it or starts one, and `PairsUp` is what the model's interface
requires of the groups. `clashed` marks Sends that overlapped: the code holds
nothing around a Send, so what one of them leaves is not promised to the other, and
`AcknowledgedMessageIsKept` and `FileIsWhole` exempt them. That a Send is not alone is
a state the console can be in: two browser tabs are enough.

Abstracted: texts, titles, times, owners, the stream of the model (an answer has a
text or not, and some tool uses, in the order the code stores them), and the tools.

### ScanContext, RateLimiter, ScanPipeline

`ScanContext` has the fields of `Config` and `ReconReport` that goroutines share; each
access is under one mutex and is one step. The lists keep first occurrences, and no
later module depends on their order, so they are sets.

`RateLimiter` is the goroutine of the ticker and the line in front of its unbuffered
channel, which serves them in the order of their arrival; without a rate nobody waits.
Only the brute force of `dns` waits in it here: the other modules take their token right
before a request, holding nothing but a slot, as dns does.

`ScanPipeline` is main from the clamp of `-c` on, and `executeScan`, which differ in
how they treat a width out of range, in which modules are selected by an empty list,
and in where the findings go. The modules still to run are a set, from which the next one
in `ModuleOrder` is taken. A write of a report is two steps, because
`os.WriteFile` truncates first; each may fail. `Interrupt` is the signal (the handler
then writes a report of its own) or a cancelled request. whois, asnmap, webserver,
metafiles, headers, content, cors, cloud, apiscan and saasenum share nothing but what
they add: they add a finding or panic, before or after.

### SubdomainEnum, PortScan, Crawler, DirBrute

The four modules whose workers touch common state between their requests. All have a
dispatcher, which hands out jobs while `SlotFree`, and workers whose steps are
separated where the code unlocks, waits or asks the network.

- `SubdomainEnum`: a lookup waits in line, takes the next place of the shared cursor,
  and is tried again elsewhere; after its addresses come the alias and the question
  whether its service exists. The cursor counts modulo `CursorSize`, as the code's
  counts modulo 2^32. The queries before the brute force are one step that leaves what
  the wildcard probes have seen, which may be less than the wildcard has, and what a
  zone transfer gives away. NXDOMAIN, an answer without addresses, and no answer are
  told apart, as `dnsengine.go` does.
- `PortScan`: addresses are swept one after the other. `drops` and `crashed` are
  histories that name the reasons a listening port may be missing. `-ports` is clamped
  to the existing ports, and an empty range is the list of common ports.
- `Crawler`: a worker visits, fetches, then lists under the lock. The page limit is
  checked when the next URL of a batch is taken (`TakeNext`) and again when a page is
  listed; between the two the loop waits for a slot (`SpawnFetch`), so a URL can be handed
  out after the limit was reached. `refused` records what the limits and mishaps have
  dropped; with it empty the crawl is complete.
- `DirBrute`: the answer of a path is a status, a size, a hash and whether its text is
  that of the baseline (`soft`, the comparison of the code on texts). Two servers: one
  gives its shell for most paths, the other blocks most of them. `PathLists` are the lists
  that can be made of the wordlists and extensions; a server answers each of their paths.

### Wayback, Feedback

`Wayback` asks page by page: the key is how many rows it skips, and what a page has is
bounded by the archive, by the rows left and by the limit. `Feedback` has the six
modules that copy a shared list, make jobs of it, join the workers and publish. Between
the first request and the append a worker touches nothing that anybody sees, so it
is one step; with the context cancelled it fails. The order of a shared list is that in
which workers have appended to it, so the jobs of a module are a set, of which any may be
started next (the target's own URL first, as in the code); for the scripts of jsdeep and the
two URLs of a name that allows a few more orders than there are. `HostsOf` is the map by
host, as the fold over the appends that it is in `httprobe.go`. `passivesrc` and `wayback` return at
once for an address or an unroutable target; the target is a name here.

`Recon` puts them together: a step is one of the running module, of the pipeline, of the
limiter, or the interrupt. What `wayback`, `passivesrc` and `permute` find is what
`httprobe` and `takeover` get; what `crawler` and `jsdeep` find is what `endprobe` and the
summary get.

## 3. Runs

| Run | Question | Instance | Distinct states |
|---|---|---|---|
| `scan_files` | What becomes of reports and sidecars, their files shared by two names, when sidecar writes fail, files are deleted late and the server dies? Are the cached flags right? Does Submit ever block? | 2 scans, 2 names of which one is the other's sidecar, 2 workers, 1 Delete, 1 restart | 2,319,000 |
| `scan_restart` | Does one name lead to one scan through reuse, Cancel and Delete? Is a scan ever stranded or uncancellable? Does every accepted scan get closed, and does the manager implement `ScanLifecycle`? | 2 scans, 1 name, 2 workers, 1 Cancel, 1 Delete, 1 restart | 504,000 |
| `log_stream` | Is what browsers see gapless and complete at the status event? Is every browser released? | 2 browsers, 5 lines, ring of 3, channel of 2 | 177,000 |
| `bridge_calls` | Do answers reach their callers, does the read loop ever block, is anything left in the tables? Does a call return once it is answered or cancelled, though the server may never finish a scan? | 2 scans, 1 request, loss of the read loop | 800,000 |
| `accounts` | Can the last administrator go, a slot be lost, a locked account be tried, a forced password change be evaded? Do memory and file agree, through failed saves and restarts? | 2 names, 2 requests, 1 session, 2 slots, 2 failures, 1 failed save | 3,446,000 |
| `chat` | Can the stored conversation always be continued, and what was acknowledged be found again, through failures, overlapping saves, a delete and a restart? | 2 Sends, 2 turns, 2 tools, 1 restart | 911,000 |
| `recon` | Is anything lost between a module that finds it, the one that needs it, and the report? Does every scan end? | 11 scans | 948,000 |
| `scan_delete_race`, `scan_cancel_ack`, `log_status_event`, `bridge_drain`, `report_files` | see below | small instances | |

Why the bounds are enough. Scans: the interesting cases need two scans for one name
(one to leave something behind and one to meet it), two workers to finish in either
order, one queue slot to be full, and one Cancel and one Delete whose steps are
spread over everybody else's; one restart leaves an orphan beside a new scan of its
name. Two names are enough for the one way in which paths of two names meet; a file of
one scan can then be written, replaced and removed by the other in either role. The log needs more lines than the ring and the ring more than a channel. On the
bridge two scans and one request give out-of-order answers, a busy run loop, and a
late call after the loss of the read loop. Two names and two requests are an
administrator and another account, deleted, reset or locked by one request while
the other is in between; with two slots one login is verifying while another locks the
account, the race of `LockStopsAttempts`. That a third request finds no slot is then left
to the proof, which has any number of both (`TypeOK`). With one token
the second session has to wait for the first to go, which loses no order of steps
on one session. Two Sends overlap, or follow one another across a restart; two turns
of two tools make a group of results that a third message follows.

The eleven scans of `recon` take one module, or the modules that feed one another, at a
time, as modules never run concurrently. One resolver of two is broken, so a lookup
meets it first or second; the 16 places of the cursor are fewer than the queries of the
instance, so the cursor comes round, where the code's does after 2^32 (see below). Two addresses of three are
IPv4, one of them is twice in the answer, and there are two drops, so both dials of a
port can be lost. The site has a cycle, two spellings of a page, a shell and a document;
the limits 0 (default) and 2 are one that is not reached and one that is. The
archives answer more than a page and more than the limits. Of everything that fails
(writes, deadlines, fetches, requests, pages) one does.

The bounds that are not constants of the program are `MaxRestarts`, `MaxLines`,
`MaxNotes`, `MaxSaveErrors`, `MaxTools`, `MaxFaults`, `MaxExpiries`, `MaxDrops`,
`MaxMishaps`, `MaxFailures`, `MaxMisses`, `MaxLostPages` and the numbers of scans,
callers, connections and Sends; queue, ring, channel and cursor sizes, `LastPort`,
`LastThreads` and the page limits of crawler and archive are scaled down.
`CHECK_DEADLOCK` is off (except in `accounts`, where a request can always arrive) because
all calls may have been made and everything be at rest, or the process have exited.

Fairness. `scan_restart` assumes weak fairness of each worker goroutine: Go
schedules it, a child ends within the program's timeouts, a bridge call returns.
The last is what `bridge_calls` checks, given that the server ends its scans
(their contexts have a timeout) and that responses fit the reader; `bridge_drain`
shows that it fails otherwise. Cancel, Delete, Submit and a restart are not obliged
to happen. `log_stream` assumes that finish comes and that each handler runs; a
browser need not connect nor leave. `bridge_calls` assumes the goroutines of the
connection, but not that a scan ever ends. `recon` assumes weak fairness of the
whole program only: some goroutine runs as long as one can, requests end in
one way or another (all have timeouts), and the ticker ticks. The interrupt need not
come.

### What the code does otherwise than it says

Five runs are expected to be violated; each states a sentence of a comment or a
test, and `findings` quotes it.

- `scan_delete_race`: Delete, between its eviction and its last `os.Remove`, takes
  away the log and the sidecar of a scan just accepted under the same name.
- `scan_cancel_ack`: a Cancel acknowledged before the child started makes the
  scan fail, and one after the verdict changes nothing.
- `log_status_event`: watchers are released before the report flags are refreshed.
- `bridge_drain`: a scan that registers after the drain waits for ever.
- `report_files`: after an interrupt the handler and main write the same two files,
  and the process may exit with one of them empty or cut off.

More of the kind was met while modelling, for which no run is kept:

- The name `foo.meta` is an output name of its own, and its JSON report is the sidecar
  of `foo`. `Submit("foo")` replaces the finished report of `foo.meta` by its sidecar,
  `Delete("foo")` removes it, and the child of `foo.meta` replaces the sidecar of a listed
  `foo`, whose owner is then read from a report; the comment of Submit has names "unique
  both among live jobs and report files already on disk" (`jobs.go:238-239`). In
  `scan_files` all of this happens; its properties say what stays true.
- A sidecar that cannot be opened stays the one of an earlier scan of that name, while
  the comment in Submit (`jobs.go:264-267`) promises that a missing one "degrades to
  admin-only". `ReportIsAttributed` has this as its one exemption (`unsaved`).
- The report flags of a scan that ended are not refreshed (`jobs.go:132`). When a Delete
  that is still at work, or the sidecar of another name, takes a file away, the flags go
  on showing it, and a sidecar at the path of a report that was never written is shown as
  one. What does hold is that no report is hidden (`OwnReportsAreShown`).
- `Accepts` looks for the `.json` of a name only, so a name whose Markdown report
  outlived a failed JSON save is accepted (`jobs.go:245-246`).
- When an over-long response has ended the read loop, a cancelled scan may not return
  either: the write of the cancellation blocks before the bounded wait starts
  (`mcpbridge.go:330-331`), because the run loop is stuck on an answer that nobody
  takes. `CancelledScanReturns` and `AnsweredCallReturns` exempt that state.
- `Token` is `None` for a log notification, so it reaches no callback
  (`mcpbridge.go:268`).
- A lookup that fails, or is cancelled, when the service behind an alias is checked
  reads as a service that does not exist (`dns.go:379`). `OneBadResolverIsSurvived`
  speaks of finished lookups and of a pool used alone.
- Concurrent lookups share the cursor, so a retry may meet the broken resolver again;
  only with `-c 1` does the property hold, and it says so.
- The cursor of the pool is a `uint32` converted to `int` (`dnsengine.go:75`): its
  wrap gives an index of -1, which panics the worker (its name is lost, the scan goes
  on). It takes 2^32 queries; the model's cursor is smaller and gets there.
- A passive source whose worker panics is listed as successful (`passive.go:62`), as
  only failures are recorded.
- `isAlwaysKeepPath` compares a lower-cased path with `.DS_Store`, which it
  therefore never keeps (`discovery.go`).
- A failed lookup of the DMARC record reads as a domain without one (`dns.go`).
- When two bodies are equally frequent, which one `modalBodyHash` calls the common
  page depends on the order of a map; `SensitiveKept` holds for either, as long as some
  page was given twice (`PageIsShared`). Without that, of a shell with a nonce no two
  bodies are equal, any may be called the common page, and if it is that of a sensitive
  file, TLC shows the file dropped, while `discovery.go:1477-1481` drops it only when it is
  known to be the shell.

## 4. Proofs

A theorem below holds for every value of the constants that satisfies the named
assumptions of its module: for any sets of scans, names, workers, callers, browsers,
Sends, addresses or pages (infinite ones where the code does not bound them), and any
capacity or limit. None of them assumes fairness. Where a theorem has a hypothesis of its
own, it is given here.

**Scan manager** (`ScanManagerProofs`, `ScanManagerGuarantees`): `TypeOK`,
`NoJobStranded`, `LiveJobIsListed`, `RunningIsCancellable`, `QueueNeverOverfull`,
`TerminalIsFinal`, `ListedReportIsOwn`, `ReportNeverOverwritten`,
`ReportIsAttributed`, `OwnReportsAreShown` and the implementation of `ScanLifecycle`,
for any names and sidecar names that differ (`NameAssumption`) and any failures.
The properties are not inductive by themselves. `IInv` adds who holds a scan: a
worker's control location determines whether it has a scan and what its status
may be, no scan is held by two workers or is both held and in the queue, the
queue has no duplicates and holds only scans that are queued or cancelled, a scan
that has a status has a name, and an orphan belongs to a lost scan. With it each
action is one lemma: most leave everything `IInv` speaks of alone (`FrameStep`) or
move one worker (`MoveStep`). `ReportInv` adds that a listed scan is listed under its own
name and alive (`ListInv`), that what a JSON file holds comes from an accepted scan
(`AuthorInv`), and that the file under a listed name is the scan's own report, an
orphan's, or the sidecar that shares the path; the two report theorems follow by looking
at who may write a file (`FileMoves`) and what `Submit` requires. `AttributionInv`
adds that a readable sidecar of a listed scan is its own unless it is in `unsaved`: a scan
that reports is listed, and a Submit that replaces the sidecar finds no report beside it.
`ShownInv` adds that only a worker closes a scan: after `finish` nobody writes a report
of a listed scan, so the one look of `refreshReportMeta` misses none. None of these
theorems has a hypothesis of its own.

**Log stream** (`LogStreamProofs`): `NoSendOnClosed`, `StatusComesLast`, `NoSilentGap`,
for any ring and channel size, with and without late lines. `IInv` says what the ring
holds (`BufferIsTail`: the latest lines, in order), what the control location of a
handler means for its channel and subscription (`HandlerInv`), and that replay, sent
lines and channel together are ascending and, with the missed ones, an unbroken run up to
the latest line the browser could get (`InOrder`, `Unbroken`). The last needs
`BufferIsTail`, since what is replayed is whatever the ring has at that moment.

**MCP bridge** (`MCPBridgeProofs`): `OwnAnswer`, `ReaderNeverBlocks`, `NothingLeaks`,
`HonestOutcome`. `IInv` adds that the server has heard of no call that is not written
(`NewCallInv`), that what is in transit goes to the call whose id it carries and that a
scan's answer comes from a goroutine that has ended (`RouteInv`), and that only a
cancelled scan waits for an acknowledgement.

**Accounts** (`AccountsProofs`): `TypeOK` (which bounds the logins and setups past the limiter), `AdminRemains`, `StoresAgree`, `RotationIsEnforced`,
`SlotsAreHeld`, `LockStopsAttempts` and the implementation of `AccountRegister`. Here
`IInv` adds what a request holds at each location (`JobInv`: a setup that is about to
store carries the administrator's role, and any other new account has an administrator
before it, who cannot be gone since) and which sessions a revocation still has to remove
(`SessionInv`: the session of an account that is gone, or that is less confined than
its account, has a request at `revoke`). The store changes in three actions only;
`RolesOrOneAccount` says that every other step keeps the roles, in memory and in
the file, and the administrators, the agreement of the two and the refinement all
follow from it. The counting properties compare a counter with the cardinality of the
set of requests that should have counted (`SlotInv`): each step adds one request to the
set, removes one, or leaves it, and the counter does the same. There may be infinitely
many requests; that those which hold a slot are finitely many is part of the invariant.

**Chat** (`ChatProofs`): `FileIsWhole`, `AcknowledgedMessageIsKept`,
`StoredHistoryPairsUp` and `RebuiltIsWhatWasSaid`. For the files, `IInv` adds that a
Send has not used its inode before it opens it, that a Send that overlaps no other has
the temporary file to itself (`AloneInv`), and that what an acknowledged Send left is in
everything that may still become the conversation: the file, the temporary file, and the
transcripts of the Sends at work (`KeptInv`). For what is said to the model, `SpeechInv`
adds whose messages are where (`OriginInv`: no message of a Send is anywhere before this
Send loads the conversation, so the uses of a turn are told apart by their origin), what
a turn in progress looks like (`AskInv`), and that not only what is stored but all that
may be pairs up (`PairInv`). The two facts about the fold, that nothing becomes nothing
and that one more message is put behind what there is (`BuildOfNone`, `BuildOfAppend`),
and that an answer becomes one group (`BuildOfAnswer`), are inductions on a length.

**A scan** (`ReconProofs`, about `Recon`, that is with every module in its place):

- `ReportIsComplete`. `PipelineInvariance` has which modules had their turn and in what
  order (`OrderInv`), where the two writers can be (`StageInv`), that after the summary
  nothing is found any more and a snapshot holds all there was (`SummaryInv`), what a
  writer that nobody competes with has written (`FilesInv`), and that only workers of
  dns stand in the line of the limiter (`LineInv`). Of the other modules the proof needs
  only that they add to what all share.
- `OpenPortsAreFound`. `ScanInv` follows each port of a sweep from its worker to an
  outcome (`SweepInv`), and each swept address to its entry in the report (`ReportedInv`).
- `CrawlInvariance`, for every site, and with the wait for a slot between the test of the
  page limit and the start of a worker: the limits on visits and pages, one worker per clean
  URL and one listing per page (`LimitInv`, `ClaimInv`), and nothing queued, visited or
  listed that the links of listed pages do not lead to (`SoundInv`).
- `CrawlIsComplete`, if two spellings of a URL are the same page (`SpellingsAgree`). The
  hypothesis is one about the site: a worker claims a URL under its clean form, and
  reads it as it was found, so of two spellings that differ the crawler reads one. The
  site of the run satisfies it. That every URL is reached is `CompleteInv`; that the pages
  among them are listed, and nothing else, is `ListedInv`: a visited page is listed, or its
  worker is still on the way to list it.
- `OneBadResolverIsSurvived`, if of two neighbouring resolvers of the pool one is sound
  (`NoTwoBroken`), a query is tried at least twice, and the name at the end of an alias is
  not an alias itself (`AliasesEnd`: what a resolver follows to its end). All three hold in
  the run; without the first, both tries of a lookup may meet broken resolvers and the
  property is false. The invariant follows a lookup from its first query to its verdict:
  what a name of the zone (`RealInv`) and a name that only the wildcard has (`GhostInv`)
  may have got at each stage, and, while one worker has the pool to itself, that a second
  try comes after a broken resolver, whose successor is next (`TriedOnce`). The cursor is
  taken modulo its size and then modulo the number of resolvers, and the wrap of the first
  breaks the succession of the second; there the code's index is -1, and the worker panics
  before it asks anybody.
- `SensitiveKept`, if two copies of a page differ in size by at most 150 bytes, the
  tolerance of the code (`CopiesAgree`). The argument is one about the median: it lies
  among the sizes of most (`MedianLies`, `MedianOfMost`), so a page that 70% were given is in the
  cluster and its body the most frequent there, and a body of one path is not, once another
  was given twice. That the hits are finitely many is an invariant (`ProbeInv`).
- `FeedbackReachesProbes`. For the archive, `ArchiveInv` has that what was read is a prefix
  of the query's rows up to the key, that between two pages the key is at the end of a full
  page, and, if no page was lost, that reading ends where the rows or a limit do. For the six
  modules, `FeedInv` has that a job which is neither waiting nor at work has left its answer
  behind or was missed (`WorkInv`, `Settled`), from which a join gets its property
  (`JoinFacts` and the lemmas behind it), and that a module which has returned has had its
  turn (`DataInv`). The last and the order of the turns (`OrderInv`) give `Later`: the list
  that a module copied is not added to once it has returned. That https is preferred and
  each host listed once, in whatever order the answers are appended, is an invariant of the
  fold, one append at a time (`HostsOfAppend`, `ListedOnce`, `ListedStands`).

Induction. The library's induction theorems take an operator and cannot be used here;
where an induction over data is needed (the folds behind the groups of the chat, the links
a worker queues and the hosts of httprobe) the proof takes the least natural number of a set of counterexamples, whose existence is the
library's theorem that `<` is well-founded on the naturals.

The assumptions on constants that carry an argument, besides those that only give a
constant its kind: inodes are told apart and a file that cannot be read holds no transcript
(`FileAssumption`), the clean form of a clean URL is itself (`CrawlerAssumption`), the
findings of a sweep are about addresses and not about one of the two other topics
(`PortAssumption`), a server has an answer for every path it may be asked for
(`BruteAssumption`), the web archive has rows for both queries (`WaybackAssumption`), only a
URL of httprobe leads to a host (`FeedAssumption`), and calls, modules and users are told apart from the values that stand
for none. TLC evaluates all of them in the runs.

Only model-checked: all liveness, which is out of the prover's reach, as is `ENABLED`
(`AcceptedScanCloses`, `WatcherIsReleased`, `AnsweredCallReturns`, `CancelledScanReturns`,
`ScanEnds`). The properties of the
violated runs are false of the code. No module has a RECURSIVE operator: recursion is
folds, so that every module stays open to proofs.

## 5. Not modelled, and the plan

In the order in which the work would go on:

1. owners: `handleDeleteScan` checks the owner of a name and then deletes whatever
   has the name by then (`webui/main.go:435`); it needs an owner in `ScanManager`;
2. the stdio side of the MCP server: ids of a foreign client, `logging/setLevel`, end of
   input;
3. the option table of `validate.go`, public suffixes and the wire format of DNS, as
   operators checked against reference definitions.

Left out for good: HTTP and DNS I/O, pattern matching over answers (what a header,
page, script or banner means), the rendering of reports and of the front end,
cryptographic arithmetic, constant catalogues, and the modules that only do these (see
the notes of `components` in `PROJECT.json`).
