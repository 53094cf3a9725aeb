# A TLA+ model of the Goonami scanner

This directory holds TLA+ modules that model the concurrent and stateful parts
of the scanner, TLC configurations that check them on small instances, and
theorems that TLAPS proves about them for every instance. `PROJECT.json` lists
the components, the runs, the source lines behind each definition, the hazards
the properties are aimed at, and for each property a fault of the code that it
notices.

Run a check with `tlc -config Pool.cfg MCWorkerPool`, the proofs about a
component with `tlapm WorkerPoolProofs.tla`; section 4 lists the modules whose
names end in `Proofs`.

## 1. The system

A scan is one call of `SimpleRunner.Run`: a port scanner finds the services of
a target, each service goes through the chain of fingerprinters, and each
resulting service through all detectors. Modules are plug-ins; the detectors
and fingerprinters share clients (HTTP, crawler, LLM, callback server, SSH).

| Component | State it keeps | Operations | Interacts with |
|---|---|---|---|
| Main program, entrypoint (`main.go`, `core/entrypoint`) | what exists so far and must be undone | `run`, `New`, `Advisories` | everything below |
| Configuration (`core/config`) | a tree of messages; directories | load, override, resolve aliases | read by all |
| Module registry (`core/module`) | registered modules | register, select by patterns, initialise | builds the runner |
| Metrics (`core/metrics`) | series, cap, dropped counts under a mutex | record, export | runner, HTTP client |
| Scan runner (`core/runner/simplerunner`) | registered modules, `degraded` flag; per stage an errgroup, results under a mutex | `Register*`, `Run` | calls every module, from up to `max_concurrency` goroutines |
| Endpoints and services (`core/net/netendpoint`, `netservice`) | none | authorities, web roots | every module |
| Port scanners (`plugins/portscan`, `common/clients/nmap`) | a temporary file; results under a mutex | `Scan` | nmap, the HTTP client |
| TLS and web service fingerprinters (`plugins/fingerprint/sslsupport`, `iswebservice`) | none | one probe, add a layer to the service | the target |
| Web fingerprinter (`plugins/fingerprint/webidentity`) | hash registry; matches of a run; space used by artifacts, the artifacts directory | load signatures, `processPage`, match, reconcile services | callbacks of the crawler, concurrently |
| HTTP crawler (`common/clients/httpcrawler`) | work count and visited set under two mutexes, a bounded channel, a shared request allowance | `Crawl`, the dispatch loop, the watcher; scopes, link extraction | HTTP client |
| HTTP client (`core/net/http`) | cookies of a session; backoff and attempt within one `Do` | `Do` with redirects and retries on 429, read an answer | used by nearly everything |
| Credential store (`common/credentialstore`) | the order of users, passwords per user | load, add, prepend | brute-force detector |
| Brute-force detector (`common/bruteforce`) | attempts, matches, exhausted flag under a mutex; a closed work channel; an errgroup | `Detect`, the worker loop | a handler per protocol (SSH, templated), a rate limiter |
| SSH detectors and client (`weakcreds/ssh`, `opensshauthbypass`, `common/clients/sshclient`) | a connection | fingerprint, test credentials, three probes | the target |
| Templated engine and detectors (`common/templatedengine`, `weakcreds/templated`) | environment of a workflow, deferred cleanups | validate, run workflow, action, cleanups | HTTP and callback clients |
| Callback server, client and identifiers (`tools/callbackserver`, `common/clients/callbackserver`, `common/callbackserver`) | interactions by identifier under a mutex, three listeners, a cleanup goroutine | start, shut down, record (HTTP, DNS), poll, clean up | targets call it; detectors poll it |
| LLM client (`common/clients/llm`) | session, attempt, deadline of one run; a forwarding goroutine per turn; token counts | `RunWithFeedbackLoop`, `runTurn` | the agent library; a verifier given by the detector |
| Agent HTTP tool (`common/clients/llm/tools/httpclient`) | request counter and session client under a mutex | `Do` | called by the agent, in parallel |
| Agentic weak-credentials detector (`plugins/detectors/adkweakcreds`) | an index and strategies, in memory and on disk | find or make a strategy, try credentials, judge | LLM client, HTTP client; several services at once |

What is hard in this system: goroutines that outlive a cancelled `Run`; checks
made under one critical section and used after another (budgets, limits,
visited pages, file existence); termination detection in the crawler; timeouts
that race a late answer of an agent; files that are cut short by a failing
write or a dying process; failing steps whose traces must be undone; results
that depend on the order of callbacks or of files; arithmetic on durations that
wraps around.

## 2. Modules and the code they model

Each action is a handler, or the part of it between two points where another
goroutine can act: a mutex section, a channel operation, a blocking call, a
write to disk. Data are reduced to what the properties tell apart; every bound
is a named CONSTANT. Definitions whose name has a suffix after an underscore
(`BudgetSpent_OneTooMany`) are deliberate faults: replacing the original by one
makes TLC find the violation named in `PROJECT.json`.

### The scan

**Scanner** (`main.go`, `entrypoint.go`) composes **Config**, **Registry** and
**Metrics**. It runs `main.run` step by step: flags, configuration, overrides,
directories, callback server, registry, runner, scan, export; each step may
fail, and the deferred calls of what exists so far run then. The scan consists
of invocations of modules on services that succeed or fail and record metrics,
one of which may leave a goroutine behind. Config and Registry are operators:
an override creates messages on the way to its field, a pattern stands for the
names it matches.

**Runner** (`simplerunner.go`). Registration, the three stages of `Run`, and
`runConcurrent` with the early return that leaves goroutines behind. A service
is a sequence, which a fingerprinter extends when it splits it, so that the
origin of each service in the report can be read off. Calls left behind by an
earlier `Run` are `stale`.

**Target** composes **PortScan**, **SshProbe**, **CredentialStore** and
**Netservice**: one target whose ports have listeners of every kind, its scan by
nmap, by HTTP or by configuration, the two fingerprinters in either order, and
both SSH detectors with a store that was loaded or built by calls. One call may
fail and the scan may be cancelled. nmap resolves the address it is given
(`HostFound`: the client has no option against it), and `parseNetworkEndpoint`
takes the first hostname, so an address with a reverse name is dialled by that
name: `Dialled` is what listens there, the target, nothing or another host.

### Clients and detectors

**WorkerPool** (`bruteforce.go`, `worker.go`). `phase` is the progress of
`Detect`, `pc[w]` that of the goroutine running worker `w`. The channel of
candidates is prefilled and closed before workers start, so it is the index
`head`. `Receive`, `CheckDone`, `CheckUser`, `HasBudget`, `LimiterWait`,
`ClaimAttempt`, `TestCredential`, `RecordMatch` and `Exit` are the sections of
`runWorker`, with the second round of checks after the limiter. `Finish` is
`group.Wait` and `pool.result`, with the sort. Whether to stop at the first
match is chosen in `Init`.

**Crawler** (`httpcrawler.go`, `crawlrun.go`). `QueueSeed`, `Receive`,
`Dispatch` and `Finish` are the caller's goroutine; `Send` is the goroutine that
`QueuePage` starts for each page; `Watch` is the watcher that closes the
channel; `StartPage` to `Release` are one slot running `crawlPage`.
`OtherCrawl` is a concurrent call that draws on the same request allowance. A
call brings the site along: keys (two URLs may have the same), links, which
URLs pass the scope check, and whether its scopes can be loaded (`LoadScopes`),
without which no seed is queued. **CrawlScope** has the operators that decide this
(`scope/scope.go`, `parser/parser.go`, `normalizeURL`), over URLs whose paths are
sequences of tokens; **CrawlSite** makes the calls of Crawler from the content
of the pages and the configuration.

**WebIdentity** composes **PageStore**. The registry is loaded from signature
files in any order; the endpoints of a service are crawled, `Slots` callbacks at
a time, each of which saves its page (stat, reserve, open, write and release of
PageStore) and adds matches; then the services found are reconciled. Two
services share registry, storage and directory.

**TemplatedEngine** (`templated.go`, the runners in `actions/`, the handler of
templated weak credentials). A plugin is validated, then several calls of its
detector run in parallel, one step per request, sleep or poll; a call is a
record with its position in the workflow and its stack of deferred cleanups.
The callback server is the set of secrets it has heard of. What a template says
is abstracted to how its actions can end.

**CallbackServer** (`callbackserver.go`, `inmemory.go`, the recording and
polling handlers, the client) with **CallbackNames** (how an identifier is put
into a URL or domain and found in it again). The order in which endpoints
start, for the scanner and for the standalone program; `Shutdown`; the store
with its cleanup goroutine; `ServeDNS`, whose handlers are given a slice of one
shared buffer: what a handler unpacks after the buffer was reused is the newer
query or neither; a poll that may fail, or be answered with the endpoint's
200 and 404 or any other status (`Replies`), of which the client makes an error,
a yes or a no (`Answer`).

**FeedbackLoop**, **AgentTurn** and **LlmClient** (`llm.go`, `session.go`,
`turn.go`). The first is the loop over attempts, with time in units, a turn
being one step; the second is one turn: the forwarding goroutine, the unbuffered
channel and the `select` of the caller, with an agent that may stall for ever.
LlmClient runs the loop with its turns event by event, the context of a turn
ending with the caller's, and is shown to implement FeedbackLoop, which is its
abstract specification.

**AgenticDetector** (`adkweakcreds`) composes **HttpTool**, **HttpClient** and
**HttpRetries**: the turns of an agent that calls the tool in parallel, the
validation and verification of its strategy, then the trying of each credential
against a rejected variant and a judge, each login with its retries. HttpTool
takes one step per access to the counter and to the session client; HttpClient
has the options, the redirect policy and the reading of answers. HttpRetries
keeps `time.Duration` as a signed integer from `-Limit` to `Limit - 1`, so that the
multiplication in `parseRetryAfter` and the doubling of the backoff wrap around
as they do in Go.

**StrategyCache** (`adkweakcreds.go`, `cache/cache.go`). `getStrategy` for
several services on one index, with `os.WriteFile` as the two steps it is, each
of which may fail, and a process that may die between any two steps.

Runner, WorkerPool, Crawler and the callback server are not composed into one
state machine: Target, WebIdentity, TemplatedEngine and Scanner each see the
others only through what a call of them can return, which the other module's
properties pin down.

## 3. Runs

| Run | Module, configuration | What it checks |
|---|---|---|
| `pool` | MCWorkerPool, Pool.cfg | `BudgetRespected`: calls really made never exceed the budget, none twice. `NothingSkipped`, `ReportExact`: what a report says is what happened, and "exhausted" only when the budget was what stopped the pool. `LateAttemptsBounded`: at most one late attempt per other worker. `DetectReturns`. `TypeOK`, the base of the proofs. |
| `crawl` | MCCrawler, Crawl.cfg | `TerminationExact`: the watcher's count is exact and the channel closed only when no sender can come. `RequestsBounded`: the allowance is kept with other crawls competing, and the check-then-mark race costs at most one request per slot. `VisitedWasRequested`: no page is lost. `ScopeKept`: requested pages are in the directory of a scope and not excluded, and nothing in scope is refused. `CrawlReturns`. |
| `runner_scan` | Runner, RunnerScan.cfg | `ServicesExact`, `FindingsExact`: a returned report and its status are exact, also on a runner used before. `RunReturns`. |
| `scan_process` | MCScanner, Scanner.cfg | `SelectionExact`: the modules that run are those the flags and patterns ask for. `ExitClean`: whatever step fails, what had been started or created is undone. `ExportExact`: exported series account for every recording, up to those that race with the export. |
| `target` | MCTarget, Target.cfg | `ScanExact`: the ports reported are those that answered, at the target's name or address or at nmap's reverse name of it. `EnrichmentTrue`: layers and web roots are what the listener speaks. `CandidatesExact`: no pair is tried twice, none that a listed user was given is missed, default credentials come before the others of their user. `FindingsTrue`: findings of both SSH detectors are true of the server that is dialled. |
| `callback_store` | MCCallbackServer, CallbackStore.cfg | `StoreExact`: the store loses no live interaction and keeps none longer than a cleanup interval. `PollIsTrue`: what a poll says was there was there, what it denies was not, unless the reply was neither 200 nor 404, and a callback to the address that was handed out is recorded. |
| `callback_dns` | MCCallbackServer, CallbackDNS.cfg | `QueriesRecorded` is violated, see section 6. |
| `llm` | LlmClient, Llm.cfg | `Coherent`: sessions, prompts and the result fit together. `AttemptsNotCutShort`: the computed deadline never ends a run early by itself. `TurnExact`: what a turn returns is whole, and counted once. `EverythingEnds` although the agent may stall. `ImplementsLoop`: refinement of FeedbackLoop, whose turn is one step. |
| `agentic` | MCAgenticDetector, Agentic.cfg | `FindingsExact`: what is reported was accepted by the site, and nothing confirmed is lost. `RetriesExact`: outcomes, bodies and delays of every request. `ToolKept`: the limit is passed by fewer requests than run in parallel, sessions are wiped, the tool keeps to its service. |
| `cache_run` | MCStrategyCache, CacheRun.cfg | `CachedFits`: a cached strategy was verified on the same login page, and an unusable one has an explanation. `DiskExact`: what is on disk after failures and crashes. |
| `web_identity` | MCWebIdentity, WebIdentity.cfg | `SpaceKept`: the artifacts' files fit in their space and each reservation is returned. `RegistryExact`: a hash identifies its one claimant, in any order of files. `ReportExact`: each application is reported once, at its root. `TrueVersionKept`: the running version is never ruled out. |
| `templated` | MCTemplatedEngine, Templated.cfg | `WorkflowExact`: a call that ends well has run its whole phase, and cleanups are those of the successful actions, latest first, each list once. `CallbackAttributed`: an interaction confirms only the service it came from. `CallsReturn`. |

**Bounds and why they suffice.** Races here are between two critical sections of
two goroutines, so two workers, slots, services or parallel calls show them;
lists are one longer than the limit they meet, so the limit is reached and
passed over (five candidates and a budget of four; four requests and nine URLs;
three tool calls, two at once, and a limit of one; more label combinations than
the cap of two series). The crawled site has a cycle, two URLs with one key, an
encoded link to an excluded page, a sibling whose name begins alike, another
host, a page whose links are lost, and a queue of capacity one, so senders
block; seeds and policies come in six combinations, two with a malformed seed:
under `EXPAND` it fails the loading of the scopes, under `CONFIG_ONLY` the
queueing of the seed, after another one was queued.
Two services and two endpoints of one have pages of one hash, small enough to be
stored: the former are saved at once, so that both callbacks open the file, one
truncating what the other has written; other pages are above the limit of a file
or find the space used up.
Two runs of the runner are needed for calls left behind; three would only repeat
it. Retries use 7 bits with a "second" of 4 units: wrap-around happens after 4
doublings instead of 33, and the values of `Retry-After` include one that is
just too long and one that wraps to a short delay. One crash of the cache
between any two writes covers each cut; a second crash starts again from the
same kinds of files. Identifiers and tool calls are symmetric: they are only
compared. Three attempts of the LLM client give a first, a middle and a last
one, and three events a chunk, the final event it belongs to and an end; a turn
lasts up to two units, so that it may end early, in time, or by its timeout. The
plugins of the templated run have one action of each sort, two actions with
cleanups, cleanups of two actions and a cleanup that names one itself. The
command lines of `scan_process` have each override that creates, replaces,
truncates or fails, and one fault per step of the start-up. Targets have up to
three ports, one of each kind of listener that the modules tell apart, and
addresses with a reverse name that leads back, to nothing or to another host;
three
calls on a store are enough for a user to be added, moved and added to. One
failing call per target: a second one only ends earlier what the first has
degraded.

**Fairness.** Five runs check liveness, under weak fairness of each goroutine's
own steps, which the Go scheduler provides: of module, handler and HTTP calls,
which return because every client has a timeout; of the crawler's watcher, which
polls on a ticker; of a turn's timeout; of a templated call's steps. Nothing
forces a cancellation, another crawl, or an agent to yield. Each blocking
operation that may wait for another goroutine is only required to proceed while
it is continuously enabled. Deadlock is checked in every run but
`scan_process`, whose process exits: elsewhere a state without a step is an
error unless `Terminated` says that everything has returned.

## 4. Proofs

The theorems hold for every value of the constants. But for what is said under
Target, each `ASSUME` says no more than that the constants have the types of the configuration and the library's
data: sizes and limits are integers or naturals as the code declares them, the
pages and slots of a crawl are finite, a page is remembered under the key that
`normalizeURL` gives it, the marker values `None`, `Torn` and `Other` stand for
nothing real, a callback configuration has passed `ValidateConfig`, the agent's
tool is given a service that has a port, and credentials are sequences of
characters. `Powers` is the table of doublings that the backoff is compared
with; its assumption defines it. Numbers that the runs keep small (times, datagrams, runs, crashes, events of a stream)
bound a behaviour, but the theorems hold for every such bound.

A theorem about a state is proved from an invariant that `Init` establishes and
every step keeps; the properties themselves are rarely inductive, and what has
to be added says why the code works. Lemmas take one action each, with a step
for each conjunct the action can disturb.

| Module | Theorems | About |
|---|---|---|
| WorkerPoolProofs | `TypeCorrect`, `BudgetIsRespected`, `NothingIsSkipped`, `ReportIsExact`, `LateIsBounded`; `ScanIsExact`, `EnrichmentIsTrue` | WorkerPool; Target, what precedes a detector |
| CrawlerProofs | `TerminationIsExact`, `NothingIsForgotten`, `RequestsAreBounded` | Crawler |
| RunnerProofs | `ServicesAreExact`, `FindingsAreExact`; `ExitIsClean` | Runner; Scanner, the process around it |
| CallbackServerProofs | `StoreIsExact`, `PollsAreTrue`; `WorkflowsExact`, `CallbacksAttributed` | CallbackServer; TemplatedEngine, a client of it |
| LlmClientProofs | `ConversationIsCoherent`, `DeadlineIsLongEnough`, `ClientImplementsLoop`, `ClientKeepsLoop`, `TurnIsExact` | FeedbackLoop, LlmClient |
| StrategyCacheProofs | `CachedStrategyFits`, `DiskIsExact` | StrategyCache |
| WebIdentityProofs | `ArtifactsFit`, `RegistryIsExact` | PageStore, WebIdentity |
| AgenticProofs | `ToolIsKept`, `RetriesAreExact`, `FindingsAreTrue` | HttpTool, HttpRetries, AgenticDetector |

### WorkerPool

`BudgetRespected` speaks of calls (`tried`), while the code compares a counter
(`attempts`), and nothing in it keeps two workers from holding the same
candidate. `IInv` adds `Ownership` (a worker between receiving and reporting
owns an index below `head`, no two the same one), `SentOnce` (an index at or
above `head`, or owned by a worker that has not claimed yet, has not been sent)
and `CounterExact` (`attempts` is the cardinality of the set of sent indices).
That `hasBudget` was checked earlier plays no part: only the check inside
`claimAttempt` is needed.

`Outcome` adds what the report rests on. `MatchesExact`: an accepted credential
is in the list, once, or with the worker about to record it. `NothingDropped`:
an index below `head` was sent, is with its worker, or was passed over for a
reason, and workers end for a reason. `ExhaustedExact`: a worker that finds the
budget spent has a candidate in hand that is never sent. The sorted result is
treated as a sequence with the elements of `matched`, of which
`FiniteSetTheorems` and lemmas on `Reorderings` say enough.

`LateCounted` counts, for `LateAttemptsBounded`: the late attempts of a user and
the workers that have passed the last check and may still make one are together
at most the other workers. A match takes its own worker out of that set.

### Target

`TargetInv` has a part for each stage. `ScanWorkers`: workers are started in the
order of the ports, and those of reported services have ended; `Lost`, the
wanted ports whose worker has ended without a service, has at most as many
members as requests have failed, unless the scan was cancelled. `Complete`: when
the report is there nobody runs who could change it, and what is missing from it
was lost. `Reports`: services are of wanted ports, no two of one port, and claim
nothing that is not so of a listener, at the target or at the name dialled.
`Addressed`: without a fault the given address is part of each endpoint, whatever
name comes before it. `Seen` says what each fingerprinter that
had its turn has established, without a fault; for `iswebservice` only after
`sslsupport`, whose layer decides the scheme of the web root. `processResults`
is a loop over nmap's output, the recursive function `ServicesAt`; that it is
defined, and what it collects of the first ports, is shown by induction over
their number (`UpTo`, from the well-foundedness of `<`). Two assumptions are on
the target and the settings: a listener that answers plain requests speaks HTTP,
and one that speaks HTTP without TLS answers them; and a port is configured once
(httpscan and noop report a port as often as it is listed).

### Crawler

`TerminationExact` is in its own inductive invariant: `Basics` is `TypeOK`,
`Placed` (which page is where, by the slots' steps), `WorkCounted` and
`ClosedMeansIdle`. A slot uncounts its page only after it has queued its links,
so a count of zero leaves nobody who could send.

`VisitedWasRequested` needs to know where a marked page is before it is
requested. `NothingForgotten`: its key is settled (requested or refused), under
way (with a sender, in the queue, in hand, at the start of a slot, or between
marking and queueing), or an error will end the crawl.

`RequestsBounded` needs two counts: the client calls against the allowance, in
which other crawls take part (`Counted`), and the copies of one key. `CopiesBounded`: for a marked
key, the slots between check and queueing, the copies under way and the requests
made are together at most the slots, since to go on marking a key a slot must
have looked before the first mark; an unmarked key has no copy at all.

### Runner

`RunnerInv` follows a service through `runConcurrent`. While fingerprinting, the
goroutine of the k-th service holds services (`todo` and `acc`) that descend
from it and not from each other (`Holds`, `PrefixFree`), so that the results of
several goroutines have nothing in common, and one is left unless all were
dropped. While detecting, `Shown` says which detectors a goroutine's service has
been shown to, and `Pending` where a reported finding is before it is in the
results: with a goroutine that has not ended. `Noticed` ties a failure of a
module to the runner's `degraded` flag. `Final` keeps the properties of a report
after it is made, although goroutines of an earlier run may still be active.

### Scanner

`ProcessInv` states by the step of `main.run` what exists: `Filed` (no results
before they are written, no advisories but in that mode), `Served` (a server that
is left running lacks a part), `Measured` (past the writing of metrics, the
export of a scan that ran is complete, or no metrics were asked for), `Answered`
(success is reported exactly when the file of the mode is whole). `ScanKept`
shows that none of the steps of a scan, nor a goroutine that records until the
process ends, touches any of it.

### CallbackServer

`ServerInv` puts a time on everything: `Held` (one interaction per identifier
and type, with the time it was last registered), `Kept` (what is within its time
to live is in the store), `Swept` (what is in the store at the next tick of the
cleanup is younger than its time to live and one interval). `Caused` and
`Queried` say that whatever is stored, or may be found in the shared buffer or
in the hands of a DNS handler, is something a target did; so an answer is true
although a handler may read a newer query than the one it was started for. A no
that should have been a yes (`due`) comes from a reply with another status than
the endpoint's, which is the exception that `PollsAreTrue` names.
`BarePath` and `Recorded` give the converse for HTTP, on which `due` depends.

### Templated engine

The engine is proved about next to the server that its callback actions poll;
`EngineAssumption` gives plugins and calls the types of their protobuf messages.
`EngineInv` has a statement for each stage of each call. `Placed`: the actions that were run are
the stretch of the workflow up to the current action that belongs to the call's
phase; this needs the validation (`Setting`), which refuses workflows whose
phases decrease, and for a phase that the workflow leaves at once the least
index of a later phase. `Stacked`: the stack of cleanups is that of the actions
that succeeded, less those popped; of the popped, each was run to its end or
first failure (`RunDown`), except the one at hand, of which a part has been run
(`UnderWay`). The history of cleanups is sorted by the action they are of, so
that those of one action are a stretch of it. `Attributed` is the invariant for
callbacks: an address is called only by a vulnerable service that was sent it,
and an action of kind callback succeeded only if the call's own address was.

### LLM client

`LoopInv` connects the next turn to how the last one ended (`NextTurn`), numbers
sessions by the attempts in which they are made (`SessionsNumbered`: a new
session has not been used, which is why an error cuts the conversation off), and
bounds the clock by the attempts made (`TimeSpent`), which is what
`AttemptsNotCutShort` comes down to.

`ClientImplementsLoop` is the refinement of FeedbackLoop by LlmClient, with the
identity on the loop's variables: a step inside a turn is a stutter, the step
that ends it is the loop's `Turn`. It rests on `LoopInv` and on `TurnTied`: the
context of a turn is done when the caller's is, a turn that has returned is not
run again. `ClientKeepsLoop` carries the loop's invariants over.

`TurnIsExact` is about one turn: `TurnStream` (what the caller received is a
prefix of what the agent yielded, of which the forwarder holds at most one more
event), `TurnAnswer` (the answer consists of the final events delivered),
`TurnUsage` (the last chunk is remembered, and counted once).

### StrategyCache

`CacheInv` has one `Add` at a time (`OneAdds`, the mutex), a file for the
strategy before the index names it (`AdderFiled`, `EntriesFiled`), and a
strategy under the hash of the page it logs in at (`FiledByHash`); with it
`CachedFits`, `AddedKept` and `IndexBacked` are inductive over every step, the
failing writes and the crash included.

### WebIdentity

`SpaceKept` compares sums of sizes, which are counted as the cardinality of a
set of bytes (`PageBytes`), so that a reservation and its return are the union
with and the difference from the bytes of one page. `StoreInv` says that the
space in use is exactly that of the callbacks that hold a reservation or have
written their file, that a callback past the size check has a page within the
limit, and that a whole file has a callback that returned after writing it. Two
callbacks with the same page may both pay for its file, but one at least has.

For `RegistryExact`, a property of the loaded registry, `RegistryInv` states what
is true after any part of the files (`Records`): the identity of a hash is
unknown, one application's, or dropped, according to who claimed the hash in the
files read so far. A file read twice would break it, hence the part about
`toLoad`. `RecordsMore` is the step: one more file takes a record of the files
read to a record of those and the new one, whatever the order was.

### The agentic detector

`ToolInv` is about parallel calls. `RequestsCounted` puts a call between
`checkCount` and the increment on the scales of the limit: with the counter they
are together at most the limit and the other calls. `JarsKept` and `OlderWiped`
say that a cleared session's cookies are in jars older than the one a call uses,
also if another call clears the session between the clearing and the use.

`RetryInv` is about one request. `BackoffDoubles`: as long as all doublings were
within the width, the backoff is the initial one times a power of two; after the
first that is not, nothing is claimed. `DelaysRight` ties each delay to what the
answer asked for; the lemmas `Wrapped` and `DelayAsked` say for which numbers
the arithmetic of a `time.Duration` is the one that was meant. `GaveUp` says
which of the conditions ended the request.

`FindingsInv` follows the credentials. `PassedExact`: of those that are done
with, the listed ones are accepted, and the recognisable ones are listed.
`InHand`: the page of the credential that is being tried, kept while its rejected
variant is, is the page of a user who was let in only if the site accepts the
credential. It needs `Mutated`: the variant differs from the password, whichever
characters that has, and `VariantRefused`, which follows from it for a site that
knows one password. `Stages` says which strategies get this far.

### What is only model-checked

* Liveness (`DetectReturns`, `CrawlReturns`, `RunReturns`, `EverythingEnds`,
  `CallsReturn`): fairness and ENABLED are outside the prover's reach.
* `ScopeKept` of the crawler, `SelectionExact`, `CandidatesExact`,
  `FindingsTrue`, `ExportExact`: they rest on what folds, filters and sorts of
  sequences, or sums over sets, compute (CrawlScope, Config, Registry,
  CredentialStore, Metrics). Those are recursive operators of the library with
  an operator as a parameter, and so are its theorems about them, which the
  installed provers cannot instantiate. (An induction over a set of numbers does
  not need one: `UpTo` of WorkerPoolProofs, `LeastNumber` of
  CallbackServerProofs.)
* `ReportExact` and `TrueVersionKept` of WebIdentity, for the same reason: the
  matching and the reconciliation fold over sets of matches.

## 5. What is not modelled

Logging and test doubles. Of the modelled components: the text of prompts,
schemas, requests and reports; parsing of textproto, scalars, HTML and nmap's
XML (what a parse yields is the form in which the input is given, a failing one
is a failure of its step); protocol libraries (SSH, DNS packing, HTTP, TLS);
headers, and the rate limiter of the HTTP client, which only delays; the
substitution of variables in templates; nmap's rate and intensity options; the
values of durations in metrics; generated code. Without a caller in the
program, and left out for that: the expansion of CIDR ranges, `Count` and
`LoadDefaultsOnce` of the credential store, `Delete` of the interaction store.

Two hazards stay outside: which of the label combinations are kept at the cap of
series, and which of the pages at the same distance is reached first (and with
it which pages are within `max_depth`), depend on the scheduler; the code
promises nothing about either.

## 6. Where code and comments disagree

One disagreement has a run whose counterexample shows it: `callback_dns`.
`ServeDNS` passes each handler a slice of the buffer that it reads the next
datagram into; two queries in quick succession, and the first is never recorded
(`server/dns/recording.go:51`).

These are stated in the modules, with "Violated" in their comment; put one in a
configuration to see the counterexample.

* `StatsCountRequests` (Crawler): `CountVisited` is documented as the number of
  requests sent; it counts pages marked as visited, also those refused for want
  of requests.
* `HardRequestLimit` (Crawler): `max_requests` is documented as a hard limit;
  redirects that the client follows are not counted.
* `PartialMeansFailed` (Runner): a module call left behind by a cancelled `Run`
  can mark the next `Run` on the same runner as partially succeeded.
* `NoMeansNone` (CallbackServer): `HasInteraction` is documented to check whether
  an interaction was recorded, but answers false, without an error, to any status
  but 200, the server's own 500 or a proxy's 502 included
  (`common/clients/callbackserver/callbackserver.go:169`; the exception that
  `PollIsTrue` names).
* `ShutdownEndsLoop` (CallbackServer, with `FairSpec`): after `Shutdown` the DNS
  loop retries reading from the closed connection for ever.
* `ExistingIsWhole` (PageStore): a file cut short by a failed write is taken for
  the page, which is then never stored.

The others are built into the models, and the property next to them names the
exception.

* Crawler scopes: `NormalizePath("/index.html")` is `"//"`, since the parent of
  a file in the root directory ends with a slash already, so a crawl that is
  seeded with such a file has only the files of the root directory in scope
  (`scope.go:159`, against the comment at line 147; `InRoot` in `ScopeKept`).
* Links: one malformed link, or one with a scheme such as `ftp:`, loses all links
  of its page (`parser.go:107`), and the URL of a meta redirect is lower-cased
  as a whole, its path included (`parser.go:134`).
* Metrics: the export copies the list of series under the lock and reads the
  series after it (`export.go:41`), so it may miss or half-see what a goroutine
  left behind records meanwhile (the term `Late` in `ExportExact`).
* Registry: a pattern is anchored by putting `^` and `$` around it, which bind
  tighter than an alternation in it (`registry.go:266`).
* OpenSSH bypass: a server that accepts any password, and drops the third
  connection, is reported as vulnerable (`opensshauthbypass.go:151`;
  exception in `FindingsTrue`).
* Brute-force options: default credentials are said to be tested before generic
  ones (`options.go:32`); with several default users those of the second come
  after the generic passwords of the first. In the credential store, passwords
  that are added for a user before the user is are never tested.
* Port scan by nmap: the first hostname becomes the authority, also when it is the
  reverse name of the address that was given (`nmap.go:136`, `netendpoint.go:148`),
  so later modules may dial another host than the one that was scanned (named in
  `ScanExact`, `EnrichmentTrue` and `FindingsTrue`, which are about what is
  dialled).
* Port scan by HTTP: a request that fails, also because the scan was cancelled,
  counts as a closed port (`httpscan.go:176`), and a `max_concurrency` of 0
  blocks for ever. `sslsupport` dials TCP whatever the transport (`:79`).
* Agent tool: the counter is compared with the limit in one critical section and
  incremented in another, so parallel calls pass it (`httpclient.go:272`, against
  `llm_client_config.proto:63`); `OvershootBounded` bounds by how much.
* HTTP client: `max_http_redirects` of N follows N-1 (`simpleclient.go:92`,
  `config.proto:96`); a huge `Retry-After` wraps around to a short delay, and the
  client retries instead of giving up (`retries.go:113`, `config.proto:109`); an
  empty body is an error of `ReadBody`, and one of exactly the maximum too big.
* Agentic detector: the requests of a login are not checked against the forbidden
  paths. A credential counts only if a variant of its password is refused, so it
  is dropped when the site accepts the variant too (`OnlyPassword`); a strategy
  whose failure pattern matches every page confirms nothing (`Sees`).
* Callbacks: `Get` of the store ignores the time to live, which only the next
  cleanup enforces; the standalone server never starts the DNS recording that its
  configuration offers; a public URI with a path of its own loses every callback
  (exception in `PollIsTrue`).

## 7. Plan

Done: the modules of section 2 and the theorems of section 4.

Open: a closed form, without folds, of the reconciliation of WebIdentity would
put `ReportExact` within reach of the prover, and one of `FoldLeft` over the
patterns of a filter `SelectionExact`. CrawlScope, Config and Registry are
operators over sequences that their runs check on small inputs.
