------------------------------- MODULE Crawler -------------------------------
(***************************************************************************)
(* One call of SimpleCrawler.Crawl (common/clients/httpcrawler): the       *)
(* calling goroutine loads the scopes and queues the seeds, then takes     *)
(* pages from a bounded channel and gives each to a slot of an errgroup; a *)
(* slot that crawls a page finds links and queues them through             *)
(* fire-and-forget goroutines; a watcher polls the work count and closes   *)
(* the channel when it is 0.                                               *)
(* Every critical section of crawlRun and SimpleCrawler is one action, so  *)
(* AlreadyVisited, AddToVisited and QueuePage interleave between slots.    *)
(*                                                                         *)
(* A page is a URL; Key maps it to the normalised form under which it is   *)
(* remembered as visited, so two URLs may share a key.                     *)
(***************************************************************************)
EXTENDS Integers, Sequences, FiniteSets, SequencesExt

CONSTANTS
  Pages,         \* the URLs that can occur
  Calls,         \* calls of Crawl: seeds, scopes, and the site that is crawled
  Slots,         \* goroutine slots of the errgroup, max_concurrency of them
  Capacity,      \* capacity of the queue, 500 in the code
  MaxDepth,      \* HttpCrawlerClientConfig.max_depth
  MaxRequests,   \* HttpCrawlerClientConfig.max_requests
  MaxRedirects   \* GlobalConfig.performance.max_http_redirects

ASSUME CrawlerAssumption ==
  /\ \A c \in Calls : /\ c.urls \in Seq(Pages)
                      /\ c.loads \in BOOLEAN
                      /\ c.links \in [Pages -> Seq(Pages)]
                      /\ DOMAIN c.key = Pages
                      /\ c.malformed \subseteq Pages
                      /\ c.allowed \subseteq Pages
  /\ IsFiniteSet(Pages)
  /\ IsFiniteSet(Slots)
  /\ Capacity \in Nat \ {0}
  /\ MaxDepth \in Int
  /\ MaxRequests \in Int
  /\ MaxRedirects \in Int

VARIABLES
  phase,         \* Crawl: "load", "seed", "loop", "wait", "returned"
  call,          \* this call, one of Calls
  seeded,        \* how many seeds went through queueForCrawl
  hand,          \* the page received from the queue, until a slot takes it
  ret,           \* what Crawl returned
  ctxDone,       \* the caller's context is done
  groupErr,      \* the errgroup holds an error and cancelled its context
  queue,         \* crawlRun.queue, the buffered pages
  closed,        \* the watcher has closed the queue
  sending,       \* the goroutines of QueuePage that have not sent yet
  workCount,     \* crawlRun.workCount
  visited,       \* crawlRun.visited
  sentRequests,  \* SimpleCrawler.sentRequests, shared by all calls of Crawl
  pc, task,      \* pc[s], task[s]: step and page of the goroutine in slot s
  next,          \* next[s]: the position of the link slot s is looking at
  fetched,       \* history: client.Do calls of this run, per page
  refused,       \* history: keys of pages dropped for want of requests or time
  wire           \* history: HTTP requests sent by this run, redirects included

runVars   == <<queue, closed, sending, workCount, visited>>
slotVars  == <<pc, task, next>>
history   == <<fetched, refused, wire>>
callVars  == <<phase, call, seeded, hand, ret, ctxDone>>
vars      == <<callVars, groupErr, runVars, sentRequests, slotVars, history>>

\* normalizeURL, and the links ExtractLinksFromHTML finds in a page, in order.
Key   == call.key
Links == call.links

NoPage == [page |-> "none", depth |-> 0]

Depths == 0 .. (IF MaxDepth < 0 THEN 0 ELSE MaxDepth)

PageInfo == [page : Pages, depth : Depths]

grpctxDone == ctxDone \/ groupErr

Init ==
  /\ phase = "load"
  /\ call \in Calls
  /\ seeded = 0
  /\ hand = <<>>
  /\ ret = [kind |-> "none", pages |-> 0]
  /\ ctxDone \in BOOLEAN
  /\ groupErr = FALSE
  /\ queue = <<>>
  /\ closed = FALSE
  /\ sending = <<>>
  /\ workCount = 0
  /\ visited = {}
  /\ sentRequests = 0
  /\ pc = [s \in Slots |-> "idle"]
  /\ task = [s \in Slots |-> NoPage]
  /\ next = [s \in Slots |-> 1]
  /\ fetched = [p \in Pages |-> 0]
  /\ refused = {}
  /\ wire = 0

-----------------------------------------------------------------------------
(* The checks of queueForCrawl that come before AlreadyVisited.            *)
\* A URL may be in scope and not excluded, or not; or MatchAnyScope fails on it.
Rejected(p, depth) == depth > MaxDepth \/ p \notin call.allowed \cup call.malformed

Fails(p, depth) == depth <= MaxDepth /\ p \in call.malformed

\* run.AlreadyVisited.
AlreadyVisited_Queued(p) == \E i \in DOMAIN queue : queue[i].page = p
AlreadyVisited(p) == Key[p] \in visited

\* run.QueuePage: count the page, then leave its sending to a goroutine.
QueuePage_Uncounted(p, depth) ==
  /\ UNCHANGED workCount
  /\ sending' = Append(sending, [page |-> p, depth |-> depth])

QueuePage(p, depth) ==
  /\ workCount' = workCount + 1
  /\ sending' = Append(sending, [page |-> p, depth |-> depth])

\* Crawl loads the scopes and makes its HTTP client; either may fail.
LoadScopes ==
  /\ phase = "load"
  /\ \/ /\ call.loads
        /\ phase' = "seed"
        /\ UNCHANGED ret
     \/ /\ phase' = "returned"
        /\ ret' = [kind |-> "error", pages |-> 0]
  /\ UNCHANGED <<call, seeded, hand, ctxDone, groupErr, runVars, sentRequests, slotVars, history>>

\* Crawl queues a seed.  Nothing else uses visited and the work count yet, so
\* queueForCrawl is one step; an error ends the call before a watcher exists.
QueueSeed ==
  /\ phase = "seed"
  /\ seeded < Len(call.urls)
  /\ LET p == call.urls[seeded + 1] IN
       IF Fails(p, 0)
         THEN /\ phase' = "returned"
              /\ ret' = [kind |-> "error", pages |-> 0]
              /\ UNCHANGED <<seeded, runVars>>
         ELSE /\ seeded' = seeded + 1
              /\ IF Rejected(p, 0) \/ AlreadyVisited(p)
                   THEN UNCHANGED <<visited, workCount, sending>>
                   ELSE visited' = visited \cup {Key[p]} /\ QueuePage(p, 0)
              /\ UNCHANGED <<phase, ret, queue, closed>>
  /\ UNCHANGED <<call, hand, ctxDone, groupErr, sentRequests, slotVars, history>>

\* run.StartWatcher() and the start of the dispatch loop.
StartWatcher ==
  /\ phase = "seed"
  /\ seeded = Len(call.urls)
  /\ phase' = "loop"
  /\ UNCHANGED <<call, seeded, hand, ret, ctxDone, groupErr, runVars, sentRequests,
                 slotVars, history>>

\* The watcher finds no pending work and closes the queue, or goes to sleep.
WatcherReady_QueueEmpty == queue = <<>>
WatcherReady == workCount = 0

Watch ==
  /\ phase = "loop"
  /\ ~closed
  /\ closed' = WatcherReady
  /\ UNCHANGED <<callVars, groupErr, queue, sending, workCount, visited,
                 sentRequests, slotVars, history>>

\* A goroutine started by QueuePage sends its page once there is room.  (Go
\* panics on a send to a closed channel; ClosedMeansIdle says none is tried.)
Send(k) ==
  /\ k \in 1 .. Len(sending)
  /\ ~closed
  /\ Len(queue) < Capacity
  /\ queue' = Append(queue, sending[k])
  /\ sending' = RemoveAt(sending, k)
  /\ UNCHANGED <<callVars, groupErr, closed, workCount, visited, sentRequests,
                 slotVars, history>>

-----------------------------------------------------------------------------
(* The dispatch loop of Crawl.                                             *)

Receive ==
  /\ phase = "loop"
  /\ hand = <<>>
  /\ \/ /\ queue # <<>>
        /\ hand' = <<Head(queue)>>
        /\ queue' = Tail(queue)
        /\ UNCHANGED phase
     \/ /\ queue = <<>>
        /\ closed
        /\ phase' = "wait"
        /\ UNCHANGED <<hand, queue>>
  /\ UNCHANGED <<call, seeded, ret, ctxDone, groupErr, closed, sending, workCount,
                 visited, sentRequests, slotVars, history>>

\* group.Go blocks until a slot is free.
Dispatch(s) ==
  /\ hand # <<>>
  /\ pc[s] = "idle"
  /\ pc' = [pc EXCEPT ![s] = "start"]
  /\ task' = [task EXCEPT ![s] = hand[1]]
  /\ hand' = <<>>
  /\ UNCHANGED <<phase, call, seeded, ret, ctxDone, groupErr, runVars, sentRequests,
                 next, history>>

\* group.Wait() and the statistics.
Finish ==
  /\ phase = "wait"
  /\ \A s \in Slots : pc[s] = "idle"
  /\ phase' = "returned"
  /\ ret' = IF groupErr THEN [kind |-> "error", pages |-> 0]
                        ELSE [kind |-> "ok", pages |-> Cardinality(visited)]
  /\ UNCHANGED <<call, seeded, hand, ctxDone, groupErr, runVars, sentRequests,
                 slotVars, history>>

-----------------------------------------------------------------------------
(* crawlPage in slot s.  A step ends at "done" or, with an error, "fail".  *)

MayRequest == sentRequests + 1 <= MaxRequests

\* ctx.Err(), then checkAndIncreaseRequestCount and, if granted, client.Do.
StartPage(s) ==
  /\ pc[s] = "start"
  /\ \/ /\ grpctxDone
        /\ pc' = [pc EXCEPT ![s] = "fail"]
        /\ UNCHANGED <<sentRequests, fetched, refused>>
     \/ /\ ~grpctxDone
        /\ ~MayRequest
        /\ pc' = [pc EXCEPT ![s] = "done"]
        /\ refused' = refused \cup {Key[task[s].page]}
        /\ UNCHANGED <<sentRequests, fetched>>
     \/ /\ ~grpctxDone
        /\ MayRequest
        /\ pc' = [pc EXCEPT ![s] = "fetch"]
        /\ sentRequests' = sentRequests + 1
        /\ fetched' = [fetched EXCEPT ![task[s].page] = @ + 1]
        /\ UNCHANGED refused
  /\ UNCHANGED <<callVars, groupErr, runVars, task, next, wire>>

\* client.Do and ReadBody return after one request or a chain of redirects:
\* with content that the callback accepts; with a deadline error, an empty
\* page, an oversized page or unparsable HTML, which end the page quietly; or
\* with an error of the request, of the body or of the callback.
Fetch(s) ==
  /\ pc[s] = "fetch"
  /\ \E hops \in 1 .. (IF MaxRedirects > 1 THEN MaxRedirects ELSE 1) :
        wire' = wire + hops
  /\ \E l \in {"links", "done", "fail"} : pc' = [pc EXCEPT ![s] = l]
  /\ next' = [next EXCEPT ![s] = 1]
  /\ UNCHANGED <<callVars, groupErr, runVars, sentRequests, task, fetched,
                 refused>>

\* queueForCrawl up to AlreadyVisited, for the next link of the page.
CheckLink(s) ==
  LET links == Links[task[s].page]
      depth == task[s].depth + 1
  IN  /\ pc[s] = "links"
      /\ IF next[s] > Len(links)
           THEN pc' = [pc EXCEPT ![s] = "done"] /\ UNCHANGED next
           ELSE LET p == links[next[s]] IN
                IF Fails(p, depth)
                  THEN pc' = [pc EXCEPT ![s] = "fail"] /\ UNCHANGED next
                  ELSE IF Rejected(p, depth) \/ AlreadyVisited(p)
                         THEN next' = [next EXCEPT ![s] = @ + 1] /\ UNCHANGED pc
                         ELSE pc' = [pc EXCEPT ![s] = "mark"] /\ UNCHANGED next
      /\ UNCHANGED <<callVars, groupErr, runVars, sentRequests, task, history>>

AddToVisited(s) ==
  /\ pc[s] = "mark"
  /\ visited' = visited \cup {Key[Links[task[s].page][next[s]]]}
  /\ pc' = [pc EXCEPT ![s] = "queue"]
  /\ UNCHANGED <<callVars, groupErr, queue, closed, sending, workCount,
                 sentRequests, task, next, history>>

QueueLink(s) ==
  /\ pc[s] = "queue"
  /\ QueuePage(Links[task[s].page][next[s]], task[s].depth + 1)
  /\ next' = [next EXCEPT ![s] = @ + 1]
  /\ pc' = [pc EXCEPT ![s] = "links"]
  /\ UNCHANGED <<callVars, groupErr, queue, closed, visited, sentRequests,
                 task, history>>

\* The deferred run.PageDone().
Uncount_OnSuccess(s) == IF pc[s] = "fail" THEN workCount ELSE workCount - 1
Uncount(s) == workCount - 1

PageDone(s) ==
  /\ pc[s] \in {"done", "fail"}
  /\ workCount' = Uncount(s)
  /\ pc' = [pc EXCEPT ![s] = IF pc[s] = "fail" THEN "error" ELSE "return"]
  /\ UNCHANGED <<callVars, groupErr, queue, closed, sending, visited,
                 sentRequests, task, next, history>>

\* errgroup's wrapper: keep the first error, cancel, free the slot.
Release(s) ==
  /\ pc[s] \in {"return", "error"}
  /\ groupErr' = (groupErr \/ pc[s] = "error")
  /\ pc' = [pc EXCEPT ![s] = "idle"]
  /\ task' = [task EXCEPT ![s] = NoPage]
  /\ next' = [next EXCEPT ![s] = 1]
  /\ UNCHANGED <<callVars, runVars, sentRequests, history>>

-----------------------------------------------------------------------------
(* The environment: the caller cancels, and a call of Crawl for another    *)
(* target takes a request from the shared allowance.                       *)
Cancel ==
  /\ ~ctxDone
  /\ phase # "returned"
  /\ ctxDone' = TRUE
  /\ UNCHANGED <<phase, call, seeded, hand, ret, groupErr, runVars, sentRequests,
                 slotVars, history>>

OtherCrawl ==
  /\ phase # "returned"
  /\ MayRequest
  /\ sentRequests' = sentRequests + 1
  /\ UNCHANGED <<callVars, groupErr, runVars, slotVars, history>>

\* Crawl has returned and the goroutines it started are gone.
Terminated ==
  /\ phase = "returned"
  /\ sending = <<>>
  /\ UNCHANGED vars

SlotStep(s) ==
  \/ StartPage(s)
  \/ Fetch(s)
  \/ CheckLink(s)
  \/ AddToVisited(s)
  \/ QueueLink(s)
  \/ PageDone(s)
  \/ Release(s)

Next ==
  \/ LoadScopes
  \/ QueueSeed
  \/ StartWatcher
  \/ Watch
  \/ \E k \in 1 .. Len(sending) : Send(k)
  \/ Receive
  \/ \E s \in Slots : Dispatch(s)
  \/ \E s \in Slots : SlotStep(s)
  \/ Finish
  \/ Cancel
  \/ OtherCrawl
  \/ Terminated

Spec == Init /\ [][Next]_vars

\* Goroutines are scheduled, the watcher keeps polling, the HTTP client's
\* timeout ends every request.  Nothing forces a cancellation or another crawl.
Fairness ==
  /\ WF_vars(LoadScopes) /\ WF_vars(QueueSeed) /\ WF_vars(StartWatcher)
  /\ WF_vars(Watch)
  /\ WF_vars(\E k \in 1 .. Len(sending) : Send(k))
  /\ WF_vars(Receive)
  /\ WF_vars(\E s \in Slots : Dispatch(s))
  /\ \A s \in Slots : WF_vars(SlotStep(s))
  /\ WF_vars(Finish)

FairSpec == Spec /\ Fairness

-----------------------------------------------------------------------------
Labels == {"idle", "start", "fetch", "links", "mark", "queue", "done", "fail",
           "return", "error"}

TypeOK ==
  /\ phase \in {"load", "seed", "loop", "wait", "returned"}
  /\ call \in Calls
  /\ seeded \in 0 .. Len(call.urls)
  /\ hand \in Seq(PageInfo)
  /\ Len(hand) <= 1
  /\ ret \in [kind : {"none", "error", "ok"}, pages : Nat]
  /\ ctxDone \in BOOLEAN
  /\ groupErr \in BOOLEAN
  /\ queue \in Seq(PageInfo)
  /\ Len(queue) <= Capacity
  /\ closed \in BOOLEAN
  /\ sending \in Seq(PageInfo)
  /\ workCount \in Nat
  /\ visited \subseteq {Key[p] : p \in Pages}
  /\ sentRequests \in Nat
  /\ pc \in [Slots -> Labels]
  /\ task \in [Slots -> PageInfo \cup {NoPage}]
  /\ next \in [Slots -> Nat \ {0}]
  /\ fetched \in [Pages -> Nat]
  /\ refused \subseteq {Key[p] : p \in Pages}
  /\ wire \in Nat

\* The slots whose crawlPage has not called PageDone yet.
Working == {s \in Slots : pc[s] \notin {"idle", "return", "error"}}

\* The work count is exact: pages waiting to be sent, buffered, held by the
\* dispatch loop or being crawled, in every interleaving.
WorkCounted ==
  workCount = Len(sending) + Len(queue) + Len(hand) + Cardinality(Working)

\* The watcher closes the queue only when no page is anywhere in the system
\* and none can appear: no goroutine is left that could send on the closed
\* channel, which would panic, and no queued page is dropped.
ClosedMeansIdle ==
  closed => sending = <<>> /\ queue = <<>> /\ hand = <<>> /\ Working = {}

\* Termination is detected when it has happened, by a count that is exact.
TerminationExact == WorkCounted /\ ClosedMeansIdle

\* The calls of client.Do: <<p, n>> is the n-th one for page p.
Requests == UNION {{p} \X (1 .. fetched[p]) : p \in Pages}

\* The calls of client.Do, not just their counter, stay within max_requests
\* although other crawls draw on the same allowance.
RequestLimit == MaxRequests >= 0 => Cardinality(Requests) <= MaxRequests

\* AlreadyVisited and AddToVisited are two critical sections, so several slots
\* may queue the same page; but it is requested at most once per slot, hence
\* exactly once with the default max_concurrency of 1.
RequestsForKey(k) == Cardinality({r \in Requests : Key[r[1]] = k})

DuplicatesBounded ==
  \A p \in Pages : RequestsForKey(Key[p]) <= Cardinality(Slots)

\* Nothing is lost on the way: when Crawl returns without an error, every page
\* that was marked as visited was requested or dropped for want of requests.
VisitedWasRequested ==
  ret.kind = "ok" =>
    \A k \in visited : k \in refused \/ \E p \in Pages : Key[p] = k /\ fetched[p] > 0

\* The allowance is kept in total, and none of it wasted on pages seen before.
RequestsBounded == RequestLimit /\ DuplicatesBounded

\* What the comment on CountVisited says its value is: the number of requests
\* sent for this run.  (Violated: it counts the pages marked as visited.)
StatsCountRequests == ret.kind = "ok" => ret.pages = Cardinality(Requests)

\* What the configuration says of max_requests: a hard limit on the number of
\* requests made.  (Violated: the redirects client.Do follows are not counted.)
HardRequestLimit == MaxRequests >= 0 => wire <= MaxRequests

\* Every call of Crawl returns and leaves no goroutine blocked on the queue.
CrawlReturns == <>[](phase = "returned" /\ sending = <<>>)
=============================================================================
