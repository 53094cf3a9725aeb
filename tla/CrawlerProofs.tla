---------------------------- MODULE CrawlerProofs ----------------------------
(***************************************************************************)
(* Proofs about Crawler for every site, every number of slots and every    *)
(* capacity of the queue.                                                  *)
(***************************************************************************)
EXTENDS Crawler, FiniteSetTheorems, SequenceTheorems, TLAPS

-----------------------------------------------------------------------------
(* Counting the elements of a sequence that lie in a set.                  *)

Places(s, T) == {i \in 1 .. Len(s) : s[i] \in T}
MaxOf(a, b) == IF a >= b THEN a ELSE b

Count(s, T)  == Cardinality(Places(s, T))

\* 1 for a member of T, else 0.
In(x, T) == IF x \in T THEN 1 ELSE 0

LEMMA PlacesFinite ==
  ASSUME NEW S, NEW s \in Seq(S), NEW T
  PROVE  IsFiniteSet(Places(s, T)) /\ Count(s, T) \in Nat
<1>1. IsFiniteSet(1 .. Len(s))
  BY FS_Interval
<1> QED
  BY <1>1, FS_Subset, FS_CardinalityType DEF Places, Count

LEMMA CountAppend ==
  ASSUME NEW S, NEW T, NEW s \in Seq(S), NEW x \in S
  PROVE  Count(Append(s, x), T) = Count(s, T) + In(x, T)
<1> DEFINE r == Append(s, x)
           n == Len(s) + 1
<1>1. /\ Len(r) = n /\ n \in Nat /\ r[n] = x
      /\ \A i \in 1 .. Len(s) : r[i] = s[i]
  BY AppendProperties
<1>2. Places(r, T) = IF x \in T THEN Places(s, T) \cup {n} ELSE Places(s, T)
  BY <1>1 DEF Places
<1>3. n \notin Places(s, T)
  BY DEF Places
<1> HIDE DEF r, n
<1>4. CASE x \in T
  BY <1>2, <1>3, <1>4, PlacesFinite, FS_AddElement DEF Count, In, r
<1>5. CASE x \notin T
  BY <1>2, <1>5, PlacesFinite DEF Count, In, r
<1> QED
  BY <1>4, <1>5

\* Taking out the k-th element.
LEMMA CountRemove ==
  ASSUME NEW S, NEW T, NEW s \in Seq(S), NEW r \in Seq(S),
         NEW k \in 1 .. Len(s), Len(r) = Len(s) - 1,
         \A i \in 1 .. Len(r) : r[i] = IF i < k THEN s[i] ELSE s[i + 1]
  PROVE  Count(r, T) = Count(s, T) - In(s[k], T)
<1> DEFINE A == Places(r, T)
           B == Places(s, T) \ {k}
           f == [i \in A |-> IF i < k THEN i ELSE i + 1]
<1>1. Len(s) \in Nat /\ Len(r) \in Nat
  OBVIOUS
<1>2. \A i \in A : f[i] \in B
  BY <1>1 DEF Places
<1>3. f \in [A -> B]
  BY <1>2
<1>4. \A i, j \in A : f[i] = f[j] => i = j
  BY <1>1 DEF Places
<1>5. \A j \in B : \E i \in A : f[i] = j
  <2> SUFFICES ASSUME NEW j \in B PROVE \E i \in A : f[i] = j
    OBVIOUS
  <2> DEFINE i == IF j < k THEN j ELSE j - 1
  <2>1. j \in 1 .. Len(s) /\ j # k /\ s[j] \in T
    BY DEF Places
  <2>2. i \in 1 .. Len(r) /\ r[i] = s[j] /\ (IF i < k THEN i ELSE i + 1) = j
    BY <1>1, <2>1
  <2> QED
    BY <2>1, <2>2 DEF Places
<1> HIDE DEF f
<1>6. IsFiniteSet(A) /\ IsFiniteSet(B)
  BY PlacesFinite, FS_RemoveElement
<1>7. f \in Bijection(A, B)
  BY <1>3, <1>4, <1>5 DEF Bijection, Injection, Surjection, IsInjective
<1>8. Cardinality(A) = Cardinality(B)
  BY <1>6, <1>7, FS_Bijection DEF ExistsBijection
<1>9. k \in Places(s, T) <=> s[k] \in T
  BY DEF Places
<1>10. Cardinality(B) = Count(s, T) - In(s[k], T)
  <2>1. CASE s[k] \in T
    BY <1>9, <2>1, PlacesFinite, FS_RemoveElement DEF Count, In
  <2>2. CASE s[k] \notin T
    <3>1. B = Places(s, T)
      BY <1>9, <2>2
    <3>2. Cardinality(Places(s, T)) \in Nat
      BY PlacesFinite DEF Count, In
    <3> HIDE DEF B
    <3> QED
      BY <2>2, <3>1, <3>2 DEF Count, In
  <2> QED
    BY <2>1, <2>2
<1> QED
  BY <1>8, <1>10 DEF Count

LEMMA RemoveAtFacts ==
  ASSUME NEW S, NEW s \in Seq(S), NEW k \in 1 .. Len(s)
  PROVE  /\ RemoveAt(s, k) \in Seq(S)
         /\ Len(RemoveAt(s, k)) = Len(s) - 1
         /\ \A i \in 1 .. Len(s) - 1 :
               RemoveAt(s, k)[i] = IF i < k THEN s[i] ELSE s[i + 1]
<1> DEFINE a == SubSeq(s, 1, k - 1)
           b == SubSeq(s, k + 1, Len(s))
<1>1. /\ a \in Seq(S) /\ Len(a) = k - 1
      /\ \A i \in 1 .. k - 1 : a[i] = s[i]
  OBVIOUS
<1>2. /\ b \in Seq(S) /\ Len(b) = Len(s) - k
      /\ \A i \in 1 .. Len(s) - k : b[i] = s[k + i]
  OBVIOUS
<1>3. RemoveAt(s, k) = a \o b
  BY DEF RemoveAt
<1> HIDE DEF a, b
<1>4. /\ a \o b \in Seq(S) /\ Len(a \o b) = Len(s) - 1
      /\ \A i \in 1 .. Len(s) - 1 :
            (a \o b)[i] = IF i <= k - 1 THEN a[i] ELSE b[i - (k - 1)]
  BY <1>1, <1>2, ConcatProperties
<1>5. \A i \in 1 .. Len(s) - 1 : (a \o b)[i] = IF i < k THEN s[i] ELSE s[i + 1]
  <2> SUFFICES ASSUME NEW i \in 1 .. Len(s) - 1
               PROVE  (a \o b)[i] = IF i < k THEN s[i] ELSE s[i + 1]
    OBVIOUS
  <2>1. CASE i < k
    BY <1>1, <1>4, <2>1
  <2>2. CASE ~(i < k)
    <3>1. i - (k - 1) \in 1 .. Len(s) - k /\ k + (i - (k - 1)) = i + 1
      BY <2>2
    <3> QED
      BY <1>2, <1>4, <2>2, <3>1
  <2> QED
    BY <2>1, <2>2
<1> QED
  BY <1>3, <1>4, <1>5


-----------------------------------------------------------------------------
(* The inductive invariant.                                                *)

\* The link slot s is looking at.
Link(s) == Links[task[s].page][next[s]]

\* Where the call and its slots can be: the scopes are loaded and the seeds queued
\* before any slot runs; pages are dispatched in the loop only; Crawl returns without an error
\* after the queue was closed and the last slot was freed.
Placed ==
  /\ phase \in {"load", "seed"} => ~closed /\ hand = <<>> /\ \A s \in Slots : pc[s] = "idle"
  /\ hand # <<>> => phase = "loop"
  /\ phase = "wait" => closed
  /\ ret.kind = "ok" => /\ phase = "returned" /\ closed /\ ~groupErr
                        /\ \A s \in Slots : pc[s] = "idle"
  /\ \A s \in Slots : pc[s] # "idle" => task[s] \in PageInfo
  /\ \A s \in Slots : pc[s] \in {"mark", "queue"} =>
        /\ next[s] <= Len(Links[task[s].page])
        /\ task[s].depth + 1 <= MaxDepth

\* A key that is marked as visited is never forgotten: it was settled, its page
\* is on its way to a slot, or the crawl is going to fail.
Settled(k) == k \in refused \/ \E p \in Pages : Key[p] = k /\ fetched[p] > 0

Among(q, key, k) == \E i \in 1 .. Len(q) : key[q[i].page] = k

Underway(k) ==
  \/ Among(sending, Key, k)
  \/ Among(queue, Key, k)
  \/ hand # <<>> /\ Key[hand[1].page] = k
  \/ \E s \in Slots : pc[s] = "start" /\ Key[task[s].page] = k
  \/ \E s \in Slots : pc[s] = "queue" /\ Key[Link(s)] = k

Failing == groupErr \/ \E s \in Slots : pc[s] \in {"fail", "error"}

NothingForgotten == \A k \in visited : Settled(k) \/ Underway(k) \/ Failing

-----------------------------------------------------------------------------
(* Facts about types.                                                      *)

LEMMA InfoFacts ==
  /\ \A i \in PageInfo : i.page \in Pages /\ i.depth \in Nat
  /\ \A p \in Pages, d \in Nat : d = 0 \/ d <= MaxDepth => [page |-> p, depth |-> d] \in PageInfo
  BY CrawlerAssumption DEF PageInfo, Depths

LEMMA CallFacts ==
  ASSUME TypeOK
  PROVE  /\ call.urls \in Seq(Pages)
         /\ Links \in [Pages -> Seq(Pages)]
  BY CrawlerAssumption DEF TypeOK, Links

LEMMA LinkFacts ==
  ASSUME TypeOK, Placed, NEW s \in Slots, pc[s] \in {"mark", "queue"}
  PROVE  /\ task[s].page \in Pages
         /\ Link(s) \in Pages
         /\ [page |-> Link(s), depth |-> task[s].depth + 1] \in PageInfo
<1>1. task[s] \in PageInfo
  BY DEF Placed
<1>2. task[s].page \in Pages /\ task[s].depth \in Nat
  BY <1>1, InfoFacts
<1>3. Links[task[s].page] \in Seq(Pages)
  BY <1>2, CallFacts
<1>4. next[s] \in Nat \ {0} /\ next[s] <= Len(Links[task[s].page])
  BY DEF TypeOK, Placed
<1>5. Link(s) \in Pages
  BY <1>3, <1>4 DEF Link
<1>6. task[s].depth + 1 \in Nat /\ task[s].depth + 1 <= MaxDepth
  BY <1>2 DEF Placed
<1> QED
  BY <1>2, <1>5, <1>6, InfoFacts

LEMMA WorkingFacts ==
  /\ IsFiniteSet(Working)
  /\ Cardinality(Working) \in Nat
  /\ Cardinality(Working) = 0 <=> Working = {}
  BY CrawlerAssumption, FS_Subset, FS_CardinalityType, FS_EmptySet DEF Working

\* A step of slot s within, into, or out of the part of crawlPage that counts.
AtRest == {"idle", "return", "error"}

LEMMA WorkingMoves ==
  ASSUME TypeOK, NEW s \in Slots, NEW l \in Labels, pc' = [pc EXCEPT ![s] = l]
  PROVE  /\ pc' \in [Slots -> Labels]
         /\ Working' = IF l \in AtRest THEN Working \ {s} ELSE Working \cup {s}
         /\ pc[s] \in AtRest <=> s \notin Working
  BY DEF TypeOK, Working, AtRest

LEMMA WorkingStays ==
  ASSUME TypeOK, NEW s \in Slots, NEW l \in Labels, pc' = [pc EXCEPT ![s] = l],
         l \in AtRest <=> pc[s] \in AtRest
  PROVE  Working' = Working
<1>1. /\ Working' = IF l \in AtRest THEN Working \ {s} ELSE Working \cup {s}
      /\ pc[s] \in AtRest <=> s \notin Working
  BY WorkingMoves
<1> QED
  BY <1>1

-----------------------------------------------------------------------------
(* Types, places and the work count.                                       *)

Basics == TypeOK /\ Placed /\ WorkCounted /\ ClosedMeansIdle

\* Queueing a page leaves everything but the work count and the senders alone.
LEMMA SeedBasics == Basics /\ QueueSeed => Basics'
<1> SUFFICES ASSUME Basics, QueueSeed
             PROVE  Basics'
  OBVIOUS
<1> DEFINE p == call.urls[seeded + 1]
           i == [page |-> p, depth |-> 0]
<1>1. /\ call.urls \in Seq(Pages)
      /\ seeded \in Nat /\ seeded + 1 \in 1 .. Len(call.urls)
  BY CallFacts DEF Basics, TypeOK, QueueSeed
<1>2. p \in Pages /\ i \in PageInfo
  BY <1>1, InfoFacts
<1>3. /\ UNCHANGED <<call, hand, ctxDone, groupErr, sentRequests, pc, task, next,
                     fetched, refused, wire, queue, closed>>
      /\ phase = "seed"
  BY DEF QueueSeed, slotVars, history, runVars
<1> HIDE DEF p, i
<1>4. CASE /\ UNCHANGED <<visited, workCount, sending>>
           /\ phase' \in {"seed", "returned"}
           /\ seeded' \in {seeded, seeded + 1}
           /\ ret' \in {ret, [kind |-> "error", pages |-> 0]}
  <2>1. /\ seeded' \in 0 .. Len(call.urls)
        /\ ret' \in [kind : {"none", "error", "ok"}, pages : Nat]
    BY <1>1, <1>4 DEF Basics, TypeOK
  <2>2. TypeOK'
    BY <1>3, <1>4, <2>1 DEF Basics, TypeOK, Key
  <2>3. Placed'
    BY <1>3, <1>4 DEF Basics, Placed, Links
  <2> QED
    BY <1>3, <1>4, <2>2, <2>3
    DEF Basics, WorkCounted, ClosedMeansIdle, Working
<1>5. CASE /\ visited' = visited \cup {Key[p]}
           /\ workCount' = workCount + 1
           /\ sending' = Append(sending, i)
           /\ seeded' = seeded + 1
           /\ UNCHANGED <<phase, ret>>
  <2>1. /\ seeded' \in 0 .. Len(call.urls)
        /\ sending' \in Seq(PageInfo) /\ Len(sending') = Len(sending) + 1
        /\ Len(sending) \in Nat /\ Len(queue) \in Nat /\ Len(hand) \in Nat
        /\ workCount' \in Nat
    BY <1>1, <1>2, <1>5, SMTT(30) DEF Basics, TypeOK
  <2>2. visited' \subseteq {Key'[q] : q \in Pages}
    BY <1>2, <1>3, <1>5 DEF Basics, TypeOK, Key
  <2>3. TypeOK'
    BY <1>3, <1>5, <2>1, <2>2 DEF Basics, TypeOK, Key
  <2>4. WorkCounted'
    BY <1>3, <1>5, <2>1, WorkingFacts DEF Basics, WorkCounted, Working
  <2>5. Placed' /\ ClosedMeansIdle'
    BY <1>3, <1>5 DEF Basics, Placed, ClosedMeansIdle, Links
  <2> QED
    BY <2>3, <2>4, <2>5 DEF Basics
<1>6. \/ /\ UNCHANGED <<visited, workCount, sending>>
         /\ phase' \in {"seed", "returned"}
         /\ seeded' \in {seeded, seeded + 1}
         /\ ret' \in {ret, [kind |-> "error", pages |-> 0]}
      \/ /\ visited' = visited \cup {Key[p]}
         /\ workCount' = workCount + 1
         /\ sending' = Append(sending, i)
         /\ seeded' = seeded + 1
         /\ UNCHANGED <<phase, ret>>
  BY DEF QueueSeed, QueuePage, runVars, p, i
<1> QED
  BY <1>4, <1>5, <1>6

\* The watcher's verdict: a work count of 0 means that no page is anywhere.
LEMMA WatchBasics == Basics /\ Watch => Basics'
<1> SUFFICES ASSUME Basics, Watch
             PROVE  Basics'
  OBVIOUS
<1>1. /\ UNCHANGED <<call, seeded, hand, ret, ctxDone, groupErr, queue, sending,
                     workCount, visited, sentRequests, pc, task, next, fetched,
                     refused, wire, phase>>
      /\ phase = "loop" /\ ~closed
      /\ closed' = (workCount = 0)
  BY DEF Watch, WatcherReady, callVars, slotVars, history
<1>2. TypeOK'
  BY <1>1 DEF Basics, TypeOK, Key
<1>3. Placed'
  BY <1>1 DEF Basics, Placed, Links
<1>4. ClosedMeansIdle'
  <2> SUFFICES ASSUME workCount = 0
               PROVE  sending = <<>> /\ queue = <<>> /\ hand = <<>> /\ Working = {}
    BY <1>1 DEF ClosedMeansIdle, Working
  <2>1. Len(sending) \in Nat /\ Len(queue) \in Nat /\ Len(hand) \in Nat
    BY DEF Basics, TypeOK
  <2>2. Len(sending) = 0 /\ Len(queue) = 0 /\ Len(hand) = 0 /\ Cardinality(Working) = 0
    BY <2>1, WorkingFacts DEF Basics, WorkCounted
  <2> QED
    BY <2>2, WorkingFacts, EmptySeq DEF Basics, TypeOK
<1> QED
  BY <1>1, <1>2, <1>3, <1>4 DEF Basics, WorkCounted, Working

\* A page moves from its sender to the queue ...
LEMMA SendBasics ==
  ASSUME Basics, NEW k \in 1 .. Len(sending), Send(k)
  PROVE  Basics'
<1>1. /\ UNCHANGED <<phase, call, seeded, hand, ret, ctxDone, groupErr, closed,
                     workCount, visited, sentRequests, pc, task, next, fetched,
                     refused, wire>>
      /\ ~closed /\ Len(queue) < Capacity
      /\ queue' = Append(queue, sending[k])
      /\ sending' = RemoveAt(sending, k)
  BY DEF Send, callVars, slotVars, history
<1>2. sending \in Seq(PageInfo) /\ queue \in Seq(PageInfo) /\ sending[k] \in PageInfo
  BY DEF Basics, TypeOK
<1>3. /\ sending' \in Seq(PageInfo) /\ Len(sending') = Len(sending) - 1
      /\ queue' \in Seq(PageInfo) /\ Len(queue') = Len(queue) + 1
  BY <1>1, <1>2, RemoveAtFacts
<1>4. Len(sending) \in Nat /\ Len(queue) \in Nat /\ Len(hand) \in Nat
  BY DEF Basics, TypeOK
<1>5. TypeOK'
  BY <1>1, <1>3, <1>4, CrawlerAssumption DEF Basics, TypeOK, Key
<1>6. Placed' /\ ClosedMeansIdle'
  BY <1>1 DEF Basics, Placed, ClosedMeansIdle, Links
<1>7. WorkCounted'
  BY <1>1, <1>3, <1>4, WorkingFacts DEF Basics, WorkCounted, Working
<1> QED
  BY <1>5, <1>6, <1>7 DEF Basics

\* ... and from the queue to the dispatch loop, which ends with the queue.
LEMMA ReceiveBasics == Basics /\ Receive => Basics'
<1> SUFFICES ASSUME Basics, Receive
             PROVE  Basics'
  OBVIOUS
<1>1. /\ UNCHANGED <<call, seeded, ret, ctxDone, groupErr, closed, sending,
                     workCount, visited, sentRequests, pc, task, next, fetched,
                     refused, wire>>
      /\ phase = "loop" /\ hand = <<>>
  BY DEF Receive, slotVars, history
<1>2. CASE /\ queue # <<>>
           /\ hand' = <<Head(queue)>>
           /\ queue' = Tail(queue)
           /\ UNCHANGED phase
  <2>1. /\ Head(queue) \in PageInfo
        /\ queue' \in Seq(PageInfo) /\ Len(queue') = Len(queue) - 1
        /\ Len(queue) \in Nat /\ Len(sending) \in Nat
    BY <1>2, HeadTailProperties DEF Basics, TypeOK
  <2>2. hand' \in Seq(PageInfo) /\ Len(hand') = 1 /\ Len(hand) = 0 /\ hand' # <<>>
    BY <1>1, <1>2, <2>1
  <2>3. TypeOK'
    BY <1>1, <1>2, <2>1, <2>2, CrawlerAssumption DEF Basics, TypeOK, Key
  <2>4. Placed' /\ ClosedMeansIdle'
    BY <1>1, <1>2 DEF Basics, Placed, ClosedMeansIdle, Links
  <2>5. WorkCounted'
    BY <1>1, <2>1, <2>2, WorkingFacts DEF Basics, WorkCounted, Working
  <2> QED
    BY <2>3, <2>4, <2>5 DEF Basics
<1>3. CASE /\ queue = <<>> /\ closed
           /\ phase' = "wait"
           /\ UNCHANGED <<hand, queue>>
  BY <1>1, <1>3
  DEF Basics, TypeOK, Key, Links, Placed, WorkCounted, ClosedMeansIdle, Working
<1> QED
  BY <1>2, <1>3 DEF Receive

\* group.Go hands the page to a free slot.
LEMMA DispatchBasics ==
  ASSUME Basics, NEW s \in Slots, Dispatch(s)
  PROVE  Basics'
<1>1. /\ UNCHANGED <<phase, call, seeded, ret, ctxDone, groupErr, queue, closed,
                     sending, workCount, visited, sentRequests, next, fetched,
                     refused, wire>>
      /\ hand # <<>> /\ hand' = <<>> /\ pc[s] = "idle"
      /\ pc' = [pc EXCEPT ![s] = "start"]
      /\ task' = [task EXCEPT ![s] = hand[1]]
  BY DEF Dispatch, runVars, history
<1>2. /\ Len(hand) = 1 /\ Len(hand') = 0 /\ hand' \in Seq(PageInfo)
      /\ hand[1] \in PageInfo
      /\ Len(sending) \in Nat /\ Len(queue) \in Nat
  <2>1. hand \in Seq(PageInfo) /\ Len(hand) \in Nat /\ Len(hand) <= 1
    BY DEF Basics, TypeOK
  <2>2. Len(hand) # 0
    BY <1>1, <2>1, EmptySeq
  <2>3. Len(hand) = 1
    BY <2>1, <2>2, SMTT(30)
  <2>4. hand[1] \in PageInfo
    BY <2>1, <2>3, ElementOfSeq
  <2> QED
    BY <1>1, <2>3, <2>4 DEF Basics, TypeOK
<1>3. /\ pc' \in [Slots -> Labels]
      /\ Working' = Working \cup {s} /\ s \notin Working
  <2>1. "start" \in Labels /\ "start" \notin AtRest /\ pc[s] \in AtRest
    BY <1>1 DEF Labels, AtRest
  <2> QED
    BY <1>1, <2>1, WorkingMoves DEF Basics
<1>4. Cardinality(Working') = Cardinality(Working) + 1
  BY <1>3, WorkingFacts, FS_AddElement
<1>5. TypeOK'
  BY <1>1, <1>2, <1>3 DEF Basics, TypeOK, Key
<1>6. Placed'
  BY <1>1, <1>2 DEF Basics, TypeOK, Placed, Links
<1>7. ClosedMeansIdle'
  BY <1>1 DEF Basics, ClosedMeansIdle
<1>8. WorkCounted'
  BY <1>1, <1>2, <1>4, WorkingFacts DEF Basics, WorkCounted
<1> QED
  BY <1>5, <1>6, <1>7, <1>8 DEF Basics

\* The steps of Crawl and of its environment that move no page.
LEMMA QuietBasics ==
  Basics /\ (LoadScopes \/ StartWatcher \/ Finish \/ Cancel \/ OtherCrawl \/ UNCHANGED vars) => Basics'
<1> SUFFICES ASSUME Basics,
                    LoadScopes \/ StartWatcher \/ Finish \/ Cancel \/ OtherCrawl \/ UNCHANGED vars
             PROVE  Basics'
  OBVIOUS
<1>1. UNCHANGED <<call, seeded, hand, groupErr, queue, closed, sending, workCount,
                  visited, pc, task, next, fetched, refused, wire>>
  BY DEF LoadScopes, StartWatcher, Finish, Cancel, OtherCrawl, vars, callVars, runVars, slotVars, history
<1>2. /\ phase' \in {"load", "seed", "loop", "wait", "returned"}
      /\ ret' \in [kind : {"none", "error", "ok"}, pages : Nat]
      /\ ctxDone' \in BOOLEAN
      /\ sentRequests' \in Nat
  <2>1. CASE StartWatcher \/ Cancel \/ OtherCrawl \/ UNCHANGED vars
    <3>1. sentRequests' \in {sentRequests, sentRequests + 1}
      BY <2>1 DEF StartWatcher, Cancel, OtherCrawl, vars
    <3>2. phase' \in {phase, "loop"} /\ ret' = ret /\ (ctxDone' = ctxDone \/ ctxDone' = TRUE)
      BY <2>1, Zenon DEF StartWatcher, Cancel, OtherCrawl, vars, callVars
    <3>3. sentRequests' \in Nat
      BY <3>1 DEF Basics, TypeOK
    <3>4. ctxDone' \in BOOLEAN
      BY <3>2 DEF Basics, TypeOK
    <3> QED
      BY <3>2, <3>3, <3>4 DEF Basics, TypeOK
  <2>2. CASE Finish
    <3>1. Cardinality(visited) \in Nat
      <4> DEFINE keys == {Key[p] : p \in Pages}
                 f == [p \in Pages |-> Key[p]]
      <4>1. IsFiniteSet(keys)
        <5>1. f \in Surjection(Pages, keys)
          BY DEF Surjection
        <5> QED
          BY <5>1, CrawlerAssumption, FS_Surjection
      <4> QED
        BY <4>1, FS_Subset, FS_CardinalityType DEF Basics, TypeOK
    <3> QED
      BY <2>2, <3>1 DEF Finish, Basics, TypeOK
  <2>3. CASE LoadScopes
    BY <2>3 DEF LoadScopes, Basics, TypeOK
  <2> QED
    BY <2>1, <2>2, <2>3
<1>3. TypeOK'
  BY <1>1, <1>2 DEF Basics, TypeOK, Key
<1>4. Placed'
  BY <1>1 DEF LoadScopes, StartWatcher, Finish, Cancel, OtherCrawl, vars, callVars, Basics, Placed, Links
<1> QED
  BY <1>1, <1>3, <1>4 DEF Basics, WorkCounted, ClosedMeansIdle, Working

\* The steps of crawlPage that queue nothing and end nothing.
LEMMA PageStepBasics ==
  ASSUME Basics, NEW s \in Slots,
         StartPage(s) \/ Fetch(s) \/ CheckLink(s) \/ AddToVisited(s)
  PROVE  Basics'
<1>1. /\ UNCHANGED <<phase, call, seeded, hand, ret, ctxDone, groupErr, queue,
                     closed, sending, workCount, task>>
      /\ s \in Working
  BY DEF StartPage, Fetch, CheckLink, AddToVisited, callVars, runVars, Working
<1>2. PICK l \in Labels \ AtRest : /\ pc' = [pc EXCEPT ![s] = l]
                                   /\ l = "mark" => CheckLink(s)
                                   /\ l = "queue" => AddToVisited(s)
  <2>1. CASE StartPage(s) \/ Fetch(s) \/ AddToVisited(s)
    BY <2>1 DEF StartPage, Fetch, AddToVisited, Labels, AtRest
  <2>2. CASE CheckLink(s)
    <3>1. \/ \E l \in {"done", "fail", "mark"} : pc' = [pc EXCEPT ![s] = l]
          \/ pc[s] = "links" /\ pc' = pc
      BY <2>2 DEF CheckLink
    <3>2. pc[s] = "links" => pc = [pc EXCEPT ![s] = "links"]
      BY DEF Basics, TypeOK
    <3> QED
      BY <2>2, <3>1, <3>2 DEF Labels, AtRest
  <2> QED
    BY <2>1, <2>2
<1>3. pc' \in [Slots -> Labels] /\ Working' = Working
  BY <1>1, <1>2, WorkingMoves, WorkingStays DEF Basics
<1>4. task[s] \in PageInfo /\ task[s].page \in Pages /\ task[s].depth \in Nat
  BY <1>1, InfoFacts DEF Basics, Placed, Working
<1>5. next' \in [Slots -> Nat \ {0}] /\ \A t \in Slots \ {s} : next'[t] = next[t]
  <2>1. next \in [Slots -> Nat \ {0}]
    BY DEF Basics, TypeOK
  <2>2. next' = next \/ \E n \in Nat \ {0} : next' = [next EXCEPT ![s] = n]
    <3>1. CASE StartPage(s)
      BY <3>1 DEF StartPage
    <3>2. CASE Fetch(s)
      <4>1. next' = [next EXCEPT ![s] = 1] /\ 1 \in Nat \ {0}
        BY <3>2 DEF Fetch
      <4> QED
        BY <4>1
    <3>3. CASE CheckLink(s)
      <4>1. next' = next \/ next' = [next EXCEPT ![s] = next[s] + 1]
        BY <3>3 DEF CheckLink
      <4>2. next[s] + 1 \in Nat \ {0}
        BY <2>1
      <4> QED
        BY <4>1, <4>2
    <3>4. CASE AddToVisited(s)
      BY <3>4 DEF AddToVisited
    <3> QED
      BY <3>1, <3>2, <3>3, <3>4
  <2> QED
    BY <2>1, <2>2
<1>6. visited' \subseteq {Key[p] : p \in Pages}
  <2>1. CASE UNCHANGED visited
    BY <2>1 DEF Basics, TypeOK
  <2>2. CASE AddToVisited(s)
    BY <2>2, LinkFacts DEF Basics, TypeOK, AddToVisited, Link
  <2> QED
    BY <2>1, <2>2 DEF StartPage, Fetch, CheckLink, runVars
<1>7. /\ sentRequests' \in Nat /\ fetched' \in [Pages -> Nat] /\ wire' \in Nat
      /\ refused' \subseteq {Key[p] : p \in Pages}
  <2>1. CASE StartPage(s)
    <3>1. refused' \in {refused, refused \cup {Key[task[s].page]}} /\ wire' = wire
      BY <2>1 DEF StartPage
    <3>2. \/ fetched' = fetched
          \/ fetched' = [fetched EXCEPT ![task[s].page] = @ + 1]
      BY <2>1 DEF StartPage
    <3>3. sentRequests' \in {sentRequests, sentRequests + 1}
      BY <2>1 DEF StartPage
    <3>4. refused' \subseteq {Key[p] : p \in Pages} /\ wire' \in Nat
      BY <1>4, <3>1 DEF Basics, TypeOK
    <3>5. fetched \in [Pages -> Nat]
      BY DEF Basics, TypeOK
    <3>6. fetched' \in [Pages -> Nat]
      BY <1>4, <3>2, <3>5
    <3>7. sentRequests' \in Nat
      BY <3>3 DEF Basics, TypeOK
    <3> QED
      BY <3>4, <3>6, <3>7
  <2>2. CASE Fetch(s)
    BY <2>2, CrawlerAssumption DEF Basics, TypeOK, Fetch
  <2>3. CASE CheckLink(s) \/ AddToVisited(s)
    BY <2>3 DEF Basics, TypeOK, CheckLink, AddToVisited, history
  <2> QED
    BY <2>1, <2>2, <2>3
<1>8. TypeOK'
  BY <1>1, <1>3, <1>5, <1>6, <1>7 DEF Basics, TypeOK, Key
<1>9. Placed'
  <2>1. pc'[s] # "idle" /\ pc[s] # "idle" /\ \A t \in Slots \ {s} : pc'[t] = pc[t]
    BY <1>1, <1>2 DEF Basics, TypeOK, Working, AtRest
  <2>2. ASSUME pc'[s] \in {"mark", "queue"}
        PROVE  next'[s] <= Len(Links[task[s].page]) /\ task[s].depth + 1 <= MaxDepth
    <3>1. CASE CheckLink(s)
      <4>1. next'[s] = next[s] /\ ~(next[s] > Len(Links[task[s].page]))
        BY <2>2, <3>1 DEF CheckLink, Basics, TypeOK
      <4>2. ~(task[s].depth + 1 > MaxDepth)
        BY <2>2, <3>1 DEF CheckLink, Basics, TypeOK, Rejected
      <4>3. Len(Links[task[s].page]) \in Nat /\ next[s] \in Nat
        BY <1>4, CallFacts DEF Basics, TypeOK
      <4> QED
        BY <1>4, <4>1, <4>2, <4>3, CrawlerAssumption
    <3>2. CASE AddToVisited(s)
      BY <3>2 DEF AddToVisited, Basics, Placed
    <3> QED
      BY <1>2, <2>2, <3>1, <3>2 DEF Basics, TypeOK
  <2> QED
    BY <1>1, <1>5, <2>1, <2>2 DEF Basics, Placed, Links
<1>10. WorkCounted' /\ ClosedMeansIdle'
  BY <1>1, <1>3 DEF Basics, WorkCounted, ClosedMeansIdle
<1> QED
  BY <1>8, <1>9, <1>10 DEF Basics

LEMMA QueueLinkBasics ==
  ASSUME Basics, NEW s \in Slots, QueueLink(s)
  PROVE  Basics'
<1> DEFINE i == [page |-> Link(s), depth |-> task[s].depth + 1]
<1>1. /\ UNCHANGED <<phase, call, seeded, hand, ret, ctxDone, groupErr, queue, closed,
                     visited, sentRequests, task, fetched, refused, wire>>
      /\ pc[s] = "queue" /\ pc' = [pc EXCEPT ![s] = "links"]
      /\ next' = [next EXCEPT ![s] = @ + 1]
      /\ workCount' = workCount + 1
      /\ sending' = Append(sending, i)
  BY DEF QueueLink, QueuePage, Link, callVars, history
<1>2. i \in PageInfo
  BY <1>1, LinkFacts DEF Basics
<1> HIDE DEF i
<1>3. /\ Len(sending) \in Nat /\ Len(queue) \in Nat /\ Len(hand) \in Nat
      /\ sending' \in Seq(PageInfo) /\ Len(sending') = Len(sending) + 1
      /\ workCount \in Nat
  BY <1>1, <1>2 DEF Basics, TypeOK
<1>4. pc' \in [Slots -> Labels] /\ Working' = Working
  <2>1. "links" \in Labels /\ "links" \notin AtRest /\ pc[s] \notin AtRest
    BY <1>1 DEF Labels, AtRest
  <2> QED
    BY <1>1, <2>1, WorkingMoves, WorkingStays DEF Basics
<1>5. s \in Working
  BY <1>1 DEF Working
<1>6. next' \in [Slots -> Nat \ {0}]
  BY <1>1 DEF Basics, TypeOK
<1>7. TypeOK'
  BY <1>1, <1>3, <1>4, <1>6 DEF Basics, TypeOK, Key
<1>8. Placed'
  BY <1>1 DEF Basics, TypeOK, Placed, Links
<1>9. WorkCounted'
  BY <1>1, <1>3, <1>4, WorkingFacts DEF Basics, WorkCounted
<1>10. ClosedMeansIdle'
  BY <1>1, <1>5 DEF Basics, ClosedMeansIdle
<1> QED
  BY <1>7, <1>8, <1>9, <1>10 DEF Basics

LEMMA PageDoneBasics ==
  ASSUME Basics, NEW s \in Slots, PageDone(s)
  PROVE  Basics'
<1> DEFINE l == IF pc[s] = "fail" THEN "error" ELSE "return"
<1>1. /\ UNCHANGED <<phase, call, seeded, hand, ret, ctxDone, groupErr, queue, closed,
                     sending, visited, sentRequests, task, next, fetched, refused, wire>>
      /\ pc[s] \in {"done", "fail"}
      /\ pc' = [pc EXCEPT ![s] = l]
      /\ workCount' = workCount - 1
  BY DEF PageDone, Uncount, callVars, history
<1>2. l \in Labels /\ l \in AtRest /\ pc[s] \notin AtRest /\ l \notin {"idle", "mark", "queue"}
  BY <1>1 DEF Labels, AtRest
<1> HIDE DEF l
<1>3. pc' \in [Slots -> Labels] /\ Working' = Working \ {s} /\ s \in Working
  BY <1>1, <1>2, WorkingMoves DEF Basics
<1>4. Cardinality(Working') = Cardinality(Working) - 1 /\ Cardinality(Working) # 0
  BY <1>3, WorkingFacts, FS_RemoveElement
<1>5. /\ Len(sending) \in Nat /\ Len(queue) \in Nat /\ Len(hand) \in Nat
      /\ workCount' \in Nat
  BY <1>1, <1>4, WorkingFacts, SMTT(30) DEF Basics, TypeOK, WorkCounted
<1>6. TypeOK'
  BY <1>1, <1>3, <1>5 DEF Basics, TypeOK, Key
<1>7. Placed'
  BY <1>1, <1>2 DEF Basics, TypeOK, Placed, Links
<1>8. WorkCounted'
  BY <1>1, <1>4, <1>5, WorkingFacts DEF Basics, TypeOK, WorkCounted
<1>9. ClosedMeansIdle'
  BY <1>1, <1>3 DEF Basics, ClosedMeansIdle
<1> QED
  BY <1>6, <1>7, <1>8, <1>9 DEF Basics

LEMMA ReleaseBasics ==
  ASSUME Basics, NEW s \in Slots, Release(s)
  PROVE  Basics'
<1>1. /\ UNCHANGED <<phase, call, seeded, hand, ret, ctxDone, queue, closed, sending,
                     workCount, visited, sentRequests, fetched, refused, wire>>
      /\ pc[s] \in {"return", "error"}
      /\ pc' = [pc EXCEPT ![s] = "idle"]
      /\ task' = [task EXCEPT ![s] = NoPage]
      /\ next' = [next EXCEPT ![s] = 1]
      /\ groupErr' = (groupErr \/ pc[s] = "error")
  BY DEF Release, callVars, runVars, history
<1>2. pc' \in [Slots -> Labels] /\ Working' = Working
  <2>1. "idle" \in Labels /\ "idle" \in AtRest /\ pc[s] \in AtRest
    BY <1>1 DEF Labels, AtRest
  <2> QED
    BY <1>1, <2>1, WorkingMoves, WorkingStays DEF Basics
<1>3. /\ task' \in [Slots -> PageInfo \cup {NoPage}]
      /\ next' \in [Slots -> Nat \ {0}]
      /\ groupErr' \in BOOLEAN
  BY <1>1 DEF Basics, TypeOK
<1>4. TypeOK'
  BY <1>1, <1>2, <1>3 DEF Basics, TypeOK, Key
<1>5. ret.kind # "ok"
  BY <1>1 DEF Basics, Placed
<1>6. Placed'
  BY <1>1, <1>5 DEF Basics, TypeOK, Placed, Links
<1> QED
  BY <1>1, <1>2, <1>4, <1>6 DEF Basics, WorkCounted, ClosedMeansIdle

LEMMA InitBasics == Init => Basics
<1> SUFFICES ASSUME Init
             PROVE  Basics
  OBVIOUS
<1>1. TypeOK
  <2>1. Len(call.urls) \in Nat
    BY CrawlerAssumption DEF Init
  <2>2. pc \in [Slots -> Labels] /\ fetched \in [Pages -> Nat]
    BY DEF Init, Labels
  <2>3. /\ hand \in Seq(PageInfo) /\ queue \in Seq(PageInfo) /\ sending \in Seq(PageInfo)
        /\ Len(hand) = 0 /\ Len(queue) = 0
    BY DEF Init
  <2>4. /\ ret \in [kind : {"none", "error", "ok"}, pages : Nat]
        /\ task \in [Slots -> PageInfo \cup {NoPage}]
        /\ next \in [Slots -> Nat \ {0}]
    BY DEF Init
  <2>5. seeded \in 0 .. Len(call.urls)
    BY <2>1 DEF Init
  <2>6. ctxDone \in BOOLEAN /\ groupErr \in BOOLEAN /\ closed \in BOOLEAN
    BY Zenon DEF Init
  <2> QED
    BY <2>2, <2>3, <2>4, <2>5, <2>6, CrawlerAssumption DEF Init, TypeOK
<1>2. Placed
  BY DEF Init, Placed
<1>3. Working = {}
  BY DEF Init, Working
<1> QED
  BY <1>1, <1>2, <1>3, FS_EmptySet DEF Init, Basics, WorkCounted, ClosedMeansIdle

LEMMA StepBasics == Basics /\ [Next]_vars => Basics'
<1> SUFFICES ASSUME Basics, [Next]_vars
             PROVE  Basics'
  OBVIOUS
<1>1. ASSUME NEW s \in Slots, SlotStep(s)
      PROVE  Basics'
  BY <1>1, PageStepBasics, QueueLinkBasics, PageDoneBasics, ReleaseBasics DEF SlotStep
<1> QED
  BY <1>1, SeedBasics, WatchBasics, SendBasics, ReceiveBasics, DispatchBasics,
     QuietBasics
  DEF Next, Terminated

\* For every number of slots, every queue and every site: the work count is the
\* number of pages in the system, and the watcher, who sees nothing else, closes
\* the queue only when no page is left and no goroutine that could send one.
THEOREM TerminationIsExact == Spec => []TerminationExact
<1>1. Basics => TerminationExact
  BY DEF Basics, TerminationExact
<1> QED
  BY <1>1, InitBasics, StepBasics, PTL DEF Spec

-----------------------------------------------------------------------------
(* Nothing that is marked as visited is forgotten.                         *)

LEMMA AmongAppend ==
  ASSUME NEW S, NEW q \in Seq(S), NEW i \in S, NEW key, NEW k
  PROVE  Among(Append(q, i), key, k) <=> Among(q, key, k) \/ key[i.page] = k
<1>1. /\ Len(Append(q, i)) = Len(q) + 1 /\ Len(q) \in Nat
      /\ Append(q, i)[Len(q) + 1] = i
      /\ \A j \in 1 .. Len(q) : Append(q, i)[j] = q[j]
  BY AppendProperties
<1>2. 1 .. Len(q) + 1 = 1 .. Len(q) \cup {Len(q) + 1}
  BY <1>1
<1> QED
  BY <1>1, <1>2 DEF Among

LEMMA SeedAccounted == Basics /\ NothingForgotten /\ QueueSeed => NothingForgotten'
<1> SUFFICES ASSUME Basics, NothingForgotten, QueueSeed
             PROVE  NothingForgotten'
  OBVIOUS
<1> DEFINE p == call.urls[seeded + 1]
           i == [page |-> p, depth |-> 0]
<1>1. /\ UNCHANGED <<call, hand, groupErr, queue, pc, task, next, fetched, refused>>
      /\ \/ UNCHANGED <<visited, sending>>
         \/ visited' = visited \cup {Key[p]} /\ sending' = Append(sending, i)
  BY DEF QueueSeed, QueuePage, runVars, slotVars, history
<1>2. sending \in Seq(PageInfo)
  BY DEF Basics, TypeOK
<1>3. CASE UNCHANGED <<visited, sending>>
  BY <1>1, <1>3 DEF NothingForgotten, Settled, Underway, Among, Failing, Key, Link, Links
<1>4. CASE visited' = visited \cup {Key[p]} /\ sending' = Append(sending, i)
  <2>1. p \in Pages
    BY CallFacts DEF Basics, TypeOK, QueueSeed
  <2>2. i \in PageInfo /\ i.page = p
    BY <2>1, InfoFacts
  <2> HIDE DEF i, p
  <2>3. \A k : Among(sending', Key, k) <=> Among(sending, Key, k) \/ Key[p] = k
    BY <1>2, <1>4, <2>2, AmongAppend
  <2>4. \A k : Underway(k) \/ k = Key[p] => Underway(k)'
    BY <1>1, <2>3 DEF Underway, Key, Link, Links
  <2>5. (\A k : Settled(k) => Settled(k)') /\ (Failing => Failing')
    BY <1>1 DEF Settled, Failing, Key
  <2> QED
    BY <1>4, <2>4, <2>5 DEF NothingForgotten
<1> QED
  BY <1>1, <1>3, <1>4

\* Pages move from a sender to the queue, to the loop, to a slot.
LEMMA SendAccounted ==
  ASSUME Basics, NothingForgotten, NEW k \in 1 .. Len(sending), Send(k)
  PROVE  NothingForgotten'
<1>1. /\ UNCHANGED <<call, hand, groupErr, visited, pc, task, next, fetched, refused>>
      /\ queue' = Append(queue, sending[k])
      /\ sending' = RemoveAt(sending, k)
  BY DEF Send, callVars, slotVars, history
<1>2. /\ sending \in Seq(PageInfo) /\ queue \in Seq(PageInfo) /\ sending[k] \in PageInfo
      /\ Len(sending) \in Nat /\ Len(queue) \in Nat
  BY DEF Basics, TypeOK
<1>3. /\ Len(queue') = Len(queue) + 1 /\ queue'[Len(queue) + 1] = sending[k]
      /\ \A j \in 1 .. Len(queue) : queue'[j] = queue[j]
  BY <1>1, <1>2, AppendProperties
<1>4. /\ Len(sending') = Len(sending) - 1
      /\ \A j \in 1 .. Len(sending) - 1 :
            sending'[j] = IF j < k THEN sending[j] ELSE sending[j + 1]
  BY <1>1, <1>2, RemoveAtFacts
<1>5. ASSUME NEW x, NEW j \in 1 .. Len(sending), Key[sending[j].page] = x
      PROVE  Underway(x)'
  <2>1. CASE j < k
    <3>1. j \in 1 .. Len(sending') /\ sending'[j] = sending[j]
      BY <1>2, <1>4, <2>1
    <3> QED
      BY <1>1, <1>5, <3>1 DEF Underway, Among, Key
  <2>2. CASE j = k
    <3>1. Len(queue) + 1 \in 1 .. Len(queue') /\ queue'[Len(queue) + 1] = sending[j]
      BY <1>2, <1>3, <2>2
    <3> QED
      BY <1>1, <1>5, <3>1 DEF Underway, Among, Key
  <2>3. CASE j > k
    <3>1. j - 1 \in 1 .. Len(sending') /\ sending'[j - 1] = sending[j]
      BY <1>2, <1>4, <2>3
    <3> QED
      BY <1>1, <1>5, <3>1 DEF Underway, Among, Key
  <2> QED
    BY <2>1, <2>2, <2>3
<1>6. ASSUME NEW x, NEW j \in 1 .. Len(queue), Key[queue[j].page] = x
      PROVE  Underway(x)'
  <2>1. j \in 1 .. Len(queue') /\ queue'[j] = queue[j]
    BY <1>2, <1>3
  <2> QED
    BY <1>1, <1>6, <2>1 DEF Underway, Among, Key
<1>7. \A x : Underway(x) => Underway(x)'
  BY <1>1, <1>5, <1>6 DEF Underway, Among, Key, Link, Links
<1>8. (\A x : Settled(x) => Settled(x)') /\ (Failing => Failing')
  BY <1>1 DEF Settled, Failing, Key
<1> QED
  BY <1>1, <1>7, <1>8 DEF NothingForgotten

LEMMA ReceiveAccounted == Basics /\ NothingForgotten /\ Receive => NothingForgotten'
<1> SUFFICES ASSUME Basics, NothingForgotten, Receive
             PROVE  NothingForgotten'
  OBVIOUS
<1>1. /\ UNCHANGED <<call, groupErr, sending, visited, pc, task, next, fetched, refused>>
      /\ hand = <<>>
  BY DEF Receive, slotVars, history
<1>2. CASE queue # <<>> /\ hand' = <<Head(queue)>> /\ queue' = Tail(queue)
  <2>1. queue \in Seq(PageInfo)
    BY DEF Basics, TypeOK
  <2>2. /\ Len(queue) \in Nat /\ Len(queue') = Len(queue) - 1
        /\ \A j \in 1 .. Len(queue') : queue'[j] = queue[j + 1]
        /\ hand'[1] = queue[1] /\ hand' # <<>>
    BY <1>2, <2>1, HeadTailProperties
  <2>3. ASSUME NEW x, NEW j \in 1 .. Len(queue), Key[queue[j].page] = x
        PROVE  Underway(x)'
    <3>1. CASE j = 1
      BY <1>1, <2>2, <2>3, <3>1 DEF Underway, Among, Key
    <3>2. CASE j # 1
      <4>1. j - 1 \in 1 .. Len(queue') /\ queue'[j - 1] = queue[j]
        BY <2>2, <3>2
      <4> QED
        BY <1>1, <2>3, <4>1 DEF Underway, Among, Key
    <3> QED
      BY <3>1, <3>2
  <2>4. \A x : Underway(x) => Underway(x)'
    BY <1>1, <2>3 DEF Underway, Among, Key, Link, Links
  <2> QED
    BY <1>1, <2>4 DEF NothingForgotten, Settled, Failing, Key
<1>3. CASE UNCHANGED <<hand, queue>>
  BY <1>1, <1>3 DEF NothingForgotten, Settled, Underway, Among, Failing, Key, Link, Links
<1> QED
  BY <1>2, <1>3 DEF Receive

LEMMA DispatchAccounted ==
  ASSUME Basics, NothingForgotten, NEW s \in Slots, Dispatch(s)
  PROVE  NothingForgotten'
<1>1. /\ UNCHANGED <<call, groupErr, queue, sending, visited, next, fetched, refused>>
      /\ hand # <<>> /\ pc[s] = "idle"
      /\ pc' = [pc EXCEPT ![s] = "start"]
      /\ task' = [task EXCEPT ![s] = hand[1]]
  BY DEF Dispatch, runVars, history
<1>2. /\ pc'[s] = "start" /\ task'[s] = hand[1]
      /\ \A t \in Slots : t # s => pc'[t] = pc[t] /\ task'[t] = task[t]
  BY <1>1 DEF Basics, TypeOK
<1>3. ASSUME NEW x, Underway(x)
      PROVE  Underway(x)'
  <2>1. CASE Among(sending, Key, x) \/ Among(queue, Key, x)
    BY <1>1, <2>1 DEF Underway, Among, Key
  <2>2. CASE Key[hand[1].page] = x
    BY <1>1, <1>2, <2>2 DEF Underway, Key
  <2>3. CASE \E t \in Slots : pc[t] = "start" /\ Key[task[t].page] = x
    BY <1>1, <1>2, <2>3 DEF Underway, Key
  <2>4. CASE \E t \in Slots : pc[t] = "queue" /\ Key[Link(t)] = x
    BY <1>1, <1>2, <2>4 DEF Underway, Key, Link, Links
  <2> QED
    BY <1>3, <2>1, <2>2, <2>3, <2>4 DEF Underway
<1>4. Failing => Failing'
  BY <1>1, <1>2 DEF Failing
<1> QED
  BY <1>1, <1>3, <1>4 DEF NothingForgotten, Settled, Key

\* A step of slot s leaves a key under way, unless s itself had it in its hands.
LEMMA UnderwayKept ==
  ASSUME NEW s \in Slots, NEW x, Underway(x), UNCHANGED <<call, hand, queue>>,
         Among(sending, Key, x) => Among(sending, Key, x)',
         \A t \in Slots : t # s => pc'[t] = pc[t] /\ task'[t] = task[t] /\ next'[t] = next[t]
  PROVE  \/ Underway(x)'
         \/ pc[s] = "start" /\ Key[task[s].page] = x
         \/ pc[s] = "queue" /\ Key[Link(s)] = x
<1>1. CASE Among(sending, Key, x)
  BY <1>1 DEF Underway
<1>2. CASE Among(queue, Key, x)
  BY <1>2 DEF Underway, Among, Key
<1>3. CASE hand # <<>> /\ Key[hand[1].page] = x
  BY <1>3 DEF Underway, Key
<1>4. ASSUME NEW t \in Slots, pc[t] = "start", Key[task[t].page] = x
      PROVE  Underway(x)' \/ t = s
  BY <1>4 DEF Underway, Key
<1>5. ASSUME NEW t \in Slots, pc[t] = "queue", Key[Link(t)] = x
      PROVE  Underway(x)' \/ t = s
  <2> SUFFICES ASSUME t # s
               PROVE  Underway(x)'
    OBVIOUS
  <2>1. pc'[t] = "queue" /\ Key[Link(t)]' = x
    BY <1>5 DEF Key, Link, Links
  <2> QED
    BY <2>1 DEF Underway
<1> QED
  BY <1>1, <1>2, <1>3, <1>4, <1>5 DEF Underway

\* A slot settles the page it was given; a link it has marked goes to a sender.
LEMMA SlotAccounted ==
  ASSUME Basics, NothingForgotten, NEW s \in Slots, SlotStep(s)
  PROVE  NothingForgotten'
<1>1. UNCHANGED <<call, hand, queue>>
  BY DEF SlotStep, StartPage, Fetch, CheckLink, AddToVisited, QueueLink, PageDone,
         Release, callVars, runVars
<1>2. \A t \in Slots : t # s => pc'[t] = pc[t] /\ task'[t] = task[t] /\ next'[t] = next[t]
  BY DEF SlotStep, StartPage, Fetch, CheckLink, AddToVisited, QueueLink, PageDone,
         Release, slotVars, Basics, TypeOK
<1>3. Failing => Failing'
  <2>1. groupErr => groupErr'
    BY DEF SlotStep, StartPage, Fetch, CheckLink, AddToVisited, QueueLink, PageDone,
           Release
  <2>2. pc[s] \in {"fail", "error"} => groupErr' \/ pc'[s] \in {"fail", "error"}
    BY DEF SlotStep, StartPage, Fetch, CheckLink, AddToVisited, QueueLink, PageDone,
           Release, Basics, TypeOK
  <2> QED
    BY <1>2, <2>1, <2>2 DEF Failing
<1>4. CASE StartPage(s)
  <2>1. UNCHANGED <<visited, sending, task, next>>
    BY <1>4 DEF StartPage, runVars
  <2>2. task[s].page \in Pages /\ pc[s] = "start"
    BY <1>4, InfoFacts DEF StartPage, Basics, Placed
  <2>3. \/ pc'[s] = "fail" /\ UNCHANGED <<fetched, refused>>
        \/ refused' = refused \cup {Key[task[s].page]} /\ UNCHANGED fetched
        \/ fetched' = [fetched EXCEPT ![task[s].page] = @ + 1] /\ UNCHANGED refused
    BY <1>4 DEF StartPage, Basics, TypeOK
  <2>4. /\ refused \subseteq refused'
        /\ \A p \in Pages : fetched[p] > 0 => fetched'[p] > 0
        /\ \/ pc'[s] = "fail"
           \/ Key[task[s].page] \in refused'
           \/ fetched'[task[s].page] > 0
    <3>1. fetched \in [Pages -> Nat]
      BY DEF Basics, TypeOK
    <3> QED
      BY <2>2, <2>3, <3>1
  <2>5. \A x : Settled(x) => Settled(x)'
    BY <1>1, <2>4 DEF Settled, Key
  <2>7. \A x : x = Key[task[s].page] => Settled(x)' \/ Failing'
    BY <1>1, <2>2, <2>4 DEF Settled, Failing, Key
  <2>6. \A x : Underway(x) => Underway(x)' \/ x = Key[task[s].page]
    <3>1. \A x : Among(sending, Key, x) => Among(sending, Key, x)'
      BY <1>1, <2>1 DEF Among, Key
    <3> QED
      BY <1>1, <1>2, <2>2, <3>1, UnderwayKept
  <2> QED
    BY <1>1, <1>3, <2>1, <2>5, <2>7, <2>6 DEF NothingForgotten, Key
<1>5. CASE AddToVisited(s)
  <2>1. /\ UNCHANGED <<sending, task, next, fetched, refused>>
        /\ visited' = visited \cup {Key[Link(s)]}
        /\ pc'[s] = "queue" /\ pc[s] = "mark"
    BY <1>5 DEF AddToVisited, history, Link, Basics, TypeOK
  <2>2. \A x : Underway(x) => Underway(x)'
    <3>1. \A x : Among(sending, Key, x) => Among(sending, Key, x)'
      BY <1>1, <2>1 DEF Among, Key
    <3> QED
      BY <1>1, <1>2, <2>1, <3>1, UnderwayKept
  <2>3. \A x : x = Key[Link(s)] => Underway(x)'
    BY <1>1, <2>1 DEF Underway, Key, Link, Links
  <2>4. \A x : Settled(x) => Settled(x)'
    BY <1>1, <2>1 DEF Settled, Key
  <2> QED
    BY <1>3, <2>1, <2>2, <2>3, <2>4 DEF NothingForgotten
<1>6. CASE QueueLink(s)
  <2> DEFINE i == [page |-> Link(s), depth |-> task[s].depth + 1]
  <2>1. /\ UNCHANGED <<visited, task, fetched, refused>>
        /\ sending' = Append(sending, i)
        /\ pc'[s] = "links" /\ pc[s] = "queue"
    BY <1>6 DEF QueueLink, QueuePage, history, Link, Basics, TypeOK
  <2>2. i \in PageInfo /\ i.page = Link(s) /\ sending \in Seq(PageInfo)
    BY <2>1, LinkFacts DEF Basics, TypeOK
  <2> HIDE DEF i
  <2>3. \A x : Among(sending', Key, x) <=> Among(sending, Key, x) \/ Key[Link(s)] = x
    BY <2>1, <2>2, AmongAppend
  <2>4. \A x : Underway(x) => Underway(x)'
    <3>1. Key' = Key
      BY <1>1 DEF Key
    <3>2. \A x : Among(sending, Key, x) => Among(sending, Key, x)'
      BY <2>3, <3>1
    <3>3. \A x : Key[Link(s)] = x => Underway(x)'
      BY <2>3, <3>1 DEF Underway
    <3> QED
      BY <1>1, <1>2, <2>1, <3>2, <3>3, UnderwayKept
  <2>5. \A x : Settled(x) => Settled(x)'
    BY <1>1, <2>1 DEF Settled, Key
  <2> QED
    BY <1>3, <2>1, <2>4, <2>5 DEF NothingForgotten
<1>7. CASE Fetch(s) \/ CheckLink(s) \/ PageDone(s) \/ Release(s)
  <2>1. UNCHANGED <<visited, sending, fetched, refused>>
    BY <1>7 DEF Fetch, CheckLink, PageDone, Release, runVars, history
  <2>2. pc[s] \notin {"start", "queue"}
    BY <1>7 DEF Fetch, CheckLink, PageDone, Release
  <2>3. \A x : Underway(x) => Underway(x)'
    <3>1. \A x : Among(sending, Key, x) => Among(sending, Key, x)'
      BY <1>1, <2>1 DEF Among, Key
    <3> QED
      BY <1>1, <1>2, <2>2, <3>1, UnderwayKept
  <2> QED
    BY <1>1, <1>3, <2>1, <2>3 DEF NothingForgotten, Settled, Key
<1> QED
  BY <1>4, <1>5, <1>6, <1>7 DEF SlotStep

LEMMA StepAccounted == Basics /\ NothingForgotten /\ [Next]_vars => NothingForgotten'
<1> SUFFICES ASSUME Basics, NothingForgotten, [Next]_vars
             PROVE  NothingForgotten'
  OBVIOUS
<1>1. ASSUME UNCHANGED <<call, hand, groupErr, queue, sending, visited, slotVars,
                         fetched, refused>>
      PROVE  NothingForgotten'
  BY <1>1 DEF NothingForgotten, Settled, Underway, Among, Failing, Key, Link, Links, slotVars
<1>2. CASE LoadScopes \/ StartWatcher \/ Watch \/ Finish \/ Cancel \/ OtherCrawl \/ Terminated
           \/ UNCHANGED vars
  BY <1>1, <1>2 DEF LoadScopes, StartWatcher, Watch, Finish, Cancel, OtherCrawl, Terminated, vars,
                    callVars, runVars, history
<1> QED
  BY <1>2, SeedAccounted, SendAccounted, ReceiveAccounted, DispatchAccounted, SlotAccounted
  DEF Next

\* When Crawl returns without an error, every page marked as visited was requested
\* or dropped for want of requests: at that point no page is underway any more.
THEOREM NothingIsForgotten == Spec => []VisitedWasRequested
<1>1. Basics /\ NothingForgotten => VisitedWasRequested
  <2> SUFFICES ASSUME Basics, NothingForgotten, ret.kind = "ok", NEW k \in visited
               PROVE  Settled(k)
    BY DEF VisitedWasRequested, Settled
  <2>1. closed /\ ~groupErr /\ \A s \in Slots : pc[s] = "idle"
    BY DEF Basics, Placed
  <2>2. sending = <<>> /\ queue = <<>> /\ hand = <<>>
    BY <2>1 DEF Basics, ClosedMeansIdle
  <2>3. ~Underway(k) /\ ~Failing
    BY <2>1, <2>2 DEF Underway, Among, Failing
  <2> QED
    BY <2>3 DEF NothingForgotten
<1>2. Init => NothingForgotten
  BY DEF Init, NothingForgotten
<1> QED
  BY <1>1, <1>2, InitBasics, StepBasics, StepAccounted, PTL DEF Spec

-----------------------------------------------------------------------------
(* Requests stay within the allowance, and a page is requested at most once   *)
(* per slot.                                                                  *)

\* The requests made are counted, and the count is within the allowance.
Counted ==
  /\ IsFiniteSet(Requests)
  /\ Cardinality(Requests) <= sentRequests
  /\ MaxRequests >= 0 => sentRequests <= MaxRequests

\* Where the page of key k is: with a sender, in the queue, in the loop's hand,
\* with a slot about to request it, requested; or with a slot that found it not
\* visited and is about to mark or to queue it.
Keys == {Key[p] : p \in Pages}
PagesOf(k)  == {i \in PageInfo : Key[i.page] = k}
Starting(k) == {s \in Slots : pc[s] = "start" /\ Key[task[s].page] = k}
Marking(k)  == {s \in Slots : pc[s] \in {"mark", "queue"} /\ Key[Link(s)] = k}

Copies(k) == Count(sending, PagesOf(k)) + Count(queue, PagesOf(k))
               + Count(hand, PagesOf(k)) + Cardinality(Starting(k)) + RequestsForKey(k)

Bound == MaxOf(1, Cardinality(Slots))

\* While k is not marked as visited its page is nowhere but with slots about to
\* mark it; from then on no copy is added to those that the slots hold.
KeyBounded(k) ==
  IF k \in visited
    THEN Cardinality(Marking(k)) + Copies(k) <= Bound
    ELSE Copies(k) = 0 /\ \A s \in Marking(k) : pc[s] = "mark"

CopiesBounded == \A k \in Keys : KeyBounded(k)

NoSlotNoRequest == Slots = {} => Requests = {}

\* A request of client.Do adds one to the requests, and to those for its key.
LEMMA RequestAdds ==
  ASSUME TypeOK, IsFiniteSet(Requests), NEW p \in Pages, UNCHANGED call,
         fetched' = [fetched EXCEPT ![p] = @ + 1]
  PROVE  /\ IsFiniteSet(Requests')
         /\ Cardinality(Requests') = Cardinality(Requests) + 1
         /\ \A k : RequestsForKey(k)' = RequestsForKey(k) + (IF Key[p] = k THEN 1 ELSE 0)
<1> DEFINE new == <<p, fetched[p] + 1>>
           For(k) == {r \in Requests : Key[r[1]] = k}
<1>1. fetched \in [Pages -> Nat] /\ fetched' \in [Pages -> Nat]
  BY DEF TypeOK
<1>2. \A r : r \in Requests' <=> r \in Requests \/ r = new
  BY <1>1 DEF Requests
<1>3. new \notin Requests
  BY <1>1 DEF Requests
<1> HIDE DEF new
<1>4. Requests' = Requests \cup {new}
  BY <1>2
<1>5. new[1] = p
  BY DEF new
<1>6. IsFiniteSet(Requests') /\ Cardinality(Requests') = Cardinality(Requests) + 1
  BY <1>3, <1>4, FS_AddElement
<1>7. ASSUME NEW k
      PROVE  RequestsForKey(k)' = RequestsForKey(k) + (IF Key[p] = k THEN 1 ELSE 0)
  <2>1. RequestsForKey(k)' = Cardinality({r \in Requests' : Key[r[1]] = k})
    BY DEF RequestsForKey, Key
  <2>2. IsFiniteSet(For(k)) /\ Cardinality(For(k)) \in Nat
    BY FS_Subset, FS_CardinalityType
  <2>3. CASE Key[p] = k
    <3>1. {r \in Requests' : Key[r[1]] = k} = For(k) \cup {new} /\ new \notin For(k)
      BY <1>3, <1>4, <1>5, <2>3
    <3>2. Cardinality({r \in Requests' : Key[r[1]] = k}) = Cardinality(For(k)) + 1
      BY <2>2, <3>1, FS_AddElement
    <3> QED
      BY <2>1, <2>3, <3>2 DEF RequestsForKey
  <2>4. CASE Key[p] # k
    <3>1. {r \in Requests' : Key[r[1]] = k} = For(k)
      BY <1>4, <1>5, <2>4
    <3>2. RequestsForKey(k)' = RequestsForKey(k) /\ RequestsForKey(k) \in Nat
      BY <2>1, <2>2, <3>1 DEF RequestsForKey
    <3> QED
      BY <2>4, <3>2
  <2> QED
    BY <2>3, <2>4
<1> QED
  BY <1>6, <1>7

\* The calls of client.Do never exceed the counter under the mutex.
LEMMA StepCounted == Basics /\ Counted /\ [Next]_vars => Counted'
<1> SUFFICES ASSUME Basics, Counted, [Next]_vars
             PROVE  Counted'
  OBVIOUS
<1>1. IsFiniteSet(Requests) /\ Cardinality(Requests) \in Nat /\ sentRequests \in Nat
  BY FS_CardinalityType DEF Counted, Basics, TypeOK
<1>2. CASE UNCHANGED <<fetched, sentRequests>>
  BY <1>2 DEF Counted, Requests
<1>3. CASE OtherCrawl
  <2>1. Requests' = Requests /\ sentRequests' = sentRequests + 1 /\ MayRequest
    BY <1>3 DEF OtherCrawl, Requests, history
  <2> QED
    BY <1>1, <2>1, CrawlerAssumption DEF Counted, MayRequest
<1>4. ASSUME NEW s \in Slots, StartPage(s)
      PROVE  Counted'
  <2>1. task[s].page \in Pages /\ UNCHANGED call
    BY <1>4, InfoFacts DEF StartPage, Basics, Placed, callVars
  <2>2. CASE /\ MayRequest
             /\ sentRequests' = sentRequests + 1
             /\ fetched' = [fetched EXCEPT ![task[s].page] = @ + 1]
    <3>1. IsFiniteSet(Requests') /\ Cardinality(Requests') = Cardinality(Requests) + 1
      BY <1>1, <2>1, <2>2, RequestAdds DEF Basics
    <3> QED
      BY <1>1, <2>2, <3>1, CrawlerAssumption DEF Counted, MayRequest
  <2> QED
    BY <1>2, <1>4, <2>2 DEF StartPage
<1>5. CASE QueueSeed \/ LoadScopes \/ StartWatcher \/ Watch \/ Receive \/ Finish \/ Cancel \/ Terminated
           \/ UNCHANGED vars \/ \E k \in 1 .. Len(sending) : Send(k)
  BY <1>2, <1>5 DEF LoadScopes, QueueSeed, StartWatcher, Watch, Receive, Finish, Cancel, Terminated, Send,
                    vars, history
<1>6. ASSUME NEW s \in Slots,
             \/ Dispatch(s) \/ Fetch(s) \/ CheckLink(s) \/ AddToVisited(s) \/ QueueLink(s)
             \/ PageDone(s) \/ Release(s)
      PROVE  Counted'
  BY <1>2, <1>6 DEF Dispatch, Fetch, CheckLink, AddToVisited, QueueLink, PageDone, Release,
                    history
<1> QED
  BY <1>3, <1>4, <1>5, <1>6 DEF Next, SlotStep

LEMMA BoundFacts ==
  /\ Bound \in Nat /\ Bound >= 1 /\ Cardinality(Slots) \in Nat
  /\ \A k : Cardinality(Marking(k)) \in Nat /\ Cardinality(Marking(k)) <= Bound
  /\ \A k : IsFiniteSet(Marking(k)) /\ IsFiniteSet(Starting(k)) /\ Cardinality(Starting(k)) \in Nat
<1>1. IsFiniteSet(Slots) /\ Cardinality(Slots) \in Nat
  BY CrawlerAssumption, FS_CardinalityType
<1>2. \A T : T \subseteq Slots => /\ IsFiniteSet(T) /\ Cardinality(T) \in Nat
                                  /\ Cardinality(T) <= Cardinality(Slots)
  BY <1>1, FS_Subset, FS_CardinalityType
<1>3. \A k : Marking(k) \subseteq Slots /\ Starting(k) \subseteq Slots
  BY DEF Marking, Starting
<1>4. Bound \in Nat /\ Bound >= 1 /\ Bound >= Cardinality(Slots)
  BY <1>1 DEF Bound, MaxOf
<1> QED
  BY <1>1, <1>2, <1>3, <1>4

LEMMA CountNat ==
  ASSUME Basics, Counted
  PROVE  \A k : /\ Count(sending, PagesOf(k)) \in Nat
                /\ Count(queue, PagesOf(k)) \in Nat
                /\ Count(hand, PagesOf(k)) \in Nat
                /\ RequestsForKey(k) \in Nat
<1> SUFFICES ASSUME NEW k
             PROVE  /\ Count(sending, PagesOf(k)) \in Nat
                    /\ Count(queue, PagesOf(k)) \in Nat
                    /\ Count(hand, PagesOf(k)) \in Nat
                    /\ RequestsForKey(k) \in Nat
  OBVIOUS
<1>1. sending \in Seq(PageInfo) /\ queue \in Seq(PageInfo) /\ hand \in Seq(PageInfo)
  BY DEF Basics, TypeOK
<1>2. IsFiniteSet({r \in Requests : Key[r[1]] = k})
  BY FS_Subset DEF Counted
<1> QED
  BY <1>1, <1>2, PlacesFinite, FS_CardinalityType DEF RequestsForKey

\* The parts that a step leaves alone.
LEMMA SlotsStay ==
  ASSUME UNCHANGED <<call, slotVars>>
  PROVE  \A k : Starting(k)' = Starting(k) /\ Marking(k)' = Marking(k)
  BY DEF Starting, Marking, Link, Links, Key, slotVars

LEMMA RequestsStay ==
  ASSUME UNCHANGED <<call, fetched>>
  PROVE  \A k : RequestsForKey(k)' = RequestsForKey(k)
  BY DEF RequestsForKey, Requests, Key

LEMMA CountsAfter ==
  ASSUME UNCHANGED call
  PROVE  \A k : /\ Count(sending, PagesOf(k))' = Count(sending', PagesOf(k))
                /\ Count(queue, PagesOf(k))' = Count(queue', PagesOf(k))
                /\ Count(hand, PagesOf(k))' = Count(hand', PagesOf(k))
  BY DEF PagesOf, Key, Count, Places

\* What the copies of k are after a step, from its parts.
LEMMA CopiesAfter ==
  ASSUME UNCHANGED call, NEW k
  PROVE  Copies(k)' = Count(sending', PagesOf(k)) + Count(queue', PagesOf(k))
                        + Count(hand', PagesOf(k)) + Cardinality(Starting(k)')
                        + RequestsForKey(k)'
  BY CountsAfter DEF Copies

\* Pages that move from a sender to the queue, to the loop, to a slot.
LEMMA SendBounded ==
  ASSUME Basics, Counted, CopiesBounded, NEW j \in 1 .. Len(sending), Send(j), NEW k \in Keys
  PROVE  KeyBounded(k)'
<1>1. /\ UNCHANGED <<call, hand, visited, slotVars, fetched>>
      /\ queue' = Append(queue, sending[j])
      /\ sending' = RemoveAt(sending, j)
  BY DEF Send, callVars, history
<1>2. sending \in Seq(PageInfo) /\ queue \in Seq(PageInfo) /\ sending[j] \in PageInfo
  BY DEF Basics, TypeOK
<1> DEFINE d == In(sending[j], PagesOf(k))
<1>3. Count(queue', PagesOf(k)) = Count(queue, PagesOf(k)) + d
  BY <1>1, <1>2, CountAppend
<1>4. Count(sending', PagesOf(k)) = Count(sending, PagesOf(k)) - d
  <2>1. /\ sending' \in Seq(PageInfo) /\ Len(sending') = Len(sending) - 1
        /\ \A i \in 1 .. Len(sending') :
              sending'[i] = IF i < j THEN sending[i] ELSE sending[i + 1]
    BY <1>1, <1>2, RemoveAtFacts
  <2> QED
    BY <1>2, <2>1, CountRemove
<1>5. d \in {0, 1}
  BY DEF In
<1> HIDE DEF d
<1>6. Copies(k)' = Copies(k)
  BY <1>1, <1>3, <1>4, <1>5, CopiesAfter, SlotsStay, RequestsStay, CountNat, BoundFacts
  DEF Copies
<1> QED
  BY <1>1, <1>6, SlotsStay, BoundFacts
  DEF CopiesBounded, KeyBounded, Bound, slotVars

LEMMA ReceiveBounded ==
  ASSUME Basics, Counted, CopiesBounded, Receive, NEW k \in Keys
  PROVE  KeyBounded(k)'
<1>1. UNCHANGED <<call, sending, visited, slotVars, fetched>> /\ hand = <<>>
  BY DEF Receive, history
<1>2. CASE queue # <<>> /\ hand' = <<Head(queue)>> /\ queue' = Tail(queue)
  <2> DEFINE d == In(queue[1], PagesOf(k))
  <2>1. queue \in Seq(PageInfo) /\ hand \in Seq(PageInfo) /\ Len(queue) \in Nat
    BY DEF Basics, TypeOK
  <2>2. /\ queue' \in Seq(PageInfo) /\ Len(queue') = Len(queue) - 1
        /\ \A i \in 1 .. Len(queue') : queue'[i] = queue[i + 1]
        /\ Head(queue) = queue[1] /\ queue[1] \in PageInfo /\ 1 \in 1 .. Len(queue)
    BY <1>2, <2>1, HeadTailProperties
  <2>3. Count(queue', PagesOf(k)) = Count(queue, PagesOf(k)) - d
    <3>1. \A i \in 1 .. Len(queue') : queue'[i] = IF i < 1 THEN queue[i] ELSE queue[i + 1]
      BY <2>2
    <3> QED
      BY <2>1, <2>2, <3>1, CountRemove
  <2>4. Count(hand', PagesOf(k)) = Count(hand, PagesOf(k)) + d
    <3>1. hand' = Append(hand, queue[1])
      BY <1>1, <1>2, <2>2
    <3> QED
      BY <2>1, <2>2, <3>1, CountAppend
  <2>5. d \in {0, 1}
    BY DEF In
  <2> HIDE DEF d
  <2>6. Copies(k)' = Copies(k)
    BY <1>1, <2>3, <2>4, <2>5, CopiesAfter, SlotsStay, RequestsStay, CountNat, BoundFacts
    DEF Copies
  <2> QED
    BY <1>1, <2>6, SlotsStay, BoundFacts
    DEF CopiesBounded, KeyBounded, Bound, slotVars
<1>3. CASE UNCHANGED <<hand, queue>>
  <2>1. Copies(k)' = Copies(k)
    BY <1>1, <1>3, CopiesAfter, SlotsStay, RequestsStay DEF Copies
  <2> QED
    BY <1>1, <2>1, SlotsStay DEF CopiesBounded, KeyBounded, Bound, slotVars
<1> QED
  BY <1>2, <1>3 DEF Receive

LEMMA DispatchBounded ==
  ASSUME Basics, Counted, CopiesBounded, NEW s \in Slots, Dispatch(s), NEW k \in Keys
  PROVE  KeyBounded(k)'
<1>1. /\ UNCHANGED <<call, queue, sending, visited, next, fetched>>
      /\ hand # <<>> /\ hand' = <<>> /\ pc[s] = "idle"
      /\ pc' = [pc EXCEPT ![s] = "start"]
      /\ task' = [task EXCEPT ![s] = hand[1]]
  BY DEF Dispatch, runVars, history
<1>2. /\ pc'[s] = "start" /\ task'[s] = hand[1]
      /\ \A t \in Slots : t # s => pc'[t] = pc[t] /\ task'[t] = task[t]
  BY <1>1 DEF Basics, TypeOK
<1>3. hand \in Seq(PageInfo) /\ Len(hand) = 1 /\ hand[1] \in PageInfo
  <2>1. hand \in Seq(PageInfo) /\ Len(hand) \in Nat /\ Len(hand) <= 1
    BY DEF Basics, TypeOK
  <2>2. Len(hand) # 0
    BY <1>1, <2>1, EmptySeq
  <2>3. Len(hand) = 1
    <3>1. \A n \in Nat : n <= 1 /\ n # 0 => n = 1
      OBVIOUS
    <3> QED
      BY <2>1, <2>2, <3>1
  <2> QED
    BY <2>1, <2>3, ElementOfSeq
<1> DEFINE d == In(hand[1], PagesOf(k))
<1>4. Count(hand', PagesOf(k)) = Count(hand, PagesOf(k)) - d
  <2>1. hand' \in Seq(PageInfo) /\ Len(hand') = Len(hand) - 1 /\ 1 \in 1 .. Len(hand)
        /\ \A i \in 1 .. Len(hand') : hand'[i] = IF i < 1 THEN hand[i] ELSE hand[i + 1]
    BY <1>1, <1>3
  <2> QED
    BY <1>3, <2>1, CountRemove
<1>5. Marking(k)' = Marking(k)
  BY <1>1, <1>2 DEF Marking, Link, Links, Key
<1>6. Cardinality(Starting(k)') = Cardinality(Starting(k)) + d
  <2>1. s \notin Starting(k)
    BY <1>1 DEF Starting
  <2>2. CASE hand[1] \in PagesOf(k)
    <3>1. Starting(k)' = Starting(k) \cup {s}
      BY <1>1, <1>2, <2>2 DEF Starting, Key, PagesOf
    <3> QED
      BY <2>1, <2>2, <3>1, BoundFacts, FS_AddElement DEF In
  <2>3. CASE hand[1] \notin PagesOf(k)
    <3>1. Starting(k)' = Starting(k)
      BY <1>1, <1>2, <1>3, <2>3 DEF Starting, Key, PagesOf
    <3> QED
      BY <2>3, <3>1, BoundFacts DEF In
  <2> QED
    BY <2>2, <2>3
<1>7. d \in {0, 1}
  BY DEF In
<1> HIDE DEF d
<1>8. Copies(k)' = Copies(k)
  BY <1>1, <1>4, <1>6, <1>7, CopiesAfter, RequestsStay, CountNat, BoundFacts DEF Copies
<1>9. \A t \in Marking(k) : pc'[t] = pc[t]
  BY <1>1, <1>2 DEF Marking
<1> QED
  BY <1>1, <1>5, <1>8, <1>9 DEF CopiesBounded, KeyBounded, Bound

\* A seed: it is marked and given to a sender in one step, before any slot runs.
LEMMA SeedBounded ==
  ASSUME Basics, Counted, CopiesBounded, QueueSeed, NEW k \in Keys
  PROVE  KeyBounded(k)'
<1> DEFINE p == call.urls[seeded + 1]
           i == [page |-> p, depth |-> 0]
<1>1. /\ UNCHANGED <<call, hand, queue, slotVars, fetched>>
      /\ \/ UNCHANGED <<visited, sending>>
         \/ /\ visited' = visited \cup {Key[p]}
            /\ sending' = Append(sending, i)
            /\ Key[p] \notin visited
  BY DEF QueueSeed, QueuePage, runVars, history, AlreadyVisited
<1>2. p \in Pages
  BY CallFacts DEF Basics, TypeOK, QueueSeed
<1>3. i \in PageInfo /\ i.page = p
  BY <1>2, InfoFacts
<1> HIDE DEF p, i
<1>4. Marking(k) = {}
  BY DEF Marking, Basics, Placed, QueueSeed
<1>5. CASE UNCHANGED <<visited, sending>>
  <2>1. Copies(k)' = Copies(k)
    BY <1>1, <1>5, CopiesAfter, SlotsStay, RequestsStay DEF Copies
  <2> QED
    BY <1>1, <1>5, <2>1, SlotsStay DEF CopiesBounded, KeyBounded, Bound, slotVars
<1>6. CASE /\ visited' = visited \cup {Key[p]}
           /\ sending' = Append(sending, i)
           /\ Key[p] \notin visited
  <2>1. Count(sending', PagesOf(k)) = Count(sending, PagesOf(k)) + In(i, PagesOf(k))
    BY <1>3, <1>6, CountAppend DEF Basics, TypeOK
  <2>2. In(i, PagesOf(k)) = IF Key[p] = k THEN 1 ELSE 0
    BY <1>3 DEF In, PagesOf
  <2>3. In(i, PagesOf(k)) \in Nat
    BY DEF In
  <2>4. Copies(k)' = Copies(k) + In(i, PagesOf(k))
    BY <1>1, <2>1, <2>3, CopiesAfter, SlotsStay, RequestsStay, CountNat, BoundFacts DEF Copies
  <2>5. Marking(k)' = {} /\ Cardinality({}) = 0
    BY <1>1, <1>4, SlotsStay, FS_EmptySet
  <2>6. Bound' = Bound /\ Bound >= 1
    BY BoundFacts DEF Bound
  <2>7. CASE Key[p] = k
    <3>1. Copies(k)' = 1
      BY <1>6, <2>2, <2>4, <2>7 DEF CopiesBounded, KeyBounded
    <3>2. k \in visited'
      BY <1>6, <2>7
    <3> QED
      BY <2>5, <2>6, <3>1, <3>2, BoundFacts DEF KeyBounded
  <2>8. CASE Key[p] # k
    <3>1. Copies(k)' = Copies(k)
      BY <2>2, <2>4, <2>8, BoundFacts, CountNat DEF Copies
    <3>2. k \in visited' <=> k \in visited
      BY <1>6, <2>8
    <3> QED
      BY <1>4, <2>5, <2>6, <3>1, <3>2 DEF CopiesBounded, KeyBounded
  <2> QED
    BY <2>7, <2>8
<1> QED
  BY <1>1, <1>5, <1>6

\* Requesting a page turns a starting slot into a request, or into nothing.
LEMMA StartBounded ==
  ASSUME Basics, Counted, CopiesBounded, NEW s \in Slots, StartPage(s), NEW k \in Keys
  PROVE  KeyBounded(k)'
<1> DEFINE d == IF Key[task[s].page] = k THEN 1 ELSE 0
<1>1. /\ UNCHANGED <<call, hand, queue, sending, visited, task, next>>
      /\ pc[s] = "start" /\ pc'[s] \notin {"start", "mark", "queue"}
      /\ \A t \in Slots : t # s => pc'[t] = pc[t]
  BY DEF StartPage, callVars, runVars, Basics, TypeOK
<1>2. task[s].page \in Pages
  BY <1>1, InfoFacts DEF Basics, Placed
<1>3. Marking(k)' = Marking(k) /\ \A t \in Marking(k) : pc'[t] = pc[t]
  BY <1>1 DEF Marking, Link, Links, Key
<1>4. d \in {0, 1}
  OBVIOUS
<1>5. Cardinality(Starting(k)') = Cardinality(Starting(k)) - d
  <2>1. CASE Key[task[s].page] = k
    <3>1. Starting(k)' = Starting(k) \ {s} /\ s \in Starting(k)
      BY <1>1, <2>1 DEF Starting, Key
    <3>2. Cardinality(Starting(k)') = Cardinality(Starting(k)) - 1
      BY <3>1, BoundFacts, FS_RemoveElement
    <3> QED
      BY <2>1, <3>2
  <2>2. CASE Key[task[s].page] # k
    <3>1. Starting(k)' = Starting(k)
      BY <1>1, <2>2 DEF Starting, Key
    <3> QED
      BY <2>2, <3>1, BoundFacts
  <2> QED
    BY <2>1, <2>2
<1>6. RequestsForKey(k)' \in {RequestsForKey(k), RequestsForKey(k) + d}
  <2>1. CASE UNCHANGED fetched
    BY <1>1, <2>1, RequestsStay
  <2>2. CASE fetched' = [fetched EXCEPT ![task[s].page] = @ + 1]
    BY <1>1, <1>2, <2>2, RequestAdds DEF Basics, Counted
  <2> QED
    BY <2>1, <2>2 DEF StartPage
<1> HIDE DEF d
<1>7. Copies(k)' \in {Copies(k), Copies(k) - d}
  BY <1>1, <1>4, <1>5, <1>6, CopiesAfter, CountNat, BoundFacts DEF Copies
<1>8. Copies(k)' \in Nat /\ Copies(k) \in Nat
  <2>1. RequestsForKey(k)' \in Nat
    BY <1>4, <1>6, CountNat
  <2>2. Cardinality(Starting(k)') \in Nat
    <3>1. Starting(k)' \subseteq Slots
      BY DEF Starting
    <3> QED
      BY <3>1, CrawlerAssumption, FS_Subset, FS_CardinalityType
  <2> QED
    BY <1>1, <2>1, <2>2, CopiesAfter, CountNat, BoundFacts DEF Copies
<1>9. CASE k \in visited
  <2>1. Cardinality(Marking(k)) + Copies(k) <= Bound
    BY <1>9 DEF CopiesBounded, KeyBounded
  <2>2. Cardinality(Marking(k)') + Copies(k)' <= Bound
    BY <1>3, <1>4, <1>7, <1>8, <2>1, BoundFacts
  <2> QED
    BY <1>1, <1>9, <2>2 DEF KeyBounded, Bound
<1>10. CASE k \notin visited
  <2>1. Copies(k) = 0 /\ \A t \in Marking(k) : pc[t] = "mark"
    BY <1>10 DEF CopiesBounded, KeyBounded
  <2>2. Copies(k)' = 0
    BY <1>4, <1>7, <1>8, <2>1
  <2> QED
    BY <1>1, <1>3, <1>10, <2>1, <2>2 DEF KeyBounded
<1> QED
  BY <1>9, <1>10

\* A slot finds a link that is not visited: one more is about to mark it.
LEMMA CheckBounded ==
  ASSUME Basics, Counted, CopiesBounded, NEW s \in Slots, CheckLink(s), NEW k \in Keys
  PROVE  KeyBounded(k)'
<1>1. /\ UNCHANGED <<call, hand, queue, sending, visited, task, fetched>>
      /\ pc[s] = "links" /\ pc'[s] \notin {"start", "queue"}
      /\ \A t \in Slots : t # s => pc'[t] = pc[t] /\ next'[t] = next[t]
  BY DEF CheckLink, callVars, runVars, history, Basics, TypeOK
<1>2. pc'[s] = "mark" => next' = next /\ Key[Link(s)] \notin visited
  BY DEF CheckLink, Link, AlreadyVisited, Basics, TypeOK
<1>3. Starting(k)' = Starting(k)
  BY <1>1 DEF Starting, Key
<1>4. Copies(k)' = Copies(k)
  BY <1>1, <1>3, CopiesAfter, RequestsStay DEF Copies
<1>5. CASE k \in visited
  <2>1. Marking(k)' = Marking(k)
    BY <1>1, <1>2, <1>5 DEF Marking, Link, Links, Key
  <2> QED
    BY <1>1, <1>4, <1>5, <2>1 DEF CopiesBounded, KeyBounded, Bound
<1>6. CASE k \notin visited
  <2>1. \A t \in Marking(k)' : pc'[t] = "mark"
    <3>1. \A t \in Marking(k) : pc[t] = "mark"
      BY <1>6 DEF CopiesBounded, KeyBounded
    <3> SUFFICES ASSUME NEW t \in Marking(k)', pc'[t] = "queue"
                 PROVE  FALSE
      BY DEF Marking
    <3>2. t \in Slots /\ t # s /\ pc[t] = "queue" /\ Key[Link(t)]' = k
      BY <1>1 DEF Marking
    <3>3. Key[Link(t)] = k
      BY <1>1, <3>2 DEF Link, Links, Key
    <3> QED
      BY <3>1, <3>2, <3>3 DEF Marking
  <2> QED
    BY <1>1, <1>4, <1>6, <2>1 DEF CopiesBounded, KeyBounded
<1> QED
  BY <1>5, <1>6

\* The first of them marks it: at that time the slots hold all its copies.
LEMMA MarkBounded ==
  ASSUME Basics, Counted, CopiesBounded, NEW s \in Slots, AddToVisited(s), NEW k \in Keys
  PROVE  KeyBounded(k)'
<1>1. /\ UNCHANGED <<call, hand, queue, sending, task, next, fetched>>
      /\ visited' = visited \cup {Key[Link(s)]}
      /\ pc[s] = "mark" /\ pc'[s] = "queue"
      /\ \A t \in Slots : t # s => pc'[t] = pc[t]
  BY DEF AddToVisited, Link, callVars, history, Basics, TypeOK
<1>2. Starting(k)' = Starting(k) /\ Marking(k)' = Marking(k)
  BY <1>1 DEF Starting, Marking, Link, Links, Key
<1>3. Copies(k)' = Copies(k)
  BY <1>1, <1>2, CopiesAfter, RequestsStay DEF Copies
<1>4. CASE k \in visited
  BY <1>1, <1>2, <1>3, <1>4 DEF CopiesBounded, KeyBounded, Bound
<1>5. CASE k \notin visited /\ k = Key[Link(s)]
  <2>1. Copies(k) = 0
    BY <1>5 DEF CopiesBounded, KeyBounded
  <2>2. Cardinality(Marking(k)) + Copies(k) <= Bound
    BY <2>1, BoundFacts
  <2> QED
    BY <1>1, <1>2, <1>3, <1>5, <2>2 DEF KeyBounded, Bound
<1>6. CASE k \notin visited /\ k # Key[Link(s)]
  <2>1. s \notin Marking(k)
    BY <1>6 DEF Marking
  <2>2. \A t \in Marking(k) : pc'[t] = pc[t]
    BY <1>1, <2>1 DEF Marking
  <2>3. k \notin visited'
    BY <1>1, <1>6
  <2> QED
    BY <1>2, <1>3, <1>6, <2>2, <2>3 DEF CopiesBounded, KeyBounded
<1> QED
  BY <1>4, <1>5, <1>6

\* It then gives the page to a sender.
LEMMA QueueBounded ==
  ASSUME Basics, Counted, CopiesBounded, NEW s \in Slots, QueueLink(s), NEW k \in Keys
  PROVE  KeyBounded(k)'
<1> DEFINE i == [page |-> Link(s), depth |-> task[s].depth + 1]
           d == In(i, PagesOf(k))
<1>1. /\ UNCHANGED <<call, hand, queue, visited, task, fetched>>
      /\ sending' = Append(sending, i)
      /\ pc[s] = "queue" /\ pc'[s] = "links"
      /\ \A t \in Slots : t # s => pc'[t] = pc[t] /\ next'[t] = next[t]
  BY DEF QueueLink, QueuePage, Link, callVars, history, Basics, TypeOK
<1>2. i \in PageInfo /\ i.page = Link(s)
  BY <1>1, LinkFacts DEF Basics
<1> HIDE DEF i
<1>3. d \in {0, 1} /\ (d = 1 <=> Key[Link(s)] = k)
  BY <1>2 DEF In, PagesOf
<1>4. Count(sending', PagesOf(k)) = Count(sending, PagesOf(k)) + d
  BY <1>1, <1>2, CountAppend DEF Basics, TypeOK
<1> HIDE DEF d
<1>5. Starting(k)' = Starting(k)
  BY <1>1 DEF Starting, Key
<1>6. Copies(k)' = Copies(k) + d
  BY <1>1, <1>3, <1>4, <1>5, CopiesAfter, RequestsStay, CountNat, BoundFacts, SMTT(30) DEF Copies
<1>7. Marking(k)' = Marking(k) \ {s} /\ (s \in Marking(k) <=> d = 1)
  BY <1>1, <1>3 DEF Marking, Link, Links, Key
<1>8. Cardinality(Marking(k)') = Cardinality(Marking(k)) - d
  <2>1. IsFiniteSet(Marking(k)) /\ Cardinality(Marking(k)) \in Nat
    BY BoundFacts
  <2>2. CASE d = 1
    BY <1>7, <2>1, <2>2, FS_RemoveElement
  <2>3. CASE d = 0
    <3>1. Marking(k)' = Marking(k)
      BY <1>7, <2>3
    <3> QED
      BY <2>1, <2>3, <3>1
  <2> QED
    BY <1>3, <2>2, <2>3
<1>9. CASE k \in visited
  <2>1. Cardinality(Marking(k)') + Copies(k)' <= Bound
    BY <1>3, <1>6, <1>8, <1>9, BoundFacts, CountNat DEF CopiesBounded, KeyBounded, Copies
  <2> QED
    BY <1>1, <1>9, <2>1 DEF KeyBounded, Bound
<1>10. CASE k \notin visited
  <2>1. Copies(k) = 0 /\ \A t \in Marking(k) : pc[t] = "mark"
    BY <1>10 DEF CopiesBounded, KeyBounded
  <2>2. d = 0
    BY <1>1, <1>3, <1>7, <2>1
  <2>3. \A t \in Marking(k)' : pc'[t] = "mark"
    BY <1>1, <1>7, <2>1
  <2> QED
    BY <1>1, <1>6, <1>10, <2>1, <2>2, <2>3 DEF KeyBounded
<1> QED
  BY <1>9, <1>10

\* The other steps of a slot.
LEMMA RestBounded ==
  ASSUME Basics, Counted, CopiesBounded, NEW s \in Slots, Fetch(s) \/ PageDone(s) \/ Release(s),
         NEW k \in Keys
  PROVE  KeyBounded(k)'
<1>1. /\ UNCHANGED <<call, hand, queue, sending, visited, fetched>>
      /\ pc[s] \notin {"start", "mark", "queue"} /\ pc'[s] \notin {"start", "mark", "queue"}
      /\ \A t \in Slots : t # s => pc'[t] = pc[t] /\ task'[t] = task[t] /\ next'[t] = next[t]
  BY DEF Fetch, PageDone, Release, callVars, runVars, history, Basics, TypeOK
<1>2. /\ Starting(k)' = Starting(k) /\ Marking(k)' = Marking(k)
      /\ \A t \in Marking(k) : pc'[t] = pc[t]
  BY <1>1 DEF Starting, Marking, Link, Links, Key
<1>3. Copies(k)' = Copies(k)
  BY <1>1, <1>2, CopiesAfter, RequestsStay DEF Copies
<1> QED
  BY <1>1, <1>2, <1>3 DEF CopiesBounded, KeyBounded, Bound

LEMMA StepBounded == Basics /\ Counted /\ CopiesBounded /\ [Next]_vars => CopiesBounded'
<1> SUFFICES ASSUME Basics, Counted, CopiesBounded, [Next]_vars
             PROVE  CopiesBounded'
  OBVIOUS
<1>1. call' = call
  BY DEF Next, SlotStep, LoadScopes, QueueSeed, StartWatcher, Watch, Send, Receive, Dispatch, Finish,
         StartPage, Fetch, CheckLink, AddToVisited, QueueLink, PageDone, Release, Cancel,
         OtherCrawl, Terminated, vars, callVars
<1>2. SUFFICES ASSUME NEW k \in Keys
               PROVE  KeyBounded(k)'
  BY <1>1 DEF CopiesBounded, Keys, Key
<1>3. CASE LoadScopes \/ StartWatcher \/ Watch \/ Finish \/ Cancel \/ OtherCrawl \/ Terminated
           \/ UNCHANGED vars
  <2>1. UNCHANGED <<call, hand, queue, sending, visited, slotVars, fetched>>
    BY <1>3 DEF LoadScopes, StartWatcher, Watch, Finish, Cancel, OtherCrawl, Terminated, vars,
                callVars, runVars, history
  <2>2. Copies(k)' = Copies(k)
    BY <2>1, CopiesAfter, SlotsStay, RequestsStay DEF Copies
  <2> QED
    BY <2>1, <2>2, SlotsStay DEF CopiesBounded, KeyBounded, Bound, slotVars
<1>4. ASSUME NEW s \in Slots, SlotStep(s)
      PROVE  KeyBounded(k)'
  BY <1>4, StartBounded, CheckBounded, MarkBounded, QueueBounded, RestBounded DEF SlotStep
<1> QED
  BY <1>3, <1>4, SeedBounded, SendBounded, ReceiveBounded, DispatchBounded DEF Next

LEMMA InitBounded == Init => Counted /\ CopiesBounded
<1> SUFFICES ASSUME Init
             PROVE  Counted /\ CopiesBounded
  OBVIOUS
<1>1. Requests = {}
  BY DEF Init, Requests
<1>2. Counted
  BY <1>1, FS_EmptySet DEF Init, Counted
<1>3. ASSUME NEW k
      PROVE  KeyBounded(k)
  <2>1. Places(<<>>, PagesOf(k)) = {} /\ Starting(k) = {} /\ Marking(k) = {}
    BY DEF Init, Places, Starting, Marking
  <2>2. Count(<<>>, PagesOf(k)) = 0 /\ Cardinality(Starting(k)) = 0 /\ RequestsForKey(k) = 0
    <3>1. {r \in Requests : Key[r[1]] = k} = {}
      BY <1>1
    <3> QED
      BY <2>1, <3>1, FS_EmptySet DEF Count, RequestsForKey
  <2>3. Copies(k) = 0
    BY <2>2 DEF Init, Copies
  <2> QED
    BY <2>1, <2>3 DEF Init, KeyBounded
<1> QED
  BY <1>2, <1>3 DEF CopiesBounded

\* Whatever other crawls draw from the allowance, the calls of client.Do stay
\* within max_requests; and although AlreadyVisited and AddToVisited are two
\* critical sections, a page is requested at most once per slot.
THEOREM RequestsAreBounded == Spec => []RequestsBounded
<1> DEFINE J == Basics /\ Counted /\ CopiesBounded /\ NoSlotNoRequest
<1>1. Basics /\ NoSlotNoRequest /\ [Next]_vars => NoSlotNoRequest'
  <2> SUFFICES ASSUME Slots = {}, Requests = {}, [Next]_vars
               PROVE  Requests' = {}
    BY DEF NoSlotNoRequest
  <2>1. fetched' = fetched
    BY DEF Next, LoadScopes, QueueSeed, StartWatcher, Watch, Send, Receive, Finish, Cancel, OtherCrawl,
           Terminated, vars, history
  <2> QED
    BY <2>1 DEF Requests
<1>2. Init => NoSlotNoRequest
  BY DEF Init, NoSlotNoRequest, Requests
<1>3. J => RequestsBounded
  <2> SUFFICES ASSUME J
               PROVE  RequestLimit /\ DuplicatesBounded
    BY DEF RequestsBounded
  <2>1. RequestLimit
    BY FS_CardinalityType, CrawlerAssumption DEF RequestLimit, Counted, Basics, TypeOK
  <2>2. ASSUME NEW p \in Pages
        PROVE  RequestsForKey(Key[p]) <= Cardinality(Slots)
    <3> DEFINE k == Key[p]
    <3>1. k \in Keys
      BY DEF Keys
    <3> HIDE DEF k
    <3>2. RequestsForKey(k) <= Bound
      BY <3>1, BoundFacts, CountNat DEF CopiesBounded, KeyBounded, Copies
    <3>3. CASE Slots = {}
      <4>1. {r \in Requests : Key[r[1]] = k} = {}
        BY <3>3 DEF NoSlotNoRequest
      <4> QED
        BY <3>3, <4>1, FS_EmptySet DEF RequestsForKey, k
    <3>4. CASE Slots # {}
      <4>1. Cardinality(Slots) >= 1
        BY <3>4, BoundFacts, CrawlerAssumption, FS_EmptySet
      <4>2. Bound = Cardinality(Slots)
        BY <4>1, BoundFacts DEF Bound, MaxOf
      <4> QED
        BY <3>2, <4>2 DEF k
    <3> QED
      BY <3>3, <3>4
  <2> QED
    BY <2>1, <2>2 DEF DuplicatesBounded
<1>4. J /\ [Next]_vars => J'
  BY <1>1, StepBasics, StepCounted, StepBounded
<1>5. Init => J
  BY <1>2, InitBasics, InitBounded
<1> QED
  BY <1>3, <1>4, <1>5, PTL DEF Spec
=============================================================================
