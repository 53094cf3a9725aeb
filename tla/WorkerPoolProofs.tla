--------------------------- MODULE WorkerPoolProofs ---------------------------
(***************************************************************************)
(* Proofs about WorkerPool for every list of candidates, every number of   *)
(* workers and every configuration; and, in the second half, about Target: *)
(* every host, scanner, list of ports and of fingerprinters, and any       *)
(* number of faults.                                                       *)
(***************************************************************************)
EXTENDS WorkerPool, Target, FiniteSetTheorems, SequenceTheorems, WellFoundedInduction, TLAPS

\* The labels at which a worker owns the index it received last.
Fresh == {"done", "user", "budget", "wait", "doneAgain", "userAgain", "claim"}
Held  == Fresh \cup {"test", "record"}

\* Indices are handed out once: a worker owns an index below head, and no two
\* workers own the same one.
Ownership ==
  /\ \A w \in Workers : pc[w] \in Held => cur[w] \in Creds /\ cur[w] < head
  /\ \A v, w \in Workers :
        v # w /\ pc[v] \in Held /\ pc[w] \in Held => cur[v] # cur[w]

\* An index is sent by the worker that owns it, once, at claimAttempt.
SentOnce ==
  /\ \A i \in Creds : tried[i] <= 1
  /\ \A i \in Creds : i >= head => tried[i] = 0
  /\ \A w \in Workers : pc[w] \in Fresh => tried[cur[w]] = 0

\* The counter under the mutex is the number of calls made.
CounterExact ==
  /\ attempts = Cardinality(Attempted)
  /\ MaxAttempts > 0 => attempts <= MaxAttempts

IInv == TypeOK /\ Ownership /\ SentOnce /\ CounterExact

-----------------------------------------------------------------------------
LEMMA CredsFinite == IsFiniteSet(Creds)
  BY PoolAssumption, FS_Interval DEF Creds

LEMMA AttemptedFinite == IsFiniteSet(Attempted)
  BY CredsFinite, FS_Subset DEF Attempted

LEMMA WorkersNat == NumWorkers \in Nat
  BY PoolAssumption DEF NumWorkers, MinOf, MaxOf

\* Initially nothing was sent.
LEMMA InitIInv == Init => IInv
<1> SUFFICES ASSUME Init PROVE IInv
  OBVIOUS
<1>1. TypeOK
  <2>1. head \in 1 .. NumCreds + 1 /\ attempts \in Nat
    BY PoolAssumption DEF Init
  <2>2. pc \in [Workers -> Labels] /\ cur \in [Workers -> 0 .. NumCreds]
    BY PoolAssumption DEF Init, Labels
  <2>3. matched \in Seq(Creds) /\ tried \in [Creds -> Nat]
    BY DEF Init
  <2>4. /\ ret.kind = "none"
        /\ ret.attempts = 0
        /\ ret.exhausted = FALSE
    BY DEF Init, EmptyResult
  <2> QED
    BY <2>1, <2>2, <2>3, <2>4 DEF Init, TypeOK
<1>2. Ownership
  BY DEF Init, Ownership, Held, Fresh
<1>3. SentOnce
  BY DEF Init, SentOnce, Fresh, Creds
<1>4. CounterExact
  <2>1. Attempted = {}
    BY DEF Init, Attempted
  <2> QED
    BY <2>1, FS_EmptySet, PoolAssumption DEF Init, CounterExact
<1> QED
  BY <1>1, <1>2, <1>3, <1>4 DEF IInv

\* Steps that call nothing leave the counter and the calls alone.
LEMMA QuietStep ==
  ASSUME CounterExact, UNCHANGED <<attempts, tried>>
  PROVE  CounterExact'
  BY DEF CounterExact, Attempted

\* claimAttempt adds one to both.
LEMMA ClaimCounts ==
  ASSUME IInv, NEW w \in Workers, ClaimAttempt(w)
  PROVE  CounterExact'
<1>1. CASE BudgetSpent
  BY <1>1, QuietStep DEF IInv, ClaimAttempt
<1>2. CASE ~BudgetSpent
  <2>1. /\ cur[w] \in Creds
        /\ tried[cur[w]] = 0
        /\ attempts' = attempts + 1
        /\ tried' = [tried EXCEPT ![cur[w]] = @ + 1]
    BY <1>2 DEF IInv, ClaimAttempt, At, Ownership, SentOnce, Held, Fresh
  <2>2. Attempted' = Attempted \cup {cur[w]} /\ cur[w] \notin Attempted
    BY <2>1 DEF IInv, TypeOK, Attempted
  <2>3. Cardinality(Attempted') = Cardinality(Attempted) + 1
    BY <2>2, AttemptedFinite, FS_AddElement
  <2> QED
    BY <1>2, <2>1, <2>3, PoolAssumption
    DEF IInv, TypeOK, CounterExact, BudgetSpent
<1> QED
  BY <1>1, <1>2

\* A worker that moves on without receiving, claiming or taking an index back
\* disturbs neither who owns what nor what was sent.
LEMMA MovesOn ==
  ASSUME TypeOK, Ownership, SentOnce, CounterExact,
         NEW w \in Workers, NEW l \in Labels, Goto(w, l),
         l \in Held => pc[w] \in Held,
         l \in Fresh => pc[w] \in Fresh,
         UNCHANGED <<head, cur, attempts, tried>>
  PROVE  /\ pc' \in [Workers -> Labels]
         /\ Ownership'
         /\ SentOnce'
         /\ CounterExact'
<1>1. pc' = [pc EXCEPT ![w] = l] /\ pc \in [Workers -> Labels]
  BY DEF Goto, TypeOK
<1>2. \A v \in Workers : /\ pc'[v] \in Held => pc[v] \in Held
                         /\ pc'[v] \in Fresh => pc[v] \in Fresh
  BY <1>1
<1>3. Ownership'
  BY <1>2 DEF Ownership
<1>4. SentOnce'
  BY <1>2 DEF SentOnce
<1> QED
  BY <1>1, <1>3, <1>4, QuietStep

\* Receiving hands the index at head to one worker, which nobody has sent.
LEMMA ReceiveOwns ==
  ASSUME IInv, NEW w \in Workers, Receive(w)
  PROVE  IInv'
<1> USE DEF IInv
<1>1. CASE Drained
  <2>1. TypeOK /\ Goto(w, "close") /\ "close" \in Labels
    BY <1>1 DEF Receive, Labels
  <2>2. "close" \notin Held /\ "close" \notin Fresh
    BY DEF Held, Fresh
  <2>3. UNCHANGED <<head, cur, attempts, tried>>
    BY <1>1 DEF Receive, history
  <2>4. pc' \in [Workers -> Labels] /\ Ownership' /\ SentOnce' /\ CounterExact'
    BY <2>1, <2>2, <2>3, MovesOn
  <2>5. TypeOK'
    BY <2>3, <2>4 DEF Receive, history, TypeOK
  <2> QED
    BY <2>4, <2>5
<1>2. CASE ~Drained
  <2> DEFINE l == IF grpctxDone THEN "fail" ELSE "done"
  <2>1. /\ cur' = [cur EXCEPT ![w] = head]
        /\ head' = head + 1
        /\ pc' = [pc EXCEPT ![w] = l]
        /\ l \in {"fail", "done"}
    BY <1>2 DEF Receive, Goto
  <2>2. head \in Creds /\ head' \in 1 .. NumCreds + 1
    BY <1>2, <2>1, PoolAssumption DEF Drained, TypeOK, Creds
  <2> HIDE DEF l
  <2>3. /\ pc' \in [Workers -> Labels]
        /\ cur' \in [Workers -> 0 .. NumCreds]
        /\ pc'[w] = l /\ cur'[w] = head
        /\ \A v \in Workers : v # w => pc'[v] = pc[v] /\ cur'[v] = cur[v]
    BY <2>1, <2>2, PoolAssumption DEF TypeOK, Labels, Creds
  <2>4. TypeOK'
    BY <2>2, <2>3 DEF Receive, history, TypeOK
  <2>5. Ownership'
    BY <2>1, <2>2, <2>3, PoolAssumption DEF TypeOK, Ownership, Creds
  <2>6. tried' = tried
    BY DEF Receive, history
  <2>7. SentOnce'
    <3>1. tried[head] = 0
      BY <2>2, PoolAssumption DEF SentOnce, Creds
    <3>2. \A i \in Creds : i >= head + 1 => tried[i] = 0
      BY <2>2, PoolAssumption DEF SentOnce, Creds
    <3>3. \A v \in Workers : pc'[v] \in Fresh => tried[cur'[v]] = 0
      BY <2>3, <3>1 DEF SentOnce
    <3> QED
      BY <2>1, <2>6, <3>2, <3>3 DEF SentOnce
  <2> QED
    BY <2>4, <2>5, <2>7, QuietStep DEF Receive, history
<1> QED
  BY <1>1, <1>2

\* The only step that sends: it turns the index of its owner from fresh to sent.
LEMMA ClaimSends ==
  ASSUME IInv, NEW w \in Workers, ClaimAttempt(w)
  PROVE  IInv'
<1> USE DEF IInv
<1>1. pc[w] = "claim" /\ pc[w] \in Fresh /\ pc[w] \in Held
  BY DEF ClaimAttempt, At, Fresh, Held
<1>2. CASE BudgetSpent
  <2>1. Goto(w, "close") /\ "close" \in Labels
    BY <1>2 DEF ClaimAttempt, Labels
  <2>2. UNCHANGED <<head, cur, attempts, tried, late>> /\ budgetExhausted' = TRUE
    BY <1>2 DEF ClaimAttempt
  <2>3. pc' \in [Workers -> Labels] /\ Ownership' /\ SentOnce' /\ CounterExact'
    BY <1>1, <2>1, <2>2, MovesOn
  <2>4. TypeOK'
    BY <2>2, <2>3 DEF ClaimAttempt, TypeOK
  <2> QED
    BY <2>3, <2>4
<1>3. CASE ~BudgetSpent
  <2>1. /\ pc' = [pc EXCEPT ![w] = "test"]
        /\ attempts' = attempts + 1
        /\ tried' = [tried EXCEPT ![cur[w]] = @ + 1]
        /\ late' \in {late, late \cup {cur[w]}}
        /\ UNCHANGED <<head, cur, budgetExhausted>>
    BY <1>3 DEF ClaimAttempt, Goto
  <2>2. cur[w] \in Creds /\ cur[w] < head /\ tried[cur[w]] = 0
    BY <1>1 DEF Ownership, SentOnce
  <2>3. pc' \in [Workers -> Labels] /\ tried' \in [Creds -> Nat]
    BY <2>1, <2>2 DEF TypeOK, Labels
  <2>4. /\ \A v \in Workers : v # w => pc'[v] = pc[v]
        /\ pc'[w] = "test"
        /\ tried'[cur[w]] = 1
        /\ \A i \in Creds : i # cur[w] => tried'[i] = tried[i]
    BY <2>1, <2>2 DEF TypeOK
  <2>5. TypeOK'
    BY <2>1, <2>2, <2>3 DEF ClaimAttempt, TypeOK
  <2>6. Ownership'
    BY <1>1, <2>1, <2>4 DEF Ownership
  <2>7. SentOnce'
    <3>1. \A i \in Creds : tried'[i] <= 1
      BY <2>4 DEF SentOnce
    <3>2. \A i \in Creds : i >= head => tried'[i] = 0
      BY <2>2, <2>4, PoolAssumption DEF SentOnce, Creds, TypeOK
    <3>3. \A v \in Workers : pc'[v] \in Fresh => tried'[cur[v]] = 0
      <4> SUFFICES ASSUME NEW v \in Workers, pc'[v] \in Fresh
                   PROVE  tried'[cur[v]] = 0
        OBVIOUS
      <4>1. v # w
        BY <2>4 DEF Fresh
      <4>2. pc[v] \in Fresh /\ pc[v] \in Held
        BY <2>4, <4>1 DEF Held
      <4>3. cur[v] \in Creds /\ cur[v] # cur[w] /\ tried[cur[v]] = 0
        BY <1>1, <4>1, <4>2 DEF Ownership, SentOnce
      <4> QED
        BY <2>4, <4>3
    <3> QED
      BY <2>1, <3>1, <3>2, <3>3 DEF SentOnce
  <2> QED
    BY <2>5, <2>6, <2>7, ClaimCounts
<1> QED
  BY <1>2, <1>3

\* The remaining steps of a worker: checks, the wait, the answer and the exit.
LEMMA OtherSteps ==
  ASSUME IInv, NEW w \in Workers,
         \/ CheckDone(w) \/ CheckUser(w) \/ HasBudget(w) \/ LimiterWait(w)
         \/ TestCredential(w) \/ RecordMatch(w) \/ Exit(w)
  PROVE  IInv'
<1> USE DEF IInv
<1>1. UNCHANGED <<stopAtFirst, head, cur, attempts, tried, phase, ctxDone,
                  late, ret>>
  BY DEF CheckDone, CheckUser, HasBudget, LimiterWait, TestCredential,
         RecordMatch, Exit, history
<1>2. PICK l \in Labels : /\ Goto(w, l)
                          /\ l \in Held => pc[w] \in Held
                          /\ l \in Fresh => pc[w] \in Fresh
  <2>1. CASE CheckDone(w)
    BY <2>1 DEF CheckDone, At, Labels, Held, Fresh
  <2>2. CASE CheckUser(w)
    BY <2>2 DEF CheckUser, At, Labels, Held, Fresh
  <2>3. CASE HasBudget(w)
    BY <2>3 DEF HasBudget, At, Labels, Held, Fresh
  <2>4. CASE LimiterWait(w)
    BY <2>4 DEF LimiterWait, At, Labels, Held, Fresh
  <2>5. CASE TestCredential(w)
    BY <2>5 DEF TestCredential, At, Labels, Held, Fresh
  <2>6. CASE RecordMatch(w)
    BY <2>6 DEF RecordMatch, At, Labels, Held, Fresh
  <2>7. CASE Exit(w)
    BY <2>7 DEF Exit, At, Labels, Held, Fresh
  <2> QED
    BY <2>1, <2>2, <2>3, <2>4, <2>5, <2>6, <2>7
<1>3. pc' \in [Workers -> Labels] /\ Ownership' /\ SentOnce' /\ CounterExact'
  BY <1>1, <1>2, MovesOn
<1>4. /\ groupErr' \in BOOLEAN
      /\ budgetExhausted' \in BOOLEAN
  BY Zenon DEF TypeOK, CheckDone, CheckUser, HasBudget, LimiterWait,
     TestCredential, RecordMatch, Exit, history
<1>5. matched' \in Seq(Creds) /\ accepted' \subseteq Creds
  <2>1. CASE CheckDone(w) \/ CheckUser(w) \/ HasBudget(w) \/ LimiterWait(w) \/ Exit(w)
    BY <2>1 DEF TypeOK, CheckDone, CheckUser, HasBudget, LimiterWait, Exit, history
  <2>2. CASE TestCredential(w)
    BY <2>2 DEF TypeOK, TestCredential, At, Ownership, Held
  <2>3. CASE RecordMatch(w)
    BY <2>3 DEF TypeOK, RecordMatch, At, Ownership, Held, history
  <2> QED
    BY <2>1, <2>2, <2>3
<1>6. TypeOK'
  BY <1>1, <1>3, <1>4, <1>5 DEF TypeOK
<1> QED
  BY <1>3, <1>6

\* What Detect returns has the type of a result.
ResultTyped(r) ==
  /\ r.kind \in {"none", "error", "notMatched", "noFinding", "finding"}
  /\ r.attempts \in Nat
  /\ r.exhausted \in BOOLEAN

LEMMA ReturnTyped ==
  ASSUME IInv, EnterDetect \/ Fingerprint \/ Finish
  PROVE  /\ phase' \in {"entry", "fingerprint", "pool", "returned"}
         /\ ResultTyped(ret')
<1>1. ResultTyped(ret)
  BY DEF IInv, TypeOK, ResultTyped
<1>2. ASSUME NEW k \in {"error", "notMatched"}, Return(k)
      PROVE  phase' = "returned" /\ ResultTyped(ret')
  BY <1>2 DEF Return, EmptyResult, ResultTyped
<1>3. CASE EnterDetect
  BY <1>1, <1>2, <1>3 DEF EnterDetect
<1>4. CASE Fingerprint
  BY <1>1, <1>2, <1>4 DEF Fingerprint
<1>5. ResultTyped(PoolResult)
  BY DEF IInv, TypeOK, PoolResult, ResultTyped
<1>6. CASE Finish
  BY <1>2, <1>5, <1>6 DEF Finish
<1> QED
  BY <1>3, <1>4, <1>6

LEMMA StepIInv == IInv /\ [Next]_vars => IInv'
<1> SUFFICES ASSUME IInv, [Next]_vars
             PROVE  IInv'
  OBVIOUS
<1>1. CASE EnterDetect \/ Fingerprint \/ Finish
  <2>1. UNCHANGED <<stopAtFirst, ctxDone, poolVars, history>>
    BY <1>1 DEF EnterDetect, Fingerprint, Finish
  <2>2. TypeOK'
    BY <1>1, <2>1, ReturnTyped DEF IInv, TypeOK, ResultTyped, poolVars, history
  <2> QED
    BY <2>1, <2>2, QuietStep DEF IInv, Ownership, SentOnce, poolVars, history
<1>2. CASE Cancel
  BY <1>2, QuietStep DEF IInv, Cancel, poolVars, history, TypeOK, Ownership, SentOnce
<1>3. CASE \E w \in Workers : WorkerStep(w)
  BY <1>3, ReceiveOwns, ClaimSends, OtherSteps DEF WorkerStep
<1>4. CASE Terminated \/ UNCHANGED vars
  BY <1>4, QuietStep
  DEF IInv, Terminated, vars, poolVars, history, TypeOK, Ownership, SentOnce
<1> QED
  BY <1>1, <1>2, <1>3, <1>4 DEF Next

LEMMA SpecIInv == Spec => []IInv
  BY InitIInv, StepIInv, PTL DEF Spec

\* The pool's variables keep their types in every behaviour.
THEOREM TypeCorrect == Spec => []TypeOK
  BY SpecIInv, PTL DEF IInv

\* For any number of workers and candidates: no candidate is sent twice and
\* the calls made never exceed max_attempts_per_service.
THEOREM BudgetIsRespected == Spec => []BudgetRespected
<1>1. IInv => BudgetRespected
  BY DEF IInv, SentOnce, CounterExact, BudgetRespected
<1> QED
  BY <1>1, SpecIInv, PTL

-----------------------------------------------------------------------------
(* What the workers have found, and what they have left out.               *)

Recording == {w \in Workers : pc[w] = "record"}
Matches   == {matched[k] : k \in 1 .. Len(matched)}

\* A credential that was accepted is in the list of matches, once, or with the
\* worker that is about to record it.
MatchesExact ==
  /\ accepted = Matches \cup {cur[w] : w \in Recording}
  /\ \A j, k \in 1 .. Len(matched) : matched[j] = matched[k] => j = k
  /\ \A k \in 1 .. Len(matched) : matched[k] < head
  /\ \A k \in 1 .. Len(matched), w \in Workers : pc[w] \in Held => matched[k] # cur[w]

\* The budget is called exhausted when the last attempt was made and a worker
\* has a candidate in hand; that one will never be sent.
ExhaustedExact ==
  budgetExhausted => BudgetSpent /\ \E i \in Creds : tried[i] = 0

\* A candidate that was received is sent, still with its worker, or passed over
\* for a reason; and a worker ends for a reason.
Failing == groupErr \/ \E w \in Workers : pc[w] = "fail"

Covered(i) == tried[i] = 1 \/ UserDone(UserOf[i])

NothingDropped ==
  /\ \A i \in Creds : i < head =>
        \/ Covered(i) \/ Done \/ Failing
        \/ \E w \in Workers : pc[w] \in Fresh /\ cur[w] = i
  /\ \A w \in Workers : pc[w] \in {"close", "exited"} => Drained \/ Done \/ Failing

\* What Detect returns is decided at its end.
Reported ==
  IF phase # "returned" THEN ret.kind = "none" /\ ~ret.exhausted
  ELSE NothingSkipped /\ ReportExact

\* A worker that may still send a candidate of u although u is broken into, or
\* any candidate although the pool was told to stop at the first.
ClaimsOf(u) == {w \in Workers : pc[w] = "claim" /\ UserOf[cur[w]] = u}
ClaimsAny   == {w \in Workers : pc[w] \in {"userAgain", "claim"}}
LateOf(u)   == {i \in late : UserOf[i] = u}
Others      == MaxOf(NumWorkers - 1, 0)

LateCounted ==
  /\ late \subseteq Attempted
  /\ IF stopAtFirst
       THEN IF matched = <<>> THEN late = {}
                              ELSE Cardinality(late) + Cardinality(ClaimsAny) <= Others
       ELSE \A u \in Users :
              IF Broken(u) THEN Cardinality(LateOf(u)) + Cardinality(ClaimsOf(u)) <= Others
                           ELSE LateOf(u) = {}

-----------------------------------------------------------------------------
(* The steps of a worker, as far as the invariants above tell them apart.   *)

LEMMA WorkerMoves ==
  ASSUME IInv, NEW w \in Workers, WorkerStep(w)
  PROVE  /\ \A v \in Workers : v # w => pc'[v] = pc[v] /\ cur'[v] = cur[v]
         /\ phase = "pool" /\ UNCHANGED <<stopAtFirst, phase, ctxDone, ret>>
  BY DEF WorkerStep, Receive, CheckDone, CheckUser, HasBudget, LimiterWait, ClaimAttempt,
         TestCredential, RecordMatch, Exit, Goto, At, IInv, TypeOK, history

LEMMA StepMatches ==
  ASSUME IInv, MatchesExact, [Next]_vars
  PROVE  MatchesExact'
<1>1. matched \in Seq(Creds) /\ Len(matched) \in Nat /\ head \in Nat
  BY PoolAssumption DEF IInv, TypeOK
<1>2. ASSUME UNCHANGED <<accepted, matched, head, cur>>,
             \A v \in Workers : /\ pc'[v] = "record" <=> pc[v] = "record"
                                /\ pc'[v] \in Held => pc[v] \in Held
      PROVE  MatchesExact'
  <2>1. Recording' = Recording /\ Matches' = Matches
    BY <1>2 DEF Recording, Matches
  <2> QED
    BY <1>2, <2>1 DEF MatchesExact
<1>3. ASSUME NEW w \in Workers, Receive(w)
      PROVE  MatchesExact'
  <2>1. /\ pc[w] = "recv" /\ pc'[w] \in {"close", "fail", "done"}
        /\ \A v \in Workers : v # w => pc'[v] = pc[v] /\ cur'[v] = cur[v]
        /\ UNCHANGED <<accepted, matched>>
        /\ \/ pc'[w] = "close" /\ UNCHANGED <<head, cur>>
           \/ cur'[w] = head /\ head' = head + 1
    BY <1>3 DEF Receive, Goto, At, IInv, TypeOK, history
  <2>2. Recording' = Recording /\ {cur'[v] : v \in Recording} = {cur[v] : v \in Recording}
    BY <2>1 DEF Recording
  <2>3. Matches' = Matches
    BY <2>1 DEF Matches
  <2>4. \A k \in 1 .. Len(matched) : matched[k] \in Nat
    <3>1. \A k \in 1 .. Len(matched) : matched[k] \in Creds
      BY <1>1, ElementOfSeq
    <3> QED
      BY <3>1, PoolAssumption DEF Creds
  <2>5. \A k \in 1 .. Len(matched) : matched[k] < head'
    BY <1>1, <2>1, <2>4 DEF MatchesExact
  <2>6. \A k \in 1 .. Len(matched), v \in Workers : pc'[v] \in Held => matched[k] # cur'[v]
    BY <1>1, <2>1, <2>4 DEF MatchesExact, Held, Fresh
  <2> QED
    BY <2>1, <2>2, <2>3, <2>5, <2>6 DEF MatchesExact
<1>4. ASSUME NEW w \in Workers, TestCredential(w)
      PROVE  MatchesExact'
  <2>1. /\ pc[w] = "test" /\ pc[w] \in Held
        /\ \A v \in Workers : v # w => pc'[v] = pc[v]
        /\ UNCHANGED <<matched, head, cur>>
        /\ \/ pc'[w] = "record" /\ accepted' = accepted \cup {cur[w]}
           \/ pc'[w] \in {"recv", "fail"} /\ accepted' = accepted
    BY <1>4 DEF TestCredential, Goto, At, IInv, TypeOK, Held
  <2>2. /\ Matches' = Matches
        /\ Recording' = IF pc'[w] = "record" THEN Recording \cup {w} ELSE Recording
    BY <2>1 DEF Matches, Recording
  <2>3. accepted' = Matches \cup {cur[v] : v \in Recording'}
    BY <2>1, <2>2 DEF MatchesExact
  <2>4. \A v \in Workers : pc'[v] \in Held => pc[v] \in Held
    BY <2>1
  <2> QED
    BY <2>1, <2>2, <2>3, <2>4 DEF MatchesExact
<1>5. ASSUME NEW w \in Workers, RecordMatch(w)
      PROVE  MatchesExact'
  <2> DEFINE n == Len(matched) + 1
  <2>1. /\ pc[w] = "record" /\ pc[w] \in Held /\ pc'[w] = "recv"
        /\ \A v \in Workers : v # w => pc'[v] = pc[v]
        /\ UNCHANGED <<accepted, head, cur>>
        /\ matched' = Append(matched, cur[w])
        /\ cur[w] \in Creds /\ cur[w] < head
    BY <1>5 DEF RecordMatch, Goto, At, IInv, TypeOK, Held, Ownership, history
  <2>2. /\ Len(matched') = n /\ matched'[n] = cur[w]
        /\ \A k \in 1 .. Len(matched) : matched'[k] = matched[k]
    BY <1>1, <2>1, AppendProperties
  <2>3. 1 .. n = (1 .. Len(matched)) \cup {n}
    BY <1>1
  <2>4. Recording' = Recording \ {w} /\ w \in Recording
    BY <2>1 DEF Recording
  <2>5. Matches' = Matches \cup {cur[w]}
    BY <2>2, <2>3 DEF Matches
  <2>6. accepted' = Matches' \cup {cur'[v] : v \in Recording'}
    BY <2>1, <2>4, <2>5 DEF MatchesExact
  <2>7. \A k \in 1 .. Len(matched) : matched[k] # cur[w]
    BY <2>1 DEF MatchesExact
  <2>8. \A j, k \in 1 .. n : matched'[j] = matched'[k] => j = k
    BY <2>2, <2>3, <2>7 DEF MatchesExact
  <2>9. \A k \in 1 .. n : matched'[k] < head'
    BY <2>1, <2>2, <2>3 DEF MatchesExact
  <2>10. \A k \in 1 .. n, v \in Workers : pc'[v] \in Held => matched'[k] # cur'[v]
    <3>1. \A v \in Workers : pc'[v] \in Held => v # w /\ pc[v] \in Held
      BY <2>1 DEF Held, Fresh
    <3> QED
      BY <2>1, <2>2, <2>3, <3>1 DEF MatchesExact, IInv, Ownership
  <2> HIDE DEF n
  <2> QED
    BY <2>2, <2>6, <2>8, <2>9, <2>10 DEF MatchesExact
<1>6. ASSUME NEW w \in Workers,
             \/ CheckDone(w) \/ CheckUser(w) \/ HasBudget(w) \/ LimiterWait(w)
             \/ ClaimAttempt(w) \/ Exit(w)
      PROVE  MatchesExact'
  <2>1. UNCHANGED <<accepted, matched, head, cur>>
    BY <1>6 DEF CheckDone, CheckUser, HasBudget, LimiterWait, ClaimAttempt, Exit, history
  <2>2. /\ \A v \in Workers : v # w => pc'[v] = pc[v]
        /\ pc'[w] \in Held => pc[w] \in Held
        /\ pc[w] # "record" /\ pc'[w] # "record"
    BY <1>6 DEF CheckDone, CheckUser, HasBudget, LimiterWait, ClaimAttempt, Exit, Goto, At,
                Held, Fresh, IInv, TypeOK
  <2> QED
    BY <1>2, <2>1, <2>2
<1>7. CASE EnterDetect \/ Fingerprint \/ Cancel \/ Finish \/ Terminated \/ UNCHANGED vars
  BY <1>2, <1>7 DEF EnterDetect, Fingerprint, Cancel, Finish, Terminated, vars, poolVars, history
<1> QED
  BY <1>3, <1>4, <1>5, <1>6, <1>7 DEF Next, WorkerStep

LEMMA StepExhausted ==
  ASSUME IInv, ExhaustedExact, [Next]_vars
  PROVE  ExhaustedExact'
<1>1. ASSUME UNCHANGED <<attempts, tried, budgetExhausted>>
      PROVE  ExhaustedExact'
  BY <1>1 DEF ExhaustedExact, BudgetSpent
<1>2. ASSUME NEW w \in Workers, HasBudget(w) \/ ClaimAttempt(w)
      PROVE  ExhaustedExact'
  <2>1. cur[w] \in Creds /\ tried[cur[w]] = 0
    BY <1>2 DEF HasBudget, ClaimAttempt, At, IInv, Ownership, SentOnce, Held, Fresh
  <2>2. CASE UNCHANGED <<attempts, tried>> /\ BudgetSpent
    BY <2>1, <2>2 DEF ExhaustedExact, BudgetSpent
  <2>3. CASE ~BudgetSpent
    <3>1. ~budgetExhausted
      BY <2>3 DEF ExhaustedExact
    <3>2. budgetExhausted' = budgetExhausted
      BY <1>2, <2>3, Zenon DEF HasBudget, ClaimAttempt, IInv, TypeOK
    <3> QED
      BY <3>1, <3>2 DEF ExhaustedExact
  <2> QED
    BY <1>2, <2>2, <2>3 DEF HasBudget, ClaimAttempt, history
<1>3. ASSUME NEW w \in Workers,
             \/ Receive(w) \/ CheckDone(w) \/ CheckUser(w) \/ LimiterWait(w)
             \/ TestCredential(w) \/ RecordMatch(w) \/ Exit(w)
      PROVE  ExhaustedExact'
  BY <1>1, <1>3
  DEF Receive, CheckDone, CheckUser, LimiterWait, TestCredential, RecordMatch, Exit, history
<1>4. CASE EnterDetect \/ Fingerprint \/ Cancel \/ Finish \/ Terminated \/ UNCHANGED vars
  BY <1>1, <1>4 DEF EnterDetect, Fingerprint, Cancel, Finish, Terminated, vars, poolVars, history
<1> QED
  BY <1>2, <1>3, <1>4 DEF Next, WorkerStep

\* Reasons to leave a candidate out do not go away.
LEMMA ReasonsStay ==
  ASSUME IInv, [Next]_vars
  PROVE  /\ \A u : UserDone(u) => UserDone(u)'
         /\ Done => Done'
         /\ Failing => Failing'
         /\ \A i \in Creds : tried[i] = 1 => tried'[i] = 1
         /\ stopAtFirst' = stopAtFirst
<1>1. matched \in Seq(Creds) /\ Len(matched) \in Nat
  BY DEF IInv, TypeOK
<1>2. \/ matched' = matched
      \/ \E w \in Workers : pc[w] = "record" /\ cur[w] \in Creds /\ matched' = Append(matched, cur[w])
  BY DEF Next, EnterDetect, Fingerprint, Cancel, Finish, Terminated, vars, poolVars, WorkerStep,
         Receive, CheckDone, CheckUser, HasBudget, LimiterWait, ClaimAttempt, TestCredential,
         RecordMatch, Exit, At, IInv, Ownership, Held
<1>3. /\ Len(matched') \in Nat /\ Len(matched') >= Len(matched)
      /\ \A k \in 1 .. Len(matched) : k \in 1 .. Len(matched') /\ matched'[k] = matched[k]
  BY <1>1, <1>2, AppendProperties
<1>4. \A u : UserDone(u) => UserDone(u)'
  BY <1>3 DEF UserDone
<1>5. stopAtFirst' = stopAtFirst
  BY DEF Next, EnterDetect, Fingerprint, Cancel, Finish, Terminated, vars, WorkerStep,
         Receive, CheckDone, CheckUser, HasBudget, LimiterWait, ClaimAttempt, TestCredential,
         RecordMatch, Exit
<1>6. budgetExhausted => budgetExhausted'
  BY Zenon DEF Next, EnterDetect, Fingerprint, Cancel, Finish, Terminated, vars, poolVars, WorkerStep,
         Receive, CheckDone, CheckUser, HasBudget, LimiterWait, ClaimAttempt, TestCredential,
         RecordMatch, Exit
<1>7. Done => Done'
  BY <1>1, <1>3, <1>5, <1>6 DEF Done, StoppedAtFirst
<1>8. Failing => Failing'
  <2>1. ASSUME NEW w \in Workers, WorkerStep(w)
        PROVE  Failing => Failing'
    <3>1. \A v \in Workers : v # w => pc'[v] = pc[v]
      BY <2>1, WorkerMoves
    <3>2. groupErr => groupErr'
      BY <2>1, Zenon DEF WorkerStep, Receive, CheckDone, CheckUser, HasBudget, LimiterWait, ClaimAttempt,
                  TestCredential, RecordMatch, Exit
    <3>3. pc[w] = "fail" => groupErr'
      BY <2>1, Zenon DEF WorkerStep, Receive, CheckDone, CheckUser, HasBudget, LimiterWait,
                  ClaimAttempt, TestCredential, RecordMatch, Exit, At
    <3> QED
      BY <3>1, <3>2, <3>3 DEF Failing
  <2>2. CASE UNCHANGED <<groupErr, pc>>
    BY <2>2 DEF Failing
  <2> QED
    BY <2>1, <2>2 DEF Next, EnterDetect, Fingerprint, Cancel, Finish, Terminated, vars, poolVars
<1>9. \A i \in Creds : tried[i] = 1 => tried'[i] = 1
  <2>1. ASSUME NEW w \in Workers, ClaimAttempt(w)
        PROVE  \A i \in Creds : tried[i] = 1 => tried'[i] = 1
    <3>1. cur[w] \in Creds /\ tried[cur[w]] = 0
      BY <2>1 DEF ClaimAttempt, At, IInv, Ownership, SentOnce, Held, Fresh
    <3>2. \/ tried' = tried
          \/ tried' = [tried EXCEPT ![cur[w]] = @ + 1]
      BY <2>1 DEF ClaimAttempt
    <3> QED
      BY <3>1, <3>2 DEF IInv, TypeOK
  <2> QED
    BY <2>1 DEF Next, EnterDetect, Fingerprint, Cancel, Finish, Terminated, vars, poolVars, history,
         WorkerStep, Receive, CheckDone, CheckUser, HasBudget, LimiterWait, TestCredential,
         RecordMatch, Exit
<1> QED
  BY <1>4, <1>5, <1>7, <1>8, <1>9

LEMMA StepDropped ==
  ASSUME IInv, NothingDropped, [Next]_vars
  PROVE  NothingDropped'
<1>1. /\ \A i \in Creds : Covered(i) => Covered(i)'
      /\ Done => Done'
      /\ Failing => Failing'
  BY ReasonsStay DEF Covered
<1>2. head \in Nat
  BY PoolAssumption DEF IInv, TypeOK
\* A worker step that receives nothing: it keeps its candidate, or has a reason.
<1>3. ASSUME NEW w \in Workers, WorkerStep(w), UNCHANGED <<head, cur>>,
             pc[w] \in Fresh => \/ pc'[w] \in Fresh
                                \/ Covered(cur[w])' \/ Done' \/ Failing',
             pc'[w] \in {"close", "exited"} =>
               pc[w] = "close" \/ Drained \/ Done' \/ Failing'
      PROVE  NothingDropped'
  <2>1. \A v \in Workers : v # w => pc'[v] = pc[v]
    BY <1>3, WorkerMoves
  <2>2. Drained' = Drained
    BY <1>3 DEF Drained
  <2> QED
    BY <1>1, <1>3, <2>1, <2>2 DEF NothingDropped
<1>4. ASSUME NEW w \in Workers, Receive(w)
      PROVE  NothingDropped'
  <2>1. /\ pc[w] = "recv"
        /\ \A v \in Workers : v # w => pc'[v] = pc[v] /\ cur'[v] = cur[v]
    BY <1>4, WorkerMoves DEF Receive, At, WorkerStep
  <2>2. CASE Drained
    <3>1. pc'[w] = "close" /\ UNCHANGED <<head, cur>>
      BY <1>4, <2>2 DEF Receive, Goto, IInv, TypeOK
    <3> QED
      BY <1>3, <1>4, <2>1, <2>2, <3>1 DEF WorkerStep, Fresh
  <2>3. CASE ~Drained
    <3>1. /\ cur'[w] = head /\ head' = head + 1 /\ head \in Creds
          /\ pc'[w] = "fail" \/ pc'[w] = "done"
      BY <1>2, <1>4, <2>3, PoolAssumption DEF Receive, Goto, IInv, TypeOK, Drained, Creds
    <3>2. Failing' \/ pc'[w] \in Fresh
      BY <3>1 DEF Failing, Fresh
    <3>3. \A i \in Creds : i < head' => i < head \/ i = head
      BY <1>2, <3>1, PoolAssumption DEF Creds
    <3>4. \A v \in Workers : pc'[v] \in {"close", "exited"} => v # w
      BY <3>1
    <3>5. \A v \in Workers : pc[v] \in Fresh => v # w
      BY <2>1 DEF Fresh
    <3> QED
      BY <1>1, <2>1, <2>3, <3>1, <3>2, <3>3, <3>4, <3>5 DEF NothingDropped
  <2> QED
    BY <2>2, <2>3
<1>5. ASSUME NEW w \in Workers, CheckDone(w) \/ HasBudget(w)
      PROVE  NothingDropped'
  <2>1. /\ UNCHANGED <<head, cur>>
        /\ pc'[w] \in Fresh \/ (pc'[w] = "close" /\ Done')
    BY <1>1, <1>5 DEF CheckDone, HasBudget, Goto, At, Fresh, Done, IInv, TypeOK
  <2> QED
    BY <1>3, <1>5, <2>1 DEF WorkerStep, Fresh
<1>6. ASSUME NEW w \in Workers, CheckUser(w)
      PROVE  NothingDropped'
  <2>1. /\ UNCHANGED <<head, cur, matched, tried>>
        /\ pc'[w] \in Fresh \/ (pc'[w] = "recv" /\ UserDone(UserOf[cur[w]]))
    BY <1>6 DEF CheckUser, Goto, At, Fresh, IInv, TypeOK, history
  <2>2. pc'[w] = "recv" => Covered(cur[w])'
    BY <2>1 DEF Covered, UserDone, Fresh
  <2> QED
    BY <1>3, <1>6, <2>1, <2>2 DEF WorkerStep, Fresh
<1>7. ASSUME NEW w \in Workers, ClaimAttempt(w)
      PROVE  NothingDropped'
  <2>1. cur[w] \in Creds /\ tried[cur[w]] = 0 /\ UNCHANGED <<head, cur>>
    BY <1>7 DEF ClaimAttempt, At, IInv, Ownership, SentOnce, Held, Fresh
  <2>2. \/ pc'[w] = "close" /\ budgetExhausted'
        \/ pc'[w] = "test" /\ tried' = [tried EXCEPT ![cur[w]] = @ + 1]
    BY <1>7 DEF ClaimAttempt, Goto, IInv, TypeOK
  <2>3. \/ pc'[w] = "close" /\ Done'
        \/ pc'[w] = "test" /\ Covered(cur[w])'
    BY <2>1, <2>2 DEF Done, Covered, IInv, TypeOK
  <2> QED
    BY <1>3, <1>7, <2>1, <2>3 DEF WorkerStep, Fresh
<1>8. ASSUME NEW w \in Workers, LimiterWait(w)
      PROVE  NothingDropped'
  <2>1. UNCHANGED <<head, cur>> /\ (pc'[w] \in Fresh \/ pc'[w] = "fail")
    BY <1>8 DEF LimiterWait, Goto, Fresh, IInv, TypeOK
  <2> QED
    BY <1>3, <1>8, <2>1 DEF WorkerStep, Fresh, Failing
<1>9. ASSUME NEW w \in Workers, TestCredential(w) \/ RecordMatch(w)
      PROVE  NothingDropped'
  <2>1. /\ UNCHANGED <<head, cur>> /\ pc[w] \in {"test", "record"}
        /\ pc'[w] \in {"record", "recv", "fail"}
    BY <1>9 DEF TestCredential, RecordMatch, Goto, At, IInv, TypeOK
  <2> QED
    BY <1>3, <1>9, <2>1 DEF WorkerStep, Fresh
<1>10. ASSUME NEW w \in Workers, Exit(w)
       PROVE  NothingDropped'
  <2>1. /\ UNCHANGED <<head, cur>> /\ pc[w] \in {"close", "fail"}
        /\ pc'[w] = "exited" /\ (pc[w] = "fail" => groupErr')
    BY <1>10, Zenon DEF Exit, Goto, At, IInv, TypeOK
  <2>2. pc[w] = "fail" => Failing'
    BY <2>1 DEF Failing
  <2> QED
    BY <1>3, <1>10, <2>1, <2>2 DEF WorkerStep, Fresh
<1>11. CASE EnterDetect \/ Fingerprint \/ Cancel \/ Finish \/ Terminated \/ UNCHANGED vars
  <2>1. UNCHANGED <<head, pc, cur>>
    BY <1>11 DEF EnterDetect, Fingerprint, Cancel, Finish, Terminated, vars, poolVars
  <2> QED
    BY <1>1, <2>1 DEF NothingDropped, Drained
<1> QED
  BY <1>4, <1>5, <1>6, <1>7, <1>8, <1>9, <1>10, <1>11 DEF Next, WorkerStep

-----------------------------------------------------------------------------
(* Sorting.                                                                *)

\* A sequence of distinct numbers has a sorted reordering: the number with i - 1
\* smaller ones goes to place i, and each place gets one number.
LEMMA SortedExists ==
  ASSUME NEW n \in Nat, NEW s \in [1 .. n -> Nat],
         \A j, k \in 1 .. n : s[j] = s[k] => j = k
  PROVE  \E t \in Reorderings(s) : \A j, k \in 1 .. n : j < k => t[j] <= t[k]
<1> DEFINE D == 1 .. n
           Below(k) == {j \in D : s[j] < s[k]}
           rank == [k \in D |-> Cardinality(Below(k)) + 1]
<1>1. IsFiniteSet(D) /\ Cardinality(D) = n
  BY FS_Interval
<1>2. \A k \in D : IsFiniteSet(Below(k)) /\ Cardinality(Below(k)) \in Nat
  BY <1>1, FS_Subset, FS_CardinalityType
<1>3. ASSUME NEW k \in D
      PROVE  Cardinality(Below(k)) + 1 \in D
  <2>1. Below(k) \subseteq D \ {k}
    OBVIOUS
  <2>2. IsFiniteSet(D \ {k}) /\ Cardinality(D \ {k}) = n - 1
    BY <1>1, FS_RemoveElement
  <2>3. Cardinality(Below(k)) <= n - 1
    BY <2>1, <2>2, FS_Subset
  <2>4. Cardinality(Below(k)) \in Nat
    BY <1>2
  <2>5. \A c \in Nat : c <= n - 1 => c + 1 \in 1 .. n
    OBVIOUS
  <2> HIDE DEF Below
  <2> QED
    BY <2>3, <2>4, <2>5
<1>4. ASSUME NEW j \in D, NEW k \in D, s[j] < s[k]
      PROVE  Cardinality(Below(j)) < Cardinality(Below(k))
  <2>1. j \in Below(k) /\ j \notin Below(j) /\ Below(j) \cup {j} \subseteq Below(k)
    BY <1>4
  <2>2. /\ IsFiniteSet(Below(j) \cup {j})
        /\ Cardinality(Below(j) \cup {j}) = Cardinality(Below(j)) + 1
    BY <1>2, <2>1, FS_AddElement
  <2>3. Cardinality(Below(j) \cup {j}) <= Cardinality(Below(k))
    BY <1>2, <2>1, FS_Subset
  <2>4. Cardinality(Below(j)) \in Nat /\ Cardinality(Below(k)) \in Nat
    BY <1>2
  <2> HIDE DEF Below
  <2> QED
    BY <2>2, <2>3, <2>4
<1> HIDE DEF Below
<1>5. ASSUME NEW j \in D, NEW k \in D, s[j] < s[k]
      PROVE  rank[j] < rank[k]
  <2>1. rank[j] = Cardinality(Below(j)) + 1 /\ rank[k] = Cardinality(Below(k)) + 1
    OBVIOUS
  <2>2. Cardinality(Below(j)) \in Nat /\ Cardinality(Below(k)) \in Nat
    BY <1>2
  <2>3. Cardinality(Below(j)) < Cardinality(Below(k))
    BY <1>4, <1>5
  <2> HIDE DEF rank
  <2> QED
    BY <2>1, <2>2, <2>3
<1>6. rank \in [D -> D]
  BY <1>3
<1> HIDE DEF rank
<1>7. ASSUME NEW j \in D, NEW k \in D
      PROVE  /\ rank[j] = rank[k] => j = k
             /\ rank[j] < rank[k] => s[j] <= s[k]
  <2>1. s[j] \in Nat /\ s[k] \in Nat /\ rank[j] \in Nat /\ rank[k] \in Nat
    BY <1>6
  <2>2. (s[j] < s[k] => rank[j] < rank[k]) /\ (s[k] < s[j] => rank[k] < rank[j])
    BY <1>5
  <2>3. s[j] = s[k] => j = k
    OBVIOUS
  <2> HIDE DEF D
  <2> QED
    BY <2>1, <2>2, <2>3
<1>8. rank \in Injection(D, D)
  <2> HIDE DEF D
  <2> QED
    BY <1>6, <1>7 DEF Injection, IsInjective
<1>9. rank \in Surjection(D, D)
  BY <1>1, <1>8, FS_Injection
<1> DEFINE place == [i \in D |-> CHOOSE k \in D : rank[k] = i]
           t == [i \in D |-> s[place[i]]]
<1>10. \A i \in D : place[i] \in D /\ rank[place[i]] = i
  BY <1>9 DEF Surjection
<1>11. place \in [D -> D] /\ \A i, j \in D : place[i] = place[j] => i = j
  BY <1>10
<1> HIDE DEF place
<1>12. t \in Reorderings(s)
  BY <1>11 DEF Reorderings
<1>13. ASSUME NEW j \in D, NEW k \in D, j < k
       PROVE  t[j] <= t[k]
  <2>1. place[j] \in D /\ place[k] \in D /\ rank[place[j]] < rank[place[k]]
    BY <1>10, <1>13
  <2> HIDE DEF D
  <2> QED
    BY <1>7, <2>1
<1> QED
  BY <1>12, <1>13

LEMMA SortedFacts ==
  ASSUME NEW s \in Seq(Nat),
         \A j, k \in 1 .. Len(s) : s[j] = s[k] => j = k
  PROVE  /\ Len(Sorted(s)) = Len(s)
         /\ {Sorted(s)[k] : k \in 1 .. Len(s)} = {s[k] : k \in 1 .. Len(s)}
         /\ \A k \in 1 .. Len(s) - 1 : Sorted(s)[k] < Sorted(s)[k + 1]
<1> DEFINE n == Len(s)
           D == 1 .. n
           t == Sorted(s)
<1>1. n \in Nat /\ s \in [D -> Nat] /\ DOMAIN s = D
  BY LenProperties
<1>2. t \in Reorderings(s) /\ \A j, k \in D : j < k => t[j] <= t[k]
  BY <1>1, SortedExists DEF Sorted
<1> HIDE DEF t
<1>3. PICK p \in [D -> D] : /\ \A j, k \in D : p[j] = p[k] => j = k
                            /\ t = [k \in D |-> s[p[k]]]
  BY <1>1, <1>2 DEF Reorderings
<1>4. t \in [D -> Nat] /\ \A k \in D : t[k] = s[p[k]]
  BY <1>1, <1>3
<1>5. Len(t) = n
  BY <1>1, <1>4, LenProperties, IsASeq
<1>6. p \in Surjection(D, D)
  <2>1. p \in Injection(D, D)
    BY <1>3 DEF Injection, IsInjective
  <2>2. IsFiniteSet(D)
    BY <1>1, FS_Interval
  <2> QED
    BY <2>1, <2>2, FS_Injection
<1>7. {t[k] : k \in D} = {s[k] : k \in D}
  <2>1. \A j \in D : \E k \in D : p[k] = j
    BY <1>6 DEF Surjection
  <2>2. \A k \in D : p[k] \in D /\ t[k] = s[p[k]]
    BY <1>3, <1>4
  <2> HIDE DEF D
  <2>3. ASSUME NEW x, x \in {t[k] : k \in D}
        PROVE  x \in {s[k] : k \in D}
    BY <2>2, <2>3
  <2>4. ASSUME NEW x, x \in {s[k] : k \in D}
        PROVE  x \in {t[k] : k \in D}
    BY <2>1, <2>2, <2>4
  <2> QED
    BY <2>3, <2>4
<1>8. ASSUME NEW k \in 1 .. n - 1
      PROVE  t[k] < t[k + 1]
  <2>1. k \in D /\ k + 1 \in D /\ k < k + 1
    BY <1>1
  <2>2. t[k] <= t[k + 1] /\ t[k] \in Nat /\ t[k + 1] \in Nat
    BY <1>2, <1>4, <2>1
  <2>3. t[k] # t[k + 1]
    <3>1. p[k] \in D /\ p[k + 1] \in D /\ k # k + 1
      <4>1. k # k + 1
        BY <1>1
      <4> QED
        BY <1>3, <2>1, <4>1
    <3>2. p[k] # p[k + 1]
      BY <1>3, <2>1, <3>1
    <3> QED
      BY <1>4, <2>1, <3>1, <3>2
  <2> QED
    BY <2>2, <2>3
<1> QED
  BY <1>5, <1>7, <1>8 DEF t

-----------------------------------------------------------------------------
(* What Detect returns.                                                    *)

\* At the end every worker has left for a reason, so all is covered or the
\* result says why it is not.
LEMMA FinishSkipsNothing ==
  ASSUME IInv, MatchesExact, NothingDropped, Finish
  PROVE  NothingSkipped'
<1>1. UNCHANGED <<stopAtFirst, tried, accepted>> /\ \A w \in Workers : pc[w] = "exited"
  BY DEF Finish, history
<1>2. CASE groupErr
  BY <1>2 DEF Finish, Return, EmptyResult, NothingSkipped
<1>3. CASE ~groupErr
  <2>1. ret'.exhausted = (budgetExhausted /\ ~StoppedAtFirst)
    BY <1>3 DEF Finish, PoolResult
  <2>2. ~Failing
    BY <1>1, <1>3 DEF Failing
  <2>3. Recording = {} /\ accepted = Matches
    BY <1>1 DEF Recording, MatchesExact
  <2>4. CASE StoppedAtFirst
    <3>1. Len(matched) \in Nat /\ Len(matched) > 0
      BY <2>4 DEF StoppedAtFirst, IInv, TypeOK
    <3>2. matched[1] \in accepted
      BY <2>3, <3>1 DEF Matches
    <3> QED
      BY <1>1, <2>4, <3>2 DEF NothingSkipped, StoppedAtFirst
  <2>5. CASE budgetExhausted /\ ~StoppedAtFirst
    BY <2>1, <2>5 DEF NothingSkipped
  <2>6. CASE ~Done
    <3>1. ASSUME NEW i \in Creds
          PROVE  tried[i] = 1 \/ \E j \in accepted : UserOf[j] = UserOf[i]
      <4>1. NumWorkers >= 1
        BY PoolAssumption DEF Creds, NumWorkers, MinOf, MaxOf
      <4>2. 1 \in Workers
        BY <4>1, WorkersNat DEF Workers
      <4>3. Drained
        BY <1>1, <2>2, <2>6, <4>2 DEF NothingDropped
      <4>4. i < head
        BY <4>3, PoolAssumption DEF Drained, Creds, IInv, TypeOK
      <4>5. Covered(i)
        BY <1>1, <2>2, <2>6, <4>4 DEF NothingDropped, Fresh
      <4> QED
        BY <2>3, <4>5 DEF Covered, UserDone, Matches
    <3> QED
      BY <1>1, <3>1 DEF NothingSkipped
  <2> QED
    BY <2>4, <2>5, <2>6 DEF Done
<1> QED
  BY <1>2, <1>3

LEMMA FinishReportsExactly ==
  ASSUME IInv, MatchesExact, ExhaustedExact, Finish
  PROVE  ReportExact'
<1>1. UNCHANGED <<tried, accepted, attempts>> /\ \A w \in Workers : pc[w] = "exited"
  BY DEF Finish, history, poolVars
<1>2. CASE groupErr
  BY <1>2 DEF Finish, Return, EmptyResult, ReportExact, ExhaustedIsTrue
<1>3. CASE ~groupErr
  <2>1. /\ ret'.creds = Sorted(matched) /\ ret'.attempts = attempts
        /\ ret'.exhausted = (budgetExhausted /\ ~StoppedAtFirst)
    BY <1>3 DEF Finish, PoolResult
  <2>2. accepted = Matches
    BY <1>1 DEF Recording, MatchesExact
  <2>3. matched \in Seq(Nat)
    <3>1. matched \in Seq(Creds) /\ \A c \in Creds : c \in Nat
      BY PoolAssumption DEF IInv, TypeOK, Creds
    <3> QED
      BY <3>1, SeqMonotonic
  <2>4. /\ Len(Sorted(matched)) = Len(matched)
        /\ {Sorted(matched)[k] : k \in 1 .. Len(matched)} = Matches
        /\ \A k \in 1 .. Len(matched) - 1 : Sorted(matched)[k] < Sorted(matched)[k + 1]
    BY <2>3, SortedFacts DEF MatchesExact, Matches
  <2>5. attempts = Cardinality(Attempted')
    BY <1>1 DEF IInv, CounterExact, Attempted
  <2>6. ExhaustedIsTrue'
    <3> SUFFICES ASSUME budgetExhausted
                 PROVE  ret'.attempts = MaxAttempts /\ \E i \in Creds : tried'[i] = 0
      BY <2>1 DEF ExhaustedIsTrue
    <3> QED
      BY <1>1, <2>1, PoolAssumption
      DEF ExhaustedExact, BudgetSpent, IInv, CounterExact, TypeOK
  <2> QED
    BY <1>1, <2>1, <2>2, <2>4, <2>5, <2>6 DEF ReportExact
<1> QED
  BY <1>2, <1>3

LEMMA StepReported ==
  ASSUME IInv, MatchesExact, ExhaustedExact, NothingDropped, Reported, [Next]_vars
  PROVE  Reported'
<1>1. CASE \E w \in Workers : WorkerStep(w)
  BY <1>1, WorkerMoves DEF Reported
<1>2. CASE EnterDetect \/ Fingerprint
  <2>1. phase # "returned"
    BY <1>2 DEF EnterDetect, Fingerprint
  <2>2. CASE phase' = "returned"
    BY <1>2, <2>2
    DEF EnterDetect, Fingerprint, Return, EmptyResult, Reported, NothingSkipped, ReportExact,
        ExhaustedIsTrue
  <2>3. CASE phase' # "returned" /\ ret' = ret
    BY <2>1, <2>3 DEF Reported
  <2> QED
    BY <1>2, <2>2, <2>3 DEF EnterDetect, Fingerprint, Return
<1>3. CASE Cancel \/ Terminated \/ UNCHANGED vars
  <2>1. UNCHANGED <<stopAtFirst, phase, tried, accepted, ret>>
    BY <1>3 DEF Cancel, Terminated, vars, history
  <2> QED
    BY <2>1 DEF Reported, NothingSkipped, ReportExact, ExhaustedIsTrue, Attempted
<1>4. CASE Finish
  BY <1>4, FinishSkipsNothing, FinishReportsExactly DEF Reported, Finish, Return
<1> QED
  BY <1>1, <1>2, <1>3, <1>4 DEF Next

Outcome == IInv /\ MatchesExact /\ ExhaustedExact /\ NothingDropped /\ Reported

LEMMA SpecOutcome == Spec => []Outcome
<1>1. Init => Outcome
  <2> SUFFICES ASSUME Init
               PROVE  Outcome
    OBVIOUS
  <2>1. Recording = {} /\ Matches = {}
    BY DEF Init, Recording, Matches
  <2>2. MatchesExact
    BY <2>1 DEF Init, MatchesExact
  <2>3. \A i \in Creds : ~(i < head)
    BY PoolAssumption DEF Init, Creds
  <2>4. NothingDropped
    BY <2>3 DEF Init, NothingDropped
  <2> QED
    BY <2>2, <2>4, InitIInv DEF Init, Outcome, ExhaustedExact, Reported, EmptyResult
<1>2. Outcome /\ [Next]_vars => Outcome'
  BY StepIInv, StepMatches, StepExhausted, StepDropped, StepReported DEF Outcome
<1> QED
  BY <1>1, <1>2, PTL DEF Spec

LEMMA OutcomeReports == Outcome => NothingSkipped /\ ReportExact
  BY DEF Outcome, Reported, NothingSkipped, ReportExact, ExhaustedIsTrue

\* However the workers' stale checks interleave: when Detect returns without an
\* error, each candidate was sent or its user broken into, unless the result
\* says that the budget ran out or stop-at-first had found something.
THEOREM NothingIsSkipped == Spec => []NothingSkipped
  BY SpecOutcome, OutcomeReports, PTL

\* The result lists the accepted credentials, all of them, sorted and once,
\* counts the calls that were made, and calls the budget exhausted only when the
\* last attempt was spent and a candidate was left.
THEOREM ReportIsExact == Spec => []ReportExact
  BY SpecOutcome, OutcomeReports, PTL

-----------------------------------------------------------------------------
(* How many candidates are sent late.                                      *)

LEMMA OthersNat == Others \in Nat /\ NumWorkers - 1 <= Others
  BY WorkersNat DEF Others, MaxOf

\* A worker that records a match is not about to claim.
LEMMA FewClaim ==
  ASSUME NEW w \in Workers
  PROVE  /\ \A T : T \subseteq Workers \ {w} =>
               IsFiniteSet(T) /\ Cardinality(T) \in Nat /\ Cardinality(T) <= Others
         /\ \A T : T \subseteq Workers => IsFiniteSet(T) /\ Cardinality(T) \in Nat
<1>1. IsFiniteSet(Workers) /\ Cardinality(Workers) = NumWorkers
  BY WorkersNat, FS_Interval DEF Workers
<1>2. IsFiniteSet(Workers \ {w}) /\ Cardinality(Workers \ {w}) = NumWorkers - 1
  BY <1>1, FS_RemoveElement
<1>3. \A T : T \subseteq Workers => IsFiniteSet(T) /\ Cardinality(T) \in Nat
  BY <1>1, FS_Subset, FS_CardinalityType
<1>4. ASSUME NEW T, T \subseteq Workers \ {w}
      PROVE  Cardinality(T) <= Others
  <2>1. Cardinality(T) <= NumWorkers - 1 /\ Cardinality(T) \in Nat
    BY <1>2, <1>3, <1>4, FS_Subset
  <2> QED
    BY <2>1, OthersNat, WorkersNat
<1> QED
  BY <1>3, <1>4

LEMMA LateFinite ==
  ASSUME late \subseteq Attempted
  PROVE  /\ IsFiniteSet(late) /\ Cardinality(late) \in Nat
         /\ \A u : IsFiniteSet(LateOf(u)) /\ Cardinality(LateOf(u)) \in Nat
  BY AttemptedFinite, FS_Subset, FS_CardinalityType DEF LateOf

\* A step in which nobody joins those who may still claim, nothing is claimed and
\* no match is recorded.
LEMMA LateKept ==
  ASSUME LateCounted, NEW v \in Workers, Attempted \subseteq Attempted',
         UNCHANGED <<stopAtFirst, matched, late>>,
         stopAtFirst /\ matched # <<>> => ClaimsAny' \subseteq ClaimsAny,
         \A u \in Users : Broken(u) => ClaimsOf(u)' \subseteq ClaimsOf(u)
  PROVE  LateCounted'
<1>1. Others' = Others /\ \A u : LateOf(u)' = LateOf(u) /\ (Broken(u)' <=> Broken(u))
  BY DEF Others, LateOf, Broken
<1>2. ASSUME NEW S, NEW T, S \subseteq T, T \subseteq Workers
      PROVE  Cardinality(S) \in Nat /\ Cardinality(T) \in Nat /\ Cardinality(S) <= Cardinality(T)
  BY <1>2, FewClaim, FS_Subset
<1>3. ClaimsAny \subseteq Workers /\ \A u : ClaimsOf(u) \subseteq Workers
  BY DEF ClaimsAny, ClaimsOf
<1>4. CASE stopAtFirst
  <2>1. CASE matched = <<>>
    BY <1>4, <2>1 DEF LateCounted
  <2>2. CASE matched # <<>>
    <3>1. Cardinality(late) + Cardinality(ClaimsAny) <= Others
      BY <1>4, <2>2 DEF LateCounted
    <3>2. ClaimsAny' \subseteq ClaimsAny
      BY <1>4, <2>2
    <3>3. /\ Cardinality(ClaimsAny') \in Nat /\ Cardinality(ClaimsAny) \in Nat
          /\ Cardinality(ClaimsAny') <= Cardinality(ClaimsAny)
      BY <1>2, <1>3, <3>2
    <3>4. Cardinality(late) \in Nat
      BY LateFinite DEF LateCounted
    <3>5. Cardinality(late) + Cardinality(ClaimsAny') <= Others
      BY <3>1, <3>3, <3>4, OthersNat
    <3> QED
      BY <1>1, <1>4, <2>2, <3>5 DEF LateCounted
  <2> QED
    BY <2>1, <2>2
<1>5. CASE ~stopAtFirst
  <2>1. ASSUME NEW u \in Users
        PROVE  IF Broken(u) THEN Cardinality(LateOf(u)) + Cardinality(ClaimsOf(u)') <= Others
                            ELSE LateOf(u) = {}
    <3>1. IF Broken(u) THEN Cardinality(LateOf(u)) + Cardinality(ClaimsOf(u)) <= Others
                       ELSE LateOf(u) = {}
      BY <1>5 DEF LateCounted
    <3>2. CASE Broken(u)
      <4>1. Cardinality(ClaimsOf(u)') <= Cardinality(ClaimsOf(u))
            /\ Cardinality(ClaimsOf(u)') \in Nat /\ Cardinality(ClaimsOf(u)) \in Nat
        BY <1>2, <1>3, <3>2
      <4> QED
        BY <3>1, <3>2, <4>1, LateFinite, OthersNat DEF LateCounted
    <3> QED
      BY <3>1, <3>2
  <2> QED
    BY <1>1, <1>5, <2>1 DEF LateCounted
<1> QED
  BY <1>4, <1>5

\* The match that starts the count: its worker is none of those who may claim.
LEMMA LateAtRecord ==
  ASSUME IInv, LateCounted, NEW w \in Workers, RecordMatch(w)
  PROVE  LateCounted'
<1>1. /\ pc[w] = "record" /\ pc'[w] = "recv" /\ cur[w] \in Creds
      /\ \A v \in Workers : v # w => pc'[v] = pc[v]
      /\ matched' = Append(matched, cur[w])
      /\ UNCHANGED <<stopAtFirst, cur, late, tried>>
  BY DEF RecordMatch, At, Goto, history, IInv, TypeOK, Ownership, Held
<1>2. matched \in Seq(Creds) /\ Len(matched) \in Nat
  BY DEF IInv, TypeOK
<1>3. /\ matched' # <<>>
      /\ \A u : Broken(u)' <=> Broken(u) \/ u = UserOf[cur[w]]
  <2>1. /\ Len(matched') = Len(matched) + 1 /\ matched'[Len(matched) + 1] = cur[w]
        /\ \A k \in 1 .. Len(matched) : matched'[k] = matched[k]
        /\ matched' # <<>>
    BY <1>1, <1>2, AppendProperties
  <2>2. 1 .. Len(matched') = (1 .. Len(matched)) \cup {Len(matched) + 1}
    BY <1>2, <2>1
  <2> QED
    BY <2>1, <2>2 DEF Broken
<1>4. /\ ClaimsAny' = ClaimsAny /\ ClaimsAny \subseteq Workers \ {w}
      /\ \A u : ClaimsOf(u)' = ClaimsOf(u) /\ ClaimsOf(u) \subseteq Workers \ {w}
  BY <1>1 DEF ClaimsAny, ClaimsOf
<1>5. /\ Cardinality(ClaimsAny) \in Nat /\ Cardinality(ClaimsAny) <= Others
      /\ \A u : Cardinality(ClaimsOf(u)) \in Nat /\ Cardinality(ClaimsOf(u)) <= Others
  BY <1>4, FewClaim
<1>6. Others' = Others /\ Attempted' = Attempted /\ \A u : LateOf(u)' = LateOf(u)
  BY <1>1 DEF Others, LateOf, Attempted
<1>7. Cardinality({}) = 0
  BY FS_EmptySet
<1>8. CASE stopAtFirst
  <2>1. Cardinality(late) + Cardinality(ClaimsAny) <= Others
    <3>1. CASE matched = <<>>
      <4>1. Cardinality(late) = 0
        BY <1>7, <1>8, <3>1 DEF LateCounted
      <4> QED
        BY <1>5, <4>1, OthersNat
    <3>2. CASE matched # <<>>
      BY <1>8, <3>2 DEF LateCounted
    <3> QED
      BY <3>1, <3>2
  <2> QED
    BY <1>1, <1>3, <1>4, <1>6, <1>8, <2>1 DEF LateCounted
<1>9. CASE ~stopAtFirst
  <2>1. ASSUME NEW u \in Users
        PROVE  IF Broken(u)' THEN Cardinality(LateOf(u)) + Cardinality(ClaimsOf(u)) <= Others
                             ELSE LateOf(u) = {}
    <3>1. CASE Broken(u)
      BY <1>3, <1>9, <3>1 DEF LateCounted
    <3>2. CASE ~Broken(u)
      <4>1. LateOf(u) = {} /\ Cardinality(LateOf(u)) = 0
        BY <1>7, <1>9, <3>2 DEF LateCounted
      <4>2. Cardinality(LateOf(u)) + Cardinality(ClaimsOf(u)) <= Others
        BY <1>5, <4>1, OthersNat
      <4> QED
        BY <4>1, <4>2
    <3> QED
      BY <3>1, <3>2
  <2> QED
    BY <1>1, <1>4, <1>6, <1>9, <2>1 DEF LateCounted
<1> QED
  BY <1>8, <1>9

\* A late claim: one candidate more was sent late, one worker less may claim.
LEMMA LateAtClaim ==
  ASSUME IInv, LateCounted, NEW w \in Workers, ClaimAttempt(w)
  PROVE  LateCounted'
<1>1. /\ pc[w] = "claim" /\ pc'[w] \in {"close", "test"}
      /\ \A v \in Workers : v # w => pc'[v] = pc[v]
      /\ UNCHANGED <<stopAtFirst, cur, matched>>
      /\ cur[w] \in Creds /\ tried[cur[w]] = 0
  BY DEF ClaimAttempt, At, Goto, IInv, TypeOK, Ownership, SentOnce, Held, Fresh
<1> DEFINE u0 == UserOf[cur[w]]
<1>2. u0 \in Users
  BY <1>1, PoolAssumption
<1>3. /\ ClaimsAny' = ClaimsAny \ {w} /\ w \in ClaimsAny
      /\ \A u : u # u0 => ClaimsOf(u)' = ClaimsOf(u)
      /\ \A u : u = u0 => ClaimsOf(u)' = ClaimsOf(u) \ {w} /\ w \in ClaimsOf(u)
  BY <1>1 DEF ClaimsAny, ClaimsOf
<1>4. Attempted \subseteq Attempted'
  <2>1. tried \in [Creds -> Nat]
    BY DEF IInv, TypeOK
  <2>2. tried' = tried \/ tried' = [tried EXCEPT ![cur[w]] = @ + 1]
    BY DEF ClaimAttempt
  <2>3. \A i \in Creds : tried'[i] = tried[i] \/ tried'[i] = tried[i] + 1
    BY <1>1, <2>1, <2>2
  <2>4. \A i \in Creds : tried[i] \in Nat
    BY <2>1
  <2> QED
    BY <2>3, <2>4 DEF Attempted
<1>5. CASE late' = late
  <2>1. ASSUME NEW u
        PROVE  ClaimsOf(u)' \subseteq ClaimsOf(u)
    <3>1. CASE u = u0
      BY <1>3, <3>1
    <3>2. CASE u # u0
      BY <1>3, <3>2
    <3> QED
      BY <3>1, <3>2
  <2> QED
    BY <1>1, <1>3, <1>4, <1>5, <2>1, LateKept
<1>6. CASE late' = late \cup {cur[w]} /\ (StoppedAtFirst \/ Broken(u0)) /\ cur[w] \in Attempted'
  <2>1. cur[w] \notin late
    BY <1>1 DEF LateCounted, Attempted
  <2>2. late' \subseteq Attempted'
    BY <1>4, <1>6 DEF LateCounted
  <2>3. Others' = Others /\ \A u : Broken(u)' <=> Broken(u)
    BY <1>1 DEF Others, Broken
  <2>4. IsFiniteSet(late) /\ Cardinality(late) \in Nat
    BY LateFinite DEF LateCounted
  <2>5. CASE stopAtFirst
    <3>1. Cardinality(late') = Cardinality(late) + 1
      BY <1>6, <2>1, <2>4, FS_AddElement
    <3>2. IsFiniteSet(ClaimsAny) /\ Cardinality(ClaimsAny) \in Nat
      BY FewClaim DEF ClaimsAny
    <3>3. Cardinality(ClaimsAny') = Cardinality(ClaimsAny) - 1
      BY <1>3, <3>2, FS_RemoveElement
    <3>4. matched # <<>>
      BY <1>6 DEF StoppedAtFirst, Broken, IInv, TypeOK
    <3>5. Cardinality(late) + Cardinality(ClaimsAny) <= Others
      BY <2>5, <3>4 DEF LateCounted
    <3>6. Cardinality(late') + Cardinality(ClaimsAny') <= Others
      BY <2>4, <3>1, <3>2, <3>3, <3>5, OthersNat
    <3> QED
      BY <1>1, <2>2, <2>3, <2>5, <3>4, <3>6 DEF LateCounted
  <2>6. CASE ~stopAtFirst
    <3>1. Broken(u0)
      BY <1>6, <2>6 DEF StoppedAtFirst
    <3>2. ASSUME NEW u \in Users, u # u0
          PROVE  IF Broken(u) THEN Cardinality(LateOf(u)') + Cardinality(ClaimsOf(u)') <= Others
                              ELSE LateOf(u)' = {}
      <4>1. LateOf(u)' = LateOf(u) /\ ClaimsOf(u)' = ClaimsOf(u)
        BY <1>3, <1>6, <3>2 DEF LateOf
      <4> QED
        BY <2>6, <4>1 DEF LateCounted
    <3>3. ASSUME NEW u \in Users, u = u0
          PROVE  Cardinality(LateOf(u)') + Cardinality(ClaimsOf(u)') <= Others
      <4>1. LateOf(u)' = LateOf(u) \cup {cur[w]} /\ cur[w] \notin LateOf(u)
        BY <1>1, <1>6, <2>1, <3>3 DEF LateOf
      <4>2. IsFiniteSet(LateOf(u)) /\ Cardinality(LateOf(u)) \in Nat
        BY LateFinite DEF LateCounted
      <4>3. Cardinality(LateOf(u)') = Cardinality(LateOf(u)) + 1
        BY <4>1, <4>2, FS_AddElement
      <4>4. IsFiniteSet(ClaimsOf(u)) /\ Cardinality(ClaimsOf(u)) \in Nat
        BY FewClaim DEF ClaimsOf
      <4>5. Cardinality(ClaimsOf(u)') = Cardinality(ClaimsOf(u)) - 1
        BY <1>3, <3>3, <4>4, FS_RemoveElement
      <4>6. Cardinality(LateOf(u)) + Cardinality(ClaimsOf(u)) <= Others
        BY <1>2, <2>6, <3>1, <3>3 DEF LateCounted
      <4> QED
        BY <4>2, <4>3, <4>4, <4>5, <4>6, OthersNat
    <3> HIDE DEF u0
    <3>4. ASSUME NEW u \in Users
          PROVE  IF Broken(u) THEN Cardinality(LateOf(u)') + Cardinality(ClaimsOf(u)') <= Others
                              ELSE LateOf(u)' = {}
      <4>1. CASE u = u0
        BY <3>1, <3>3, <4>1
      <4>2. CASE u # u0
        BY <3>2, <4>2
      <4> QED
        BY <4>1, <4>2
    <3> QED
      BY <1>1, <2>2, <2>3, <2>6, <3>4 DEF LateCounted
  <2> QED
    BY <2>5, <2>6
<1>7. \/ late' = late
      \/ late' = late \cup {cur[w]} /\ (StoppedAtFirst \/ Broken(u0)) /\ cur[w] \in Attempted'
  BY <1>1 DEF ClaimAttempt, Attempted, IInv, TypeOK
<1> QED
  BY <1>5, <1>6, <1>7

LEMMA StepLate ==
  ASSUME IInv, LateCounted, [Next]_vars
  PROVE  LateCounted'
<1>1. ASSUME NEW w \in Workers,
             \/ Receive(w) \/ CheckDone(w) \/ CheckUser(w) \/ HasBudget(w) \/ LimiterWait(w)
             \/ TestCredential(w) \/ Exit(w)
      PROVE  LateCounted'
  <2>1. UNCHANGED <<stopAtFirst, matched, late, tried>>
    BY <1>1 DEF Receive, CheckDone, CheckUser, HasBudget, LimiterWait, TestCredential, Exit,
                history
  <2>2. \A v \in Workers : v # w => pc'[v] = pc[v] /\ cur'[v] = cur[v]
    BY <1>1, WorkerMoves DEF WorkerStep
  <2>3. matched # <<>> /\ stopAtFirst => Done
    BY EmptySeq DEF Done, StoppedAtFirst, IInv, TypeOK
  <2>4. pc'[w] = "userAgain" => pc[w] = "doneAgain" /\ ~Done
    BY <1>1 DEF Receive, CheckDone, CheckUser, HasBudget, LimiterWait, TestCredential, Exit,
                Goto, At, IInv, TypeOK
  <2>5. pc'[w] = "claim" => pc[w] = "userAgain" /\ ~UserDone(UserOf[cur[w]]) /\ cur'[w] = cur[w]
    BY <1>1 DEF Receive, CheckDone, CheckUser, HasBudget, LimiterWait, TestCredential, Exit,
                Goto, At, IInv, TypeOK
  <2>6. \A u \in Users : Broken(u) => ClaimsOf(u)' \subseteq ClaimsOf(u)
    BY <2>2, <2>5 DEF ClaimsOf, Broken, UserDone
  <2>7. stopAtFirst /\ matched # <<>> => ClaimsAny' \subseteq ClaimsAny
    BY <2>2, <2>3, <2>4, <2>5 DEF ClaimsAny
  <2> QED
    BY <2>1, <2>6, <2>7, LateKept DEF Attempted
<1>2. CASE EnterDetect \/ Fingerprint \/ Cancel \/ Finish \/ Terminated \/ UNCHANGED vars
  <2>1. UNCHANGED <<stopAtFirst, matched, late, tried, pc, cur>>
    BY <1>2 DEF EnterDetect, Fingerprint, Cancel, Finish, Terminated, vars, poolVars, history
  <2>2. /\ Attempted' = Attempted /\ Others' = Others /\ ClaimsAny' = ClaimsAny
        /\ \A u : LateOf(u)' = LateOf(u) /\ ClaimsOf(u)' = ClaimsOf(u)
        /\ \A u : Broken(u)' <=> Broken(u)
    BY <2>1 DEF Attempted, Others, LateOf, ClaimsOf, ClaimsAny, Broken
  <2>3. CASE stopAtFirst
    BY <2>1, <2>2, <2>3 DEF LateCounted
  <2>4. CASE ~stopAtFirst
    BY <2>1, <2>2, <2>4 DEF LateCounted
  <2> QED
    BY <2>3, <2>4
<1> QED
  BY <1>1, <1>2, LateAtRecord, LateAtClaim DEF Next, WorkerStep

\* Stopping is prompt: a match for a user is followed by at most one more
\* candidate of that user from each other worker, and with stop-at-first by at
\* most one more candidate of any user.
THEOREM LateIsBounded == Spec => []LateAttemptsBounded
<1>1. Init => LateCounted
  BY DEF Init, LateCounted, Broken, LateOf
<1>2. IInv /\ LateCounted /\ [Next]_vars => (IInv /\ LateCounted)'
  BY StepIInv, StepLate
<1>3. IInv /\ LateCounted => LateAttemptsBounded
  <2> SUFFICES ASSUME IInv, LateCounted
               PROVE  LateAttemptsBounded
    OBVIOUS
  <2>1. /\ IsFiniteSet(late) /\ Cardinality(late) \in Nat
        /\ \A u : Cardinality(LateOf(u)) \in Nat
    BY LateFinite DEF LateCounted
  <2>2. Cardinality({}) = 0 /\ Others \in Nat
    BY FS_EmptySet, OthersNat
  <2>3. \A T : T \subseteq Workers => Cardinality(T) \in Nat
    <3>1. IsFiniteSet(Workers)
      BY WorkersNat, FS_Interval DEF Workers
    <3> QED
      BY <3>1, FS_Subset, FS_CardinalityType
  <2>4. Cardinality(ClaimsAny) \in Nat /\ \A u : Cardinality(ClaimsOf(u)) \in Nat
    BY <2>3 DEF ClaimsAny, ClaimsOf
  <2>5. CASE stopAtFirst
    <3>1. Cardinality(late) <= Others
      <4>1. CASE matched = <<>>
        BY <2>2, <2>5, <4>1, SMTT(30) DEF LateCounted
      <4>2. CASE matched # <<>>
        <5>1. Cardinality(late) + Cardinality(ClaimsAny) <= Others
          BY <2>5, <4>2 DEF LateCounted
        <5> QED
          BY <2>1, <2>2, <2>4, <5>1
      <4> QED
        BY <4>1, <4>2
    <3>2. \A u : Cardinality(LateOf(u)) <= Cardinality(late)
      BY <2>1, FS_Subset DEF LateOf
    <3>3. \A u : Cardinality(LateOf(u)) <= Others
      BY <2>1, <2>2, <3>1, <3>2
    <3> QED
      BY <3>1, <3>3 DEF LateAttemptsBounded, LateOf, Others
  <2>6. CASE ~stopAtFirst
    <3>1. ASSUME NEW u \in Users
          PROVE  Cardinality(LateOf(u)) <= Others
      <4>1. IF Broken(u) THEN Cardinality(LateOf(u)) + Cardinality(ClaimsOf(u)) <= Others
                         ELSE LateOf(u) = {}
        BY <2>6 DEF LateCounted
      <4> QED
        BY <2>1, <2>2, <2>4, <4>1
    <3> QED
      BY <2>6, <3>1 DEF LateAttemptsBounded, LateOf, Others
  <2> QED
    BY <2>5, <2>6
<1> QED
  BY <1>1, <1>2, <1>3, InitIInv, PTL DEF Spec

-----------------------------------------------------------------------------
(* One target.  Induction over a list: what a loop has made of the first n *)
(* elements.                                                               *)

LEMMA UpTo ==
  ASSUME NEW N \in Nat, NEW S, 0 \in S, \A k \in 1 .. N : k - 1 \in S => k \in S
  PROVE  \A n \in 0 .. N : n \in S
<1> DEFINE R == OpToRel(<, Nat)
           T == {n \in 0 .. N : n \notin S}
<1>1. IsWellFoundedOn(R, Nat)
  BY NatLessThanWellFounded
<1>2. \A x, y \in Nat : y < x => <<y, x>> \in R
  BY DEF OpToRel
<1> HIDE DEF R
<1> SUFFICES ASSUME T # {} PROVE FALSE
  OBVIOUS
<1>3. PICK x \in T : \A y \in T : ~ (<<y, x>> \in R)
  <2>1. T \subseteq Nat
    OBVIOUS
  <2> HIDE DEF T
  <2> QED
    BY <1>1, <2>1, WFMin
<1>4. x \in 1 .. N
  OBVIOUS
<1>5. x - 1 \in 0 .. N /\ x - 1 \in Nat /\ x \in Nat /\ x - 1 < x
  BY <1>4
<1>6. x - 1 \notin T
  BY Zenon, <1>2, <1>3, <1>5
<1>7. x \in S
  BY <1>4, <1>5, <1>6
<1> QED
  BY <1>7

\* A loop over N values v that appends those with an index in R, and what it
\* has made of the first n.
Appended(f, N, R, v) ==
  [k \in 0 .. N |-> IF k = 0 THEN <<>>
                    ELSE IF k \in R THEN Append(f[k - 1], v[k]) ELSE f[k - 1]]

LEMMA AppendedExists ==
  ASSUME NEW N \in Nat, NEW R, NEW v
  PROVE  \E f : f = Appended(f, N, R, v)
<1> DEFINE S == {n \in 0 .. N : \E f : f = Appended(f, n, R, v)}
<1>1. 0 \in S
  <2>1. [k \in 0 .. 0 |-> <<>>] = Appended([k \in 0 .. 0 |-> <<>>], 0, R, v)
    BY DEF Appended
  <2> QED
    BY <2>1
<1>2. ASSUME NEW n \in 1 .. N, n - 1 \in S
      PROVE  n \in S
  <2>1. PICK f : f = Appended(f, n - 1, R, v)
    BY <1>2
  <2> DEFINE g == Appended(f, n, R, v)
  <2>2. \A k \in 0 .. n - 1 : g[k] = f[k]
    <3> TAKE k \in 0 .. n - 1
    <3>1. k \in 0 .. n
      OBVIOUS
    <3>2. f[k] = IF k = 0 THEN <<>> ELSE IF k \in R THEN Append(f[k - 1], v[k]) ELSE f[k - 1]
      BY <2>1 DEF Appended
    <3> QED
      BY <3>1, <3>2 DEF Appended
  <2>3. g = Appended(g, n, R, v)
    <3>1. \A k \in 0 .. n : k # 0 => g[k - 1] = f[k - 1]
      BY <2>2
    <3> HIDE DEF g
    <3>2. Appended(f, n, R, v) = Appended(g, n, R, v)
      BY <3>1 DEF Appended
    <3> QED
      BY <3>2 DEF g
  <2> QED
    BY <2>3
<1> HIDE DEF S
<1>3. \A n \in 0 .. N : n \in S
  BY <1>1, <1>2, UpTo
<1>4. N \in S
  BY <1>3
<1> QED
  BY <1>4 DEF S

Collected(s, n, R, v, V) ==
  /\ s \in Seq(V)
  /\ \A j \in DOMAIN s : \E i \in 1 .. n : i \in R /\ s[j] = v[i]
  /\ \A i \in 1 .. n : i \in R => \E j \in DOMAIN s : s[j] = v[i]
  /\ \A a, b \in DOMAIN s : s[a].endpoint.port = s[b].endpoint.port => a = b

LEMMA AppendedCollects ==
  ASSUME NEW N \in Nat, NEW R, NEW V, NEW v, \A i \in 1 .. N : v[i] \in V,
         \A i, j \in 1 .. N : v[i].endpoint.port = v[j].endpoint.port => i = j,
         NEW f, f = Appended(f, N, R, v)
  PROVE  \A n \in 0 .. N : Collected(f[n], n, R, v, V)
<1> DEFINE S == {n \in 0 .. N : Collected(f[n], n, R, v, V)}
<1>1. 0 \in S
  <2>1. f[0] = <<>>
    BY DEF Appended
  <2>2. <<>> \in Seq(V) /\ DOMAIN <<>> = {}
    OBVIOUS
  <2>3. Collected(<<>>, 0, R, v, V)
    BY <2>2 DEF Collected
  <2> QED
    BY <2>1, <2>3
<1>2. ASSUME NEW n \in 1 .. N, n - 1 \in S
      PROVE  n \in S
  <2>1. Collected(f[n - 1], n - 1, R, v, V)
    BY <1>2
  <2>2. n \in 0 .. N /\ n # 0 /\ v[n] \in V
    OBVIOUS
  <2>3. f[n] = IF n \in R THEN Append(f[n - 1], v[n]) ELSE f[n - 1]
    BY <2>2 DEF Appended
  <2>4. \A i \in 1 .. n : i = n \/ i \in 1 .. n - 1
    OBVIOUS
  <2>5. \A i \in 1 .. n - 1 : i \in 1 .. n /\ i # n /\ i \in 1 .. N
    OBVIOUS
  <2>6. CASE n \in R
    <3> DEFINE s == f[n - 1]
               t == f[n]
    <3>1. s \in Seq(V) /\ t = Append(s, v[n])
      BY <2>1, <2>3, <2>6 DEF Collected
    <3> HIDE DEF s, t
    <3>2. Len(s) \in Nat /\ DOMAIN s = 1 .. Len(s) /\ DOMAIN t = 1 .. Len(s) + 1
      BY <2>2, <3>1
    <3>3. t \in Seq(V) /\ t[Len(s) + 1] = v[n] /\ \A j \in DOMAIN s : t[j] = s[j]
      BY <2>2, <3>1
    <3>4. \A j \in DOMAIN t : j = Len(s) + 1 \/ j \in DOMAIN s
      BY <3>2
    <3>5. \A j \in DOMAIN s : j \in DOMAIN t /\ j # Len(s) + 1
      BY <3>2
    <3>6. Len(s) + 1 \in DOMAIN t
      BY <3>2
    <3>7. \A j \in DOMAIN s : \E i \in 1 .. n - 1 : i \in R /\ s[j] = v[i]
      BY <2>1 DEF Collected, s
    <3>8. \A j \in DOMAIN t : \E i \in 1 .. n : i \in R /\ t[j] = v[i]
      BY <2>4, <2>5, <2>6, <3>3, <3>4, <3>7
    <3>9. \A i \in 1 .. n : i \in R => \E j \in DOMAIN t : t[j] = v[i]
      <4>1. \A i \in 1 .. n - 1 : i \in R => \E j \in DOMAIN s : s[j] = v[i]
        BY <2>1 DEF Collected, s
      <4> QED
        BY <2>4, <3>3, <3>5, <3>6, <4>1
    <3>10. \A j \in DOMAIN s : s[j].endpoint.port # v[n].endpoint.port
      BY <2>5, <3>7
    <3>11. \A a, b \in DOMAIN t : t[a].endpoint.port = t[b].endpoint.port => a = b
      <4>1. \A a, b \in DOMAIN s : s[a].endpoint.port = s[b].endpoint.port => a = b
        BY <2>1 DEF Collected, s
      <4> QED
        BY <3>3, <3>4, <3>10, <4>1
    <3> QED
      BY <3>3, <3>8, <3>9, <3>11 DEF Collected, t
  <2>7. CASE n \notin R
    <3> DEFINE s == f[n - 1]
    <3>1. Collected(s, n - 1, R, v, V) /\ f[n] = s
      BY <2>1, <2>3, <2>7
    <3> HIDE DEF s
    <3>2. \A j \in DOMAIN s : \E i \in 1 .. n : i \in R /\ s[j] = v[i]
      BY <2>5, <3>1 DEF Collected
    <3>3. \A i \in 1 .. n : i \in R => \E j \in DOMAIN s : s[j] = v[i]
      BY <2>4, <2>7, <3>1 DEF Collected
    <3>4. Collected(s, n, R, v, V)
      BY <3>1, <3>2, <3>3 DEF Collected
    <3> QED
      BY <3>1, <3>4
  <2> QED
    BY <2>6, <2>7
<1> HIDE DEF S
<1>3. \A n \in 0 .. N : n \in S
  BY <1>1, <1>2, UpTo
<1> QED
  BY <1>3 DEF S

\* As many values as indices, if no two indices have the same.
LEMMA CountedOnce ==
  ASSUME NEW n \in Nat, NEW T, NEW f \in [1 .. n -> T],
         \A t \in T : \E i \in 1 .. n : f[i] = t,
         \A i, j \in 1 .. n : f[i] = f[j] => i = j
  PROVE  IsFiniteSet(T) /\ Cardinality(T) = n
<1>1. f \in Injection(1 .. n, T)
  BY DEF Injection, IsInjective
<1>2. f \in Surjection(1 .. n, T)
  BY DEF Surjection
<1>3. ExistsBijection(1 .. n, T)
  BY <1>1, <1>2 DEF ExistsBijection, Bijection
<1> QED
  BY <1>3, FS_CountingElements, FS_NatBijection

-----------------------------------------------------------------------------
(* What a scanner may report.                                              *)

\* Where it is: at the target's address or name, or at nmap's reverse name.
Located(ip, host) ==
  CASE host = "" -> ip = cfg.target
    [] host = "name" -> cfg.target = "name"
    [] OTHER -> cfg.scanner = "nmap" /\ IsIP(cfg.target) /\ cfg.ptr = host

Endpoints ==
  {e \in [type : {"IP_PORT", "HOSTNAME_PORT", "IP_HOSTNAME_PORT"}, ip : {"", "v4", "v6"},
          host : {"", "name", "ptr"}, port : DOMAIN cfg.host] : Located(e.ip, e.host)}

Services ==
  [endpoint : Endpoints, transport : {"unspecified", "tcp", "udp"},
   name : {"", "unknown", "ssh", "http", "https"},
   methods : {<<>>, <<"GET">>, <<"GET", "POST">>},
   tls : {<<>>, <<"TLSv1.2">>, <<"TLSv1.3">>}]

PortOf(s) == s.endpoint.port

\* Nothing is claimed of a service that is not so, at the target or where it is
\* dialled.
Truthful(s) ==
  /\ HasTLS(s) => Listening(PortOf(s)).tls \/ Dialled(s.endpoint).tls
  /\ IsWebService(s) => Listening(PortOf(s)).http \/ Dialled(s.endpoint).http

Wanted == {p \in ToSet(portsToScan) : Expected(p)}

\* The report, at any time: services of requested ports that are there, each
\* of another port.
Reports ==
  /\ services \in Seq(Services)
  /\ \A k \in DOMAIN services : PortOf(services[k]) \in Wanted /\ Truthful(services[k])
  /\ \A a, b \in DOMAIN services : PortOf(services[a]) = PortOf(services[b]) => a = b

LEMMA Settings ==
  ASSUME cfg \in Setups
  PROVE  /\ cfg.scanner \in {"nmap", "httpscan", "noop"}
         /\ cfg.target \in {"v4", "v6", "name"}
         /\ cfg.host \in Seq(Listeners)
         /\ cfg.ptr \in {"", "ptr"}
         /\ cfg.ptrHost \in Seq(Listeners) /\ Len(cfg.ptrHost) = Len(cfg.host)
         /\ cfg.ports \in Seq(DOMAIN cfg.host)
         /\ \A i, j \in DOMAIN cfg.ports : cfg.ports[i] = cfg.ports[j] => i = j
         /\ cfg.fps \in Seq({"sslsupport", "iswebservice"})
BY ScanAssumption, TargetAssumption

LEMMA PortsListed ==
  ASSUME cfg \in Setups
  PROVE  /\ portsToScan \in Seq(DOMAIN cfg.host)
         /\ Len(portsToScan) \in Nat
         /\ DOMAIN portsToScan = 1 .. Len(portsToScan)
         /\ \A i \in DOMAIN portsToScan : portsToScan[i] \in DOMAIN cfg.host
         /\ \A i, j \in DOMAIN portsToScan : portsToScan[i] = portsToScan[j] => i = j
         /\ ToSet(portsToScan) \subseteq DOMAIN cfg.host
         /\ IsFiniteSet(DOMAIN cfg.host)
<1>1. cfg.host \in Seq(Listeners) /\ cfg.ports \in Seq(DOMAIN cfg.host)
  BY Settings
<1>2. Len(cfg.host) \in Nat /\ DOMAIN cfg.host = 1 .. Len(cfg.host)
  BY <1>1, LenProperties
<1>3. /\ portsToScan \in Seq(DOMAIN cfg.host)
      /\ \A i, j \in DOMAIN portsToScan : portsToScan[i] = portsToScan[j] => i = j
  <2>1. CASE cfg.ports = <<>>
    <3> DEFINE q == [p \in DOMAIN cfg.host |-> p]
    <3>1. portsToScan = q
      BY <2>1 DEF portsToScan
    <3>2. q \in [1 .. Len(cfg.host) -> DOMAIN cfg.host]
      BY <1>2
    <3>3. q \in Seq(DOMAIN cfg.host)
      BY <1>2, <3>2
    <3>4. \A i, j \in DOMAIN q : q[i] = q[j] => i = j
      OBVIOUS
    <3> QED
      BY <3>1, <3>3, <3>4
  <2>2. CASE cfg.ports # <<>>
    BY <2>2, Settings DEF portsToScan
  <2> QED
    BY <2>1, <2>2
<1>4. /\ Len(portsToScan) \in Nat /\ DOMAIN portsToScan = 1 .. Len(portsToScan)
      /\ \A i \in DOMAIN portsToScan : portsToScan[i] \in DOMAIN cfg.host
  BY <1>3, LenProperties, ElementOfSeq
<1>5. ToSet(portsToScan) \subseteq DOMAIN cfg.host
  BY <1>4 DEF ToSet
<1>6. IsFiniteSet(DOMAIN cfg.host)
  BY <1>2, FS_Interval
<1> QED
  BY <1>3, <1>4, <1>5, <1>6

LEMMA ListenerKnown ==
  ASSUME cfg \in Setups, NEW p \in DOMAIN cfg.host
  PROVE  LET n == Listening(p) IN
         /\ n.open \in BOOLEAN /\ n.http \in BOOLEAN /\ n.tls \in BOOLEAN
         /\ n.plain # 0 => n.http
         /\ n.http /\ ~n.tls => n.plain # 0
<1>1. cfg.host \in Seq(Listeners) /\ DOMAIN cfg.host = 1 .. Len(cfg.host)
  BY Settings, LenProperties
<1>2. cfg.host[p] \in Listeners
  BY Zenon, <1>1, ElementOfSeq
<1> QED
  BY <1>2 DEF Listeners, Listening

LEMMA DialledKnown ==
  ASSUME cfg \in Setups, NEW e, e.port \in DOMAIN cfg.host
  PROVE  LET n == Dialled(e) IN
         /\ n.open \in BOOLEAN /\ n.http \in BOOLEAN /\ n.tls \in BOOLEAN
         /\ n.plain # 0 => n.http
         /\ n.http /\ ~n.tls => n.plain # 0
<1>1. /\ cfg.host \in Seq(Listeners) /\ DOMAIN cfg.host = 1 .. Len(cfg.host)
      /\ cfg.ptrHost \in Seq(Listeners) /\ DOMAIN cfg.ptrHost = 1 .. Len(cfg.ptrHost)
      /\ Len(cfg.ptrHost) = Len(cfg.host)
  BY Settings, LenProperties
<1>2. cfg.host[e.port] \in Listeners /\ cfg.ptrHost[e.port] \in Listeners
  <2>1. e.port \in 1 .. Len(cfg.host) /\ e.port \in 1 .. Len(cfg.ptrHost)
    BY Zenon, <1>1
  <2> QED
    BY Zenon, <1>1, <2>1, ElementOfSeq
<1>3. Dialled(e) \in Listeners
  BY <1>2 DEF Dialled, Listening
<1> QED
  BY <1>3 DEF Listeners

\* As long as the target stays, so does what is to be reported of it.
LEMMA TargetStays ==
  ASSUME cfg' = cfg
  PROVE  /\ portsToScan' = portsToScan /\ Endpoints' = Endpoints /\ Services' = Services
         /\ Wanted' = Wanted
         /\ \A p : Listening(p)' = Listening(p)
         /\ \A e : Dialled(e)' = Dialled(e)
         /\ \A p : Expected(p)' <=> Expected(p)
         /\ \A s : Truthful(s)' <=> Truthful(s)
<1>1. portsToScan' = portsToScan
  BY DEF portsToScan
<1>2. \A p : Listening(p)' = Listening(p)
  BY DEF Listening
<1>3. \A p : Expected(p)' <=> Expected(p)
  BY DEF Listening, Expected
<1>4. Endpoints' = Endpoints
  BY DEF Endpoints, Located
<1>5. Services' = Services
  BY <1>4 DEF Services
<1>6. Wanted' = Wanted
  BY <1>1, <1>3 DEF Wanted
<1>7. \A e : Dialled(e)' = Dialled(e)
  BY <1>2 DEF Dialled
<1>8. \A s : Truthful(s)' <=> Truthful(s)
  BY <1>2, <1>7 DEF Truthful, HasTLS, IsWebService, PortOf
<1> QED
  BY <1>1, <1>2, <1>3, <1>4, <1>5, <1>6, <1>7, <1>8

LEMMA Promoted ==
  ASSUME NEW t, NEW i, NEW h, NEW p
  PROVE  WithPort([type |-> t, ip |-> i, host |-> h, port |-> 0], p)
           = [type |-> PortType[t], ip |-> i, host |-> h, port |-> p]
<1> DEFINE q == PortType[t]
<1>1. [[type |-> t, ip |-> i, host |-> h, port |-> 0] EXCEPT !.type = q]
        = [type |-> q, ip |-> i, host |-> h, port |-> 0]
  OBVIOUS
<1>2. [[type |-> q, ip |-> i, host |-> h, port |-> 0] EXCEPT !.port = p]
        = [type |-> q, ip |-> i, host |-> h, port |-> p]
  OBVIOUS
<1> QED
  BY <1>1, <1>2 DEF WithPort

LEMMA PortTypes ==
  /\ PortType["IP"] = "IP_PORT"
  /\ PortType["HOSTNAME"] = "HOSTNAME_PORT"
  /\ PortType["IP_HOSTNAME"] = "IP_HOSTNAME_PORT"
BY DEF PortType

LEMMA IsEndpoint ==
  ASSUME NEW p \in DOMAIN cfg.host, NEW t \in {"IP_PORT", "HOSTNAME_PORT", "IP_HOSTNAME_PORT"},
         NEW i \in {"", "v4", "v6"}, NEW h \in {"", "name", "ptr"}, Located(i, h)
  PROVE  [type |-> t, ip |-> i, host |-> h, port |-> p] \in Endpoints
<1> DEFINE e == [type |-> t, ip |-> i, host |-> h, port |-> p]
<1>1. e \in [type : {"IP_PORT", "HOSTNAME_PORT", "IP_HOSTNAME_PORT"}, ip : {"", "v4", "v6"},
             host : {"", "name", "ptr"}, port : DOMAIN cfg.host]
  OBVIOUS
<1>2. e.host = h /\ e.ip = i
  OBVIOUS
<1> QED
  BY <1>1, <1>2 DEF Endpoints

\* What httpscan and noop make of a port.
LEMMA NewFound ==
  ASSUME cfg \in Setups, NEW p \in DOMAIN cfg.host
  PROVE  /\ Endpoint(p) \in Endpoints
         /\ NewService(Endpoint(p), "unspecified", "") \in Services
         /\ PortOf(NewService(Endpoint(p), "unspecified", "")) = p
         /\ IsIP(cfg.target) => Endpoint(p).ip = cfg.target
         /\ Truthful(NewService(Endpoint(p), "unspecified", ""))
<1>1. cfg.target \in {"v4", "v6", "name"}
  BY Settings
<1>2. IsIP(cfg.target) => Endpoint(p) \in Endpoints /\ Endpoint(p).port = p
                           /\ Endpoint(p).ip = cfg.target
  <2> HAVE IsIP(cfg.target)
  <2>1. FromString(cfg.target) = [type |-> "IP", ip |-> cfg.target, host |-> "", port |-> 0]
    BY DEF FromString
  <2>2. Endpoint(p) = [type |-> "IP_PORT", ip |-> cfg.target, host |-> "", port |-> p]
    <3>1. WithPort([type |-> "IP", ip |-> cfg.target, host |-> "", port |-> 0], p)
            = [type |-> PortType["IP"], ip |-> cfg.target, host |-> "", port |-> p]
      BY Zenon, Promoted
    <3> QED
      BY <2>1, <3>1, PortTypes DEF Endpoint
  <2>3. cfg.target \in {"", "v4", "v6"}
    BY DEF IsIP
  <2>4. [type |-> "IP_PORT", ip |-> cfg.target, host |-> "", port |-> p] \in Endpoints
    <3>1. Located(cfg.target, "")
      BY DEF Located
    <3> QED
      BY <2>3, <3>1, IsEndpoint
  <2>5. /\ [type |-> "IP_PORT", ip |-> cfg.target, host |-> "", port |-> p].port = p
        /\ [type |-> "IP_PORT", ip |-> cfg.target, host |-> "", port |-> p].ip = cfg.target
    OBVIOUS
  <2> QED
    BY Zenon, <2>2, <2>4, <2>5
<1>3. ~IsIP(cfg.target) => Endpoint(p) \in Endpoints /\ Endpoint(p).port = p
  <2> HAVE ~IsIP(cfg.target)
  <2>1. FromString(cfg.target) = [type |-> "HOSTNAME", ip |-> "", host |-> cfg.target, port |-> 0]
    BY DEF FromString
  <2>2. Endpoint(p) = [type |-> "HOSTNAME_PORT", ip |-> "", host |-> cfg.target, port |-> p]
    <3>1. WithPort([type |-> "HOSTNAME", ip |-> "", host |-> cfg.target, port |-> 0], p)
            = [type |-> PortType["HOSTNAME"], ip |-> "", host |-> cfg.target, port |-> p]
      BY Zenon, Promoted
    <3> QED
      BY <2>1, <3>1, PortTypes DEF Endpoint
  <2>3. cfg.target = "name"
    BY <1>1 DEF IsIP
  <2>4. [type |-> "HOSTNAME_PORT", ip |-> "", host |-> "name", port |-> p] \in Endpoints
    <3>1. Located("", "name")
      BY <2>3 DEF Located
    <3> QED
      BY <3>1, IsEndpoint
  <2>5. [type |-> "HOSTNAME_PORT", ip |-> "", host |-> "name", port |-> p].port = p
    OBVIOUS
  <2> QED
    BY Zenon, <2>2, <2>3, <2>4, <2>5
<1>4. Endpoint(p) \in Endpoints /\ Endpoint(p).port = p
      /\ (IsIP(cfg.target) => Endpoint(p).ip = cfg.target)
  BY <1>2, <1>3
<1> QED
  BY <1>4 DEF NewService, Services, PortOf, Truthful, HasTLS, IsWebService


-----------------------------------------------------------------------------
(* What processResults makes of nmap's output.                             *)

\* The address as nmap writes it, or nothing in its place.
LEMMA AddressFound ==
  ASSUME cfg \in Setups, NEW host, host \in {HostFound, [HostFound EXCEPT !.addresses = <<>>]}
  PROVE  LET i == parseNetworkEndpoint(host).ip IN
         /\ i \in {"", "v4", "v6"}
         /\ host.addresses = <<>> <=> i = ""
         /\ host = HostFound /\ IsIP(cfg.target) => i = cfg.target
         /\ i # "" /\ IsIP(cfg.target) => i = cfg.target
         /\ host.hostnames = HostFound.hostnames
<1> DEFINE v == IF IsIP(cfg.target) THEN cfg.target ELSE "v4"
           hs == HostFound.hostnames
<1>1. HostFound = [addresses |-> <<v>>, hostnames |-> hs]
  BY DEF HostFound
<1>2. v \in {"v4", "v6"} /\ (IsIP(cfg.target) => v = cfg.target)
  BY DEF IsIP
<1>3. parseNetworkEndpoint(host).ip = IF host.addresses = <<>> THEN "" ELSE host.addresses[1]
  BY DEF parseNetworkEndpoint
<1> HIDE DEF v, hs
<1>4. HostFound.addresses = <<v>> /\ HostFound.hostnames = hs
  BY <1>1
<1>5. <<v>>[1] = v /\ <<v>> # <<>>
  OBVIOUS
<1>6. CASE host = HostFound
  <2>1. host.addresses # <<>> /\ parseNetworkEndpoint(host).ip = v /\ host.hostnames = hs
    BY Zenon, <1>3, <1>4, <1>5, <1>6
  <2> QED
    BY <1>2, <1>4, <2>1
<1>7. CASE host = [HostFound EXCEPT !.addresses = <<>>] /\ host # HostFound
  <2>1. host.addresses = <<>> /\ host.hostnames = hs
    BY <1>1, <1>7
  <2>2. parseNetworkEndpoint(host).ip = ""
    BY <1>3, <2>1
  <2> QED
    BY <1>4, <1>7, <2>1, <2>2 DEF IsIP
<1> QED
  BY <1>6, <1>7

\* The name: the one given, or else the reverse name.
LEMMA NameFound ==
  ASSUME cfg \in Setups, NEW host, host.hostnames = HostFound.hostnames
  PROVE  LET h == parseNetworkEndpoint(host).host IN
         /\ h = IF IsIP(cfg.target) THEN cfg.ptr ELSE cfg.target
         /\ host.hostnames = <<>> <=> h = ""
<1> DEFINE g == IF IsIP(cfg.target) THEN <<>> ELSE <<cfg.target>>
           r == IF cfg.ptr = "" THEN <<>> ELSE <<cfg.ptr>>
           hs == host.hostnames
<1>1. hs = g \o r
  BY DEF HostFound
<1>2. parseNetworkEndpoint(host).host = IF hs = <<>> THEN "" ELSE hs[1]
  BY DEF parseNetworkEndpoint
<1>3. cfg.ptr \in {"", "ptr"} /\ (~IsIP(cfg.target) => cfg.target = "name")
  BY Settings DEF IsIP
<1> HIDE DEF hs
<1>4. CASE IsIP(cfg.target) /\ cfg.ptr = ""
  <2>1. g = <<>> /\ r = <<>>
    BY <1>4
  <2>2. hs = <<>>
    <3> HIDE DEF g, r
    <3>1. <<>> \o <<>> = <<>>
      <4>1. \A s \in Seq(STRING) : s \o <<>> = s
        BY ConcatEmptySeq
      <4>2. <<>> \in Seq(STRING)
        BY EmptySeq
      <4> QED
        BY Zenon, <4>1, <4>2
    <3> QED
      BY Zenon, <1>1, <2>1, <3>1
  <2> QED
    BY <1>2, <1>4, <2>2 DEF hs
<1>5. CASE IsIP(cfg.target) /\ cfg.ptr = "ptr"
  <2>1. hs = <<>> \o <<"ptr">>
    BY <1>1, <1>5
  <2>2. <<>> \o <<"ptr">> = <<"ptr">> /\ <<"ptr">>[1] = "ptr" /\ <<"ptr">> # <<>>
    OBVIOUS
  <2>3. parseNetworkEndpoint(host).host = "ptr" /\ hs # <<>>
    BY Zenon, <1>2, <2>1, <2>2
  <2> QED
    BY <1>5, <2>3 DEF hs
<1>6. CASE ~IsIP(cfg.target)
  <2>1. g = <<"name">> /\ (r = <<>> \/ r = <<"ptr">>)
    BY <1>3, <1>6
  <2>2. \A t \in {<<>>, <<"ptr">>} : <<"name">> \o t # <<>> /\ (<<"name">> \o t)[1] = "name"
    OBVIOUS
  <2> HIDE DEF g, r
  <2>3. hs # <<>> /\ hs[1] = "name"
    BY <1>1, <2>1, <2>2
  <2>4. parseNetworkEndpoint(host).host = "name"
    BY <1>2, <2>3
  <2> QED
    BY <1>3, <1>6, <2>3, <2>4 DEF hs
<1> QED
  BY <1>3, <1>4, <1>5, <1>6

LEMMA HostParsed ==
  ASSUME cfg \in Setups, cfg.scanner = "nmap", NEW p \in DOMAIN cfg.host,
         NEW host, host \in {HostFound, [HostFound EXCEPT !.addresses = <<>>]},
         ~NoAddressOrHostname(host)
  PROVE  LET e == WithPort(parseNetworkEndpoint(host), p) IN
         /\ e \in Endpoints
         /\ e.port = p
         /\ host = HostFound /\ IsIP(cfg.target) => e.ip = cfg.target
<1> DEFINE q == parseNetworkEndpoint(host)
           t == q.type
           i == q.ip
           h == q.host
           e == [type |-> PortType[t], ip |-> i, host |-> h, port |-> p]
<1>1. cfg.target \in {"v4", "v6", "name"} /\ cfg.ptr \in {"", "ptr"}
  BY Settings
<1>2. q = [type |-> t, ip |-> i, host |-> h, port |-> 0] /\ t \in {"IP", "HOSTNAME", "IP_HOSTNAME"}
  BY DEF parseNetworkEndpoint
<1>3. /\ i \in {"", "v4", "v6"}
      /\ host.addresses = <<>> <=> i = ""
      /\ host = HostFound /\ IsIP(cfg.target) => i = cfg.target
      /\ i # "" /\ IsIP(cfg.target) => i = cfg.target
      /\ host.hostnames = HostFound.hostnames
  BY AddressFound
<1>4. /\ h = IF IsIP(cfg.target) THEN cfg.ptr ELSE cfg.target
      /\ host.hostnames = <<>> <=> h = ""
  BY <1>3, NameFound
<1>5. i # "" \/ h # ""
  BY <1>3, <1>4 DEF NoAddressOrHostname
<1> HIDE DEF q, t, i, h
<1>6. WithPort(q, p) = e
  <2>1. WithPort([type |-> t, ip |-> i, host |-> h, port |-> 0], p) = e
    BY Zenon, Promoted
  <2> QED
    BY <1>2, <2>1
<1>7. PortType[t] \in {"IP_PORT", "HOSTNAME_PORT", "IP_HOSTNAME_PORT"}
  BY <1>2, PortTypes
<1>8. h \in {"", "name", "ptr"} /\ Located(i, h)
  BY <1>1, <1>3, <1>4, <1>5 DEF Located, IsIP
<1>9. e \in Endpoints
  BY <1>3, <1>7, <1>8, IsEndpoint
<1>10. e.port = p /\ e.ip = i
  OBVIOUS
<1> QED
  BY <1>3, <1>6, <1>9, <1>10 DEF q

LEMMA PortFound ==
  ASSUME cfg \in Setups, NEW k \in DOMAIN portsToScan
  PROVE  LET n == Listening(portsToScan[k])
             q == PortsFound[k]
         IN  /\ q.id = portsToScan[k]
             /\ q.protocol \in {"tcp", "udp"}
             /\ q.state = "open" <=> n.open
             /\ q.service \in {"absent", "unknown", "ssh", "http", "https"}
             /\ q.methods \in {<<>>, <<"GET", "POST">>} /\ (q.methods # <<>> => n.http)
             /\ q.tls \in {<<>>, <<"TLSv1.2">>} /\ (q.tls # <<>> => n.tls)
<1> DEFINE n == Listening(portsToScan[k])
<1>1. k \in 1 .. Len(portsToScan) /\ portsToScan[k] \in DOMAIN cfg.host
  BY PortsListed
<1>2. PortsFound[k] =
        [id |-> portsToScan[k],
         protocol |-> Transport,
         state |-> IF n.open THEN "open" ELSE "closed",
         service |-> IF cfg.versions \/ Name(n) # "unknown" THEN Name(n) ELSE "absent",
         methods |-> IF cfg.scripts /\ n.http /\ Transport = "tcp" THEN <<"GET", "POST">> ELSE <<>>,
         tls |-> IF cfg.scripts /\ n.tls /\ Transport = "tcp" THEN <<"TLSv1.2">> ELSE <<>>]
  BY <1>1 DEF PortsFound
<1>3. Transport \in {"tcp", "udp"}
  BY DEF Transport
<1>4. Name(n) \in {"unknown", "ssh", "http", "https"}
  BY DEF Name
<1> HIDE DEF n
<1>5. /\ PortsFound[k].id = portsToScan[k]
      /\ PortsFound[k].protocol \in {"tcp", "udp"}
      /\ PortsFound[k].state = "open" <=> n.open
  BY <1>2, <1>3
<1>6. PortsFound[k].service \in {"absent", "unknown", "ssh", "http", "https"}
  BY <1>2, <1>4
<1>7. /\ PortsFound[k].methods \in {<<>>, <<"GET", "POST">>}
      /\ PortsFound[k].methods # <<>> => n.http
  BY <1>2
<1>8. /\ PortsFound[k].tls \in {<<>>, <<"TLSv1.2">>}
      /\ PortsFound[k].tls # <<>> => n.tls
  BY <1>2
<1> QED
  BY <1>5, <1>6, <1>7, <1>8 DEF n

LEMMA ServiceParsed ==
  ASSUME cfg \in Setups, cfg.scanner = "nmap", NEW k \in DOMAIN portsToScan,
         NEW host, host \in {HostFound, [HostFound EXCEPT !.addresses = <<>>]},
         ~NoAddressOrHostname(host)
  PROVE  LET s == parseService(parseNetworkEndpoint(host), PortsFound[k]) IN
         /\ s \in Services /\ PortOf(s) = portsToScan[k] /\ Truthful(s)
         /\ host = HostFound /\ IsIP(cfg.target) => s.endpoint.ip = cfg.target
<1> DEFINE q == PortsFound[k]
           n == Listening(portsToScan[k])
           e == WithPort(parseNetworkEndpoint(host), portsToScan[k])
           new == NewService(e, q.protocol, "unknown")
           s == parseService(parseNetworkEndpoint(host), q)
<1>1. portsToScan[k] \in DOMAIN cfg.host
  BY PortsListed
<1>2. /\ e \in Endpoints /\ e.port = portsToScan[k]
      /\ host = HostFound /\ IsIP(cfg.target) => e.ip = cfg.target
  BY <1>1, HostParsed
<1>3. /\ q.id = portsToScan[k]
      /\ q.protocol \in {"tcp", "udp"}
      /\ q.service \in {"absent", "unknown", "ssh", "http", "https"}
      /\ q.methods \in {<<>>, <<"GET", "POST">>} /\ (q.methods # <<>> => n.http)
      /\ q.tls \in {<<>>, <<"TLSv1.2">>} /\ (q.tls # <<>> => n.tls)
  BY PortFound
<1>4. s = IF q.service = "absent" THEN new
          ELSE [new EXCEPT !.name = q.service, !.methods = q.methods, !.tls = q.tls]
  BY <1>3 DEF parseService
<1> HIDE DEF q, n, e, s
<1>5. new = [endpoint |-> e, transport |-> q.protocol, name |-> "unknown",
             methods |-> <<>>, tls |-> <<>>]
  BY DEF NewService
<1> HIDE DEF new
<1>6. CASE q.service = "absent"
  <2>1. s = [endpoint |-> e, transport |-> q.protocol, name |-> "unknown",
             methods |-> <<>>, tls |-> <<>>]
    BY <1>4, <1>5, <1>6
  <2>2. s \in Services /\ PortOf(s) = portsToScan[k] /\ Truthful(s) /\ s.endpoint = e
    BY <1>2, <1>3, <2>1 DEF Services, PortOf, Truthful, HasTLS, IsWebService
  <2> QED
    BY <1>2, <2>2 DEF s, q
<1>7. CASE q.service # "absent"
  <2>1. s = [endpoint |-> e, transport |-> q.protocol, name |-> q.service,
             methods |-> q.methods, tls |-> q.tls]
    BY <1>4, <1>5, <1>7
  <2>2. s \in Services /\ PortOf(s) = portsToScan[k] /\ Truthful(s) /\ s.endpoint = e
    BY <1>2, <1>3, <1>7, <2>1 DEF Services, PortOf, Truthful, HasTLS, IsWebService, n
  <2> QED
    BY <1>2, <2>2 DEF s, q
<1> QED
  BY <1>6, <1>7


LEMMA ServicesDefined ==
  ASSUME cfg \in Setups, NEW e
  PROVE  LET N == Len(portsToScan)
             R == {k \in 1 .. N : Reportable(PortsFound[k])}
             v == [k \in 1 .. N |-> parseService(e, PortsFound[k])]
         IN  \E f : f = Appended(f, N, R, v) /\ ServicesAt(e) = f[N]
<1> DEFINE N == Len(portsToScan)
           R == {k \in 1 .. N : Reportable(PortsFound[k])}
           v == [k \in 1 .. N |-> parseService(e, PortsFound[k])]
           Loop(f) == [k \in 0 .. N |->
                         IF k = 0 THEN <<>>
                         ELSE IF Reportable(PortsFound[k])
                         THEN Append(f[k - 1], parseService(e, PortsFound[k]))
                         ELSE f[k - 1]]
<1>1. N \in Nat
  BY PortsListed
<1>2. Len(PortsFound) = N
  <2>1. DOMAIN PortsFound = 1 .. N
    BY DEF PortsFound
  <2> HIDE DEF N
  <2>2. \E n \in Nat : DOMAIN PortsFound = 1 .. n
    BY <1>1, <2>1
  <2>3. PortsFound = [k \in 1 .. N |-> PortsFound[k]]
    BY <2>1 DEF PortsFound, N
  <2> QED
    BY <1>1, <2>1, <2>3
<1>3. \A f : Loop(f) = Appended(f, N, R, v)
  <2> TAKE f
  <2>1. \A k \in 0 .. N : k = 0 \/ k \in 1 .. N
    BY <1>1
  <2>2. \A k \in 1 .. N : (k \in R <=> Reportable(PortsFound[k]))
                           /\ v[k] = parseService(e, PortsFound[k])
    OBVIOUS
  <2> HIDE DEF N, R, v
  <2>3. \A k \in 0 .. N :
          (IF k = 0 THEN <<>>
           ELSE IF Reportable(PortsFound[k])
           THEN Append(f[k - 1], parseService(e, PortsFound[k])) ELSE f[k - 1])
          = (IF k = 0 THEN <<>>
             ELSE IF k \in R THEN Append(f[k - 1], v[k]) ELSE f[k - 1])
    BY <2>1, <2>2
  <2> QED
    BY <2>3 DEF Appended
<1> DEFINE Of == CHOOSE f : f = Loop(f)
<1>4. ServicesAt(e) = Of[N]
  BY Zenon, <1>2 DEF ServicesAt
<1>5. \E f : f = Appended(f, N, R, v)
  BY <1>1, AppendedExists
<1> HIDE DEF Loop, N, R, v
<1>6. \E f : f = Loop(f)
  BY <1>3, <1>5
<1>7. Of = Loop(Of)
  BY <1>6
<1> HIDE DEF Of
<1>8. Of = Appended(Of, N, R, v)
  BY <1>3, <1>7
<1> QED
  BY <1>4, <1>8 DEF N, R, v

\* nmap's report: each requested port that is open, once.
LEMMA ServicesFound ==
  ASSUME cfg \in Setups, cfg.scanner = "nmap",
         NEW host, host \in {HostFound, [HostFound EXCEPT !.addresses = <<>>]},
         ~NoAddressOrHostname(host),
         NEW s, s = ServicesAt(parseNetworkEndpoint(host))
  PROVE  /\ s \in Seq(Services)
         /\ \A j \in DOMAIN s : PortOf(s[j]) \in Wanted /\ Truthful(s[j])
         /\ \A a, b \in DOMAIN s : PortOf(s[a]) = PortOf(s[b]) => a = b
         /\ \A p \in Wanted : \E j \in DOMAIN s : PortOf(s[j]) = p
         /\ host = HostFound /\ IsIP(cfg.target) =>
              \A j \in DOMAIN s : s[j].endpoint.ip = cfg.target
<1> DEFINE e == parseNetworkEndpoint(host)
           N == Len(portsToScan)
           R == {k \in 1 .. N : Reportable(PortsFound[k])}
           v == [k \in 1 .. N |-> parseService(e, PortsFound[k])]
<1>1. PICK f : f = Appended(f, N, R, v) /\ s = f[N]
  BY Zenon, ServicesDefined
<1>2. N \in Nat /\ DOMAIN portsToScan = 1 .. N
  BY PortsListed
<1>3. \A k \in 1 .. N :
        /\ v[k] \in Services /\ PortOf(v[k]) = portsToScan[k] /\ Truthful(v[k])
        /\ host = HostFound /\ IsIP(cfg.target) => v[k].endpoint.ip = cfg.target
  BY <1>2, ServiceParsed
<1>4. \A i, j \in 1 .. N : PortOf(v[i]) = PortOf(v[j]) => i = j
  <2> HIDE DEF v, N
  <2> QED
    BY <1>2, <1>3, PortsListed
<1>5. \A k \in 1 .. N : k \in R <=> Listening(portsToScan[k]).open
  <2> TAKE k \in 1 .. N
  <2>1. PortsFound[k].protocol \in {"tcp", "udp"}
    BY <1>2, PortFound
  <2>2. PortsFound[k].state = "open" <=> Listening(portsToScan[k]).open
    BY <1>2, PortFound
  <2> QED
    BY <2>1, <2>2 DEF Reportable, Protocols
<1>6. \A k \in 1 .. N : k \in R <=> portsToScan[k] \in Wanted
  <2>1. \A k \in 1 .. N : Expected(portsToScan[k]) <=> Listening(portsToScan[k]).open
    BY DEF Expected
  <2> HIDE DEF R, N
  <2> QED
    BY <1>2, <1>5, <2>1 DEF Wanted, ToSet
<1> HIDE DEF N, R, v
<1>7. Collected(f[N], N, R, v, Services)
  <2>1. N \in 0 .. N
    BY <1>2
  <2>2. \A n \in 0 .. N : Collected(f[n], n, R, v, Services)
    BY <1>1, <1>2, <1>3, <1>4, AppendedCollects DEF PortOf
  <2> QED
    BY <2>1, <2>2
<1>8. Collected(s, N, R, v, Services)
  BY <1>1, <1>7
<1>9. s \in Seq(Services) /\ \A a, b \in DOMAIN s : PortOf(s[a]) = PortOf(s[b]) => a = b
  BY <1>8 DEF Collected, PortOf
<1>10. \A j \in DOMAIN s : PortOf(s[j]) \in Wanted /\ Truthful(s[j])
  <2> TAKE j \in DOMAIN s
  <2>1. PICK k \in 1 .. N : k \in R /\ s[j] = v[k]
    BY <1>8 DEF Collected
  <2>2. portsToScan[k] \in Wanted
    BY <1>6, <2>1
  <2>3. PortOf(v[k]) = portsToScan[k] /\ Truthful(v[k])
    BY <1>3
  <2> QED
    BY <2>1, <2>2, <2>3
<1>11. \A p \in Wanted : \E j \in DOMAIN s : PortOf(s[j]) = p
  <2> TAKE p \in Wanted
  <2>1. PICK k \in 1 .. N : p = portsToScan[k]
    BY <1>2 DEF Wanted, ToSet
  <2>2. k \in R
    BY <1>6, <2>1
  <2>3. PICK j \in DOMAIN s : s[j] = v[k]
    BY <1>8, <2>2 DEF Collected
  <2> QED
    BY <1>3, <2>1, <2>3
<1>12. host = HostFound /\ IsIP(cfg.target) =>
         \A j \in DOMAIN s : s[j].endpoint.ip = cfg.target
  <2> SUFFICES ASSUME host = HostFound, IsIP(cfg.target), NEW j \in DOMAIN s
               PROVE  s[j].endpoint.ip = cfg.target
    OBVIOUS
  <2>1. PICK k \in 1 .. N : k \in R /\ s[j] = v[k]
    BY <1>8 DEF Collected
  <2> QED
    BY <1>3, <2>1
<1> QED
  BY <1>9, <1>10, <1>11, <1>12


-----------------------------------------------------------------------------
(* The invariant.                                                          *)

\* Wanted ports whose worker has ended without a service: a request failed.
Lost == {p \in Wanted : worker[p] = "ended" /\ p \notin ReportedPorts}

\* A scan and its files.
ScanPlace ==
  /\ cfg \in Setups
  /\ scan \in {"new", "createFile", "exec", "read", "process", "loop", "wait", "mark",
               "done", "failed", "noReport"}
  /\ faults \in Nat
  /\ cancelled \in BOOLEAN
  /\ tmpFiles # {} => scan \in {"exec", "read"}
  /\ scan \in {"createFile", "exec", "read", "process"} => cfg.scanner = "nmap" /\ services = <<>>
  /\ scan = "mark" => cfg.scanner = "noop" /\ services = <<>> /\ cfg.ports # <<>>
  /\ scan \in {"loop", "wait"} => cfg.scanner = "httpscan"
  /\ scan = "new" => services = <<>>

\* The workers of httpscan: started in the order of the ports, and a service
\* is that of a worker which has ended.
ScanWorkers ==
  /\ worker \in [DOMAIN cfg.host -> {"idle", "start", "request", "ended", "failed"}]
  /\ next \in 1 .. Len(portsToScan) + 1
  /\ \A i \in DOMAIN portsToScan : worker[portsToScan[i]] = "idle" <=> i >= next
  /\ scan \in {"new", "createFile", "exec", "read", "process", "mark"}
       \/ cfg.scanner # "httpscan" => \A p \in DOMAIN cfg.host : worker[p] = "idle"
  /\ \A p \in DOMAIN cfg.host : p \notin ToSet(portsToScan) => worker[p] = "idle"
  /\ scan = "wait" => next > Len(portsToScan)
  /\ cfg.scanner = "httpscan" =>
       /\ \A k \in DOMAIN services : worker[PortOf(services[k])] = "ended"
       /\ cancelled \/ Cardinality(Lost) <= faults

\* Once the report is there: nobody works on it any more, and what is missing
\* is lost.
Complete ==
  scan = "done" =>
    /\ Running = {}
    /\ Wanted \ ReportedPorts \subseteq (IF cfg.scanner = "httpscan" THEN Lost ELSE {})

\* How far the fingerprinters are.
Applied(k, i) ==
  \/ stage = "detect"
  \/ stage = "fingerprint" /\ (k < current \/ (k = current /\ i < step))

StagePlace ==
  /\ stage \in {"store", "scan", "fingerprint", "detect", "over"}
  /\ stage \in {"store", "scan"} => current = 1 /\ step = 1
  /\ stage = "fingerprint" => current \in 1 .. Len(services) /\ step \in 1 .. Len(cfg.fps)
  /\ stage \in {"fingerprint", "detect"} => scan = "done"

\* Without a fault, a fingerprinter that had its turn has seen what there is;
\* iswebservice only where it knew about TLS.
Seen ==
  faults = 0 =>
    \A k \in DOMAIN services, i \in DOMAIN cfg.fps :
      Applied(k, i) =>
        LET d == Dialled(services[k].endpoint) IN
        /\ cfg.fps[i] = "sslsupport" /\ d.tls => HasTLS(services[k])
        /\ /\ cfg.fps[i] = "iswebservice" /\ d.http /\ d = Listening(PortOf(services[k]))
           /\ \E h \in DOMAIN cfg.fps : h < i /\ cfg.fps[h] = "sslsupport"
           => IsWebService(services[k])

TargetInv == ScanPlace /\ ScanWorkers /\ Complete /\ Reports /\ StagePlace /\ Seen

\* Whatever name comes first, the address that was given is not lost, unless
\* nmap's output lacked it.
Addressed ==
  faults = 0 /\ IsIP(cfg.target) =>
    \A k \in DOMAIN services : services[k].endpoint.ip = cfg.target


LEMMA AuthorityFirst ==
  ASSUME NEW e \in Endpoints, cfg \in Setups
  PROVE  \/ ToURIAuthority(e).addr = cfg.target
         \/ /\ cfg.scanner = "nmap" /\ IsIP(cfg.target) /\ cfg.ptr # ""
            /\ ToURIAuthority(e).addr = cfg.ptr
<1> DEFINE A(a) == [addr |-> a, port |-> e.port, brackets |-> a = e.ip /\ e.ip = "v6"]
           H == IF e.host # "" THEN <<A(e.host)>> ELSE <<>>
           I == IF e.ip # "" THEN <<A(e.ip)>> ELSE <<>>
<1>1. ToURIAuthorities(e) = H \o I
  BY DEF ToURIAuthorities
<1>2. cfg.target \in {"v4", "v6", "name"}
  BY Settings
<1>3. /\ e.host = "" => e.ip = cfg.target
      /\ \/ e.host \in {"", cfg.target}
         \/ cfg.scanner = "nmap" /\ IsIP(cfg.target) /\ cfg.ptr = e.host
  BY DEF Endpoints, Located
<1>4. \A a : A(a).addr = a
  OBVIOUS
<1>5. CASE e.host # ""
  <2>1. H \o I = <<A(e.host)>> \o I
    BY <1>5
  <2> HIDE DEF A
  <2>2. I = <<>> \/ I = <<A(e.ip)>>
    OBVIOUS
  <2> HIDE DEF I
  <2>3. Head(<<A(e.host)>> \o I) = A(e.host)
    BY <2>2
  <2> QED
    BY <1>1, <1>3, <1>4, <1>5, <2>1, <2>3 DEF ToURIAuthority
<1>6. CASE e.host = ""
  <2>1. e.ip = cfg.target /\ e.ip # ""
    BY <1>2, <1>3, <1>6
  <2>2. H = <<>> /\ I = <<A(e.ip)>>
    BY <1>6, <2>1
  <2> HIDE DEF A
  <2>3. H \o I = <<A(e.ip)>>
    <3>1. \A x : <<>> \o <<x>> = <<x>>
      OBVIOUS
    <3> QED
      BY Zenon, <2>2, <3>1
  <2>4. Head(<<A(e.ip)>>) = A(e.ip)
    OBVIOUS
  <2> QED
    BY Zenon, <1>1, <1>4, <2>1, <2>3, <2>4 DEF ToURIAuthority
<1> QED
  BY <1>5, <1>6

LEMMA ReportedOnce ==
  ASSUME Reports
  PROVE  /\ ReportedPorts \subseteq Wanted
         /\ Cardinality(ReportedPorts) = Len(services)
<1> DEFINE n == Len(services)
           f == [k \in 1 .. n |-> PortOf(services[k])]
<1>1. n \in Nat /\ DOMAIN services = 1 .. n
  BY LenProperties DEF Reports
<1>2. \A i, j \in 1 .. n : f[i] = f[j] => i = j
  BY <1>1 DEF Reports
<1>3. f \in [1 .. n -> ReportedPorts]
  BY <1>1 DEF ReportedPorts, PortOf
<1>4. \A t \in ReportedPorts : \E i \in 1 .. n : f[i] = t
  BY <1>1 DEF ReportedPorts, PortOf
<1>5. ReportedPorts \subseteq Wanted
  BY <1>1 DEF Reports, ReportedPorts, PortOf
<1> HIDE DEF n, f
<1>6. Cardinality(ReportedPorts) = n
  BY <1>1, <1>2, <1>3, <1>4, CountedOnce
<1> QED
  BY <1>5, <1>6 DEF n

LEMMA WantedFinite ==
  ASSUME cfg \in Setups
  PROVE  IsFiniteSet(Wanted)
BY PortsListed, FS_Subset DEF Wanted

LEMMA InvScanExact == TargetInv /\ Addressed => ScanExact
<1> SUFFICES ASSUME TargetInv, Addressed PROVE ScanExact
  OBVIOUS
<1> USE DEF TargetInv
<1>1. scan \in {"done", "failed", "noReport"} => tmpFiles = {}
  BY DEF ScanPlace
<1>2. ASSUME scan = "done"
      PROVE  LET missing == {p \in ToSet(portsToScan) : Expected(p)} \ ReportedPorts IN
             /\ Cardinality(ReportedPorts) = Len(services)
             /\ ReportedPorts \subseteq {p \in ToSet(portsToScan) : Expected(p)}
             /\ missing # {} =>
                  cfg.scanner = "httpscan" /\ (cancelled \/ Cardinality(missing) <= faults)
             /\ \A k \in DOMAIN services :
                  LET e == services[k].endpoint IN
                  /\ \/ ToURIAuthority(e).addr = cfg.target
                     \/ /\ cfg.scanner = "nmap" /\ IsIP(cfg.target) /\ cfg.ptr # ""
                        /\ ToURIAuthority(e).addr = cfg.ptr
                  /\ faults = 0 /\ IsIP(cfg.target) => e.ip = cfg.target
  <2> DEFINE missing == Wanted \ ReportedPorts
  <2>1. Cardinality(ReportedPorts) = Len(services) /\ ReportedPorts \subseteq Wanted
    BY ReportedOnce
  <2>2. cfg \in Setups /\ faults \in Nat /\ cancelled \in BOOLEAN
    BY DEF ScanPlace
  <2>3. ASSUME missing # {}
        PROVE  cfg.scanner = "httpscan" /\ (cancelled \/ Cardinality(missing) <= faults)
    <3>1. cfg.scanner = "httpscan" /\ missing \subseteq Lost
      BY <1>2, <2>3 DEF Complete
    <3>2. cancelled \/ Cardinality(Lost) <= faults
      BY <3>1 DEF ScanWorkers
    <3>3. IsFiniteSet(Lost)
      BY <2>2, WantedFinite, FS_Subset DEF Lost
    <3> HIDE DEF missing
    <3>4. Cardinality(missing) <= Cardinality(Lost)
      BY <3>1, <3>3, FS_Subset
    <3>5. Cardinality(missing) \in Nat /\ Cardinality(Lost) \in Nat
      BY <3>1, <3>3, FS_Subset, FS_CardinalityType
    <3> QED
      BY <2>2, <3>1, <3>2, <3>4, <3>5
  <2>4. \A k \in DOMAIN services :
          LET e == services[k].endpoint IN
          /\ \/ ToURIAuthority(e).addr = cfg.target
             \/ /\ cfg.scanner = "nmap" /\ IsIP(cfg.target) /\ cfg.ptr # ""
                /\ ToURIAuthority(e).addr = cfg.ptr
          /\ faults = 0 /\ IsIP(cfg.target) => e.ip = cfg.target
    <3> TAKE k \in DOMAIN services
    <3>1. services[k] \in Services
      BY ElementOfSeq, LenProperties DEF Reports
    <3>2. services[k].endpoint \in Endpoints
      BY <3>1 DEF Services
    <3>3. faults = 0 /\ IsIP(cfg.target) => services[k].endpoint.ip = cfg.target
      BY DEF Addressed
    <3> QED
      BY <2>2, <3>2, <3>3, AuthorityFirst
  <2>5. {p \in ToSet(portsToScan) : Expected(p)} = Wanted
    BY DEF Wanted
  <2> HIDE DEF missing
  <2>6. missing = {p \in ToSet(portsToScan) : Expected(p)} \ ReportedPorts
    BY <2>5 DEF missing
  <2> QED
    BY Zenon, <2>1, <2>3, <2>4, <2>5, <2>6
<1> QED
  BY Zenon, <1>1, <1>2 DEF ScanExact


\* An authority there is, so there is a web root; its scheme tells about TLS.
LEMMA RootScheme ==
  ASSUME cfg \in Setups, NEW s \in Services
  PROVE  BuildWebRoot(s).scheme = IF HasTLS(s) THEN "https" ELSE "http"
<1> DEFINE e == s.endpoint
           A(a) == [addr |-> a, port |-> e.port, brackets |-> a = e.ip /\ e.ip = "v6"]
           H == IF e.host # "" THEN <<A(e.host)>> ELSE <<>>
           I == IF e.ip # "" THEN <<A(e.ip)>> ELSE <<>>
           N == Len(ToURIAuthorities(e))
           sch == IF HasTLS(s) THEN "https" ELSE "http"
           r == [k \in 1 .. N |-> [scheme |-> sch, at |-> ToURIAuthorities(e)[k]]]
<1>1. ToURIAuthorities(e) = H \o I
  BY DEF ToURIAuthorities
<1>2. e.host # "" \/ e.ip # ""
  <2>1. e \in Endpoints
    BY DEF Services
  <2>2. cfg.target \in {"v4", "v6", "name"}
    BY Settings
  <2> HIDE DEF e
  <2> QED
    BY <2>1, <2>2 DEF Endpoints, Located
<1>3. /\ (H = <<>> /\ e.host = "") \/ H = <<A(e.host)>>
      /\ (I = <<>> /\ e.ip = "") \/ I = <<A(e.ip)>>
  <2> HIDE DEF A, e
  <2> QED
    OBVIOUS
<1> HIDE DEF H, I
<1>6. BuildAllWebRoots(s) = r
  BY DEF BuildAllWebRoots
<1> DEFINE a == A(e.host)
           b == A(e.ip)
<1>4. /\ (H = <<>> /\ e.host = "") \/ H = <<a>>
      /\ (I = <<>> /\ e.ip = "") \/ I = <<b>>
  BY <1>3
<1> HIDE DEF A, a, b, e
<1>5. N \in Nat /\ N >= 1
  <2>1. CASE H = <<a>> /\ I = <<b>>
    BY <1>1, <2>1
  <2>2. CASE H = <<a>> /\ I = <<>>
    BY <1>1, <2>2
  <2>3. CASE H = <<>> /\ I = <<b>>
    <3>1. \A x : Len(<<>> \o <<x>>) = 1
      OBVIOUS
    <3>2. N = Len(<<>> \o <<b>>)
      BY Zenon, <1>1, <2>3
    <3> HIDE DEF N
    <3> QED
      BY <3>1, <3>2
  <2> HIDE DEF N
  <2> QED
    BY Zenon, <1>2, <1>4, <2>1, <2>2, <2>3
<1> HIDE DEF N, sch
<1> DEFINE R == {[scheme |-> sch, at |-> ToURIAuthorities(e)[k]] : k \in 1 .. N}
<1>7. r \in [1 .. N -> R] /\ r[1].scheme = sch
  BY <1>5
<1> HIDE DEF r, R
<1>8. r \in Seq(R)
  BY <1>5, <1>7
<1>9. Head(r) = r[1]
  <2>1. r # <<>>
    BY <1>5, <1>7, EmptySeq
  <2> QED
    BY <1>8, <2>1, HeadTailProperties
<1> QED
  BY <1>6, <1>7, <1>9 DEF BuildWebRoot, sch

LEMMA InvEnrichment == TargetInv => EnrichmentTrue
<1> SUFFICES ASSUME TargetInv, stage = "detect", NEW k \in DOMAIN services
             PROVE  LET s == services[k]
                        n == Listening(s.endpoint.port)
                        d == Dialled(s.endpoint)
                    IN  /\ HasTLS(s) => n.tls \/ d.tls
                        /\ IsWebService(s) => n.http \/ d.http
                        /\ Cardinality(ToSet(s.methods)) = Len(s.methods) /\ Len(s.tls) <= 1
                        /\ faults = 0 /\ Runs("sslsupport") /\ d.tls => HasTLS(s)
                        /\ faults = 0 /\ Before("sslsupport", "iswebservice")
                             /\ n = d /\ n.http =>
                             IsWebService(s)
                               /\ BuildWebRoot(s).scheme = IF n.tls THEN "https" ELSE "http"
  BY Zenon DEF EnrichmentTrue
<1> DEFINE s == services[k]
           n == Listening(PortOf(s))
           d == Dialled(s.endpoint)
<1>1. cfg \in Setups /\ s \in Services /\ Truthful(s)
  <2>1. services \in Seq(Services) /\ cfg \in Setups /\ Truthful(s)
    BY DEF TargetInv, Reports, ScanPlace
  <2> QED
    BY <2>1, ElementOfSeq, LenProperties
<1>2. faults = 0 => \A i \in DOMAIN cfg.fps :
        /\ cfg.fps[i] = "sslsupport" /\ d.tls => HasTLS(s)
        /\ /\ cfg.fps[i] = "iswebservice" /\ d.http /\ d = n
           /\ \E h \in DOMAIN cfg.fps : h < i /\ cfg.fps[h] = "sslsupport"
           => IsWebService(s)
  BY DEF TargetInv, Seen, Applied
<1>3. PortOf(s) = s.endpoint.port
  BY DEF PortOf
<1>4. (HasTLS(s) => n.tls \/ d.tls) /\ (IsWebService(s) => n.http \/ d.http)
  BY <1>1 DEF Truthful
<1>5. Cardinality(ToSet(s.methods)) = Len(s.methods)
  <2>1. s.methods \in {<<>>, <<"GET">>, <<"GET", "POST">>}
    BY <1>1 DEF Services
  <2> HIDE DEF s
  <2>2. CASE s.methods = <<>>
    <3>1. ToSet(<<>>) = {} /\ Len(<<>>) = 0
      BY DEF ToSet
    <3> QED
      BY <2>2, <3>1, FS_EmptySet
  <2>3. CASE s.methods = <<"GET">>
    <3>1. ToSet(<<"GET">>) = {"GET"} /\ Len(<<"GET">>) = 1
      BY DEF ToSet
    <3> QED
      BY <2>3, <3>1, FS_Singleton
  <2>4. CASE s.methods = <<"GET", "POST">>
    <3>1. ToSet(<<"GET", "POST">>) = {"GET"} \cup {"POST"} /\ Len(<<"GET", "POST">>) = 2
      BY DEF ToSet
    <3>2. IsFiniteSet({"GET"}) /\ Cardinality({"GET"}) = 1 /\ "POST" \notin {"GET"}
      BY FS_Singleton
    <3>3. Cardinality({"GET"} \cup {"POST"}) = 2
      BY <3>2, FS_AddElement
    <3> QED
      BY <2>4, <3>1, <3>3
  <2> QED
    BY <2>1, <2>2, <2>3, <2>4
<1>6. Len(s.tls) <= 1
  <2>1. s.tls \in {<<>>, <<"TLSv1.2">>, <<"TLSv1.3">>}
    BY <1>1 DEF Services
  <2>2. Len(<<>>) = 0 /\ Len(<<"TLSv1.2">>) = 1 /\ Len(<<"TLSv1.3">>) = 1
    OBVIOUS
  <2> HIDE DEF s
  <2>3. Len(s.tls) \in {0, 1}
    BY Zenon, <2>1, <2>2
  <2>4. \A x \in {0, 1} : x <= 1
    OBVIOUS
  <2> QED
    BY Zenon, <2>3, <2>4
<1>7. BuildWebRoot(s).scheme = IF HasTLS(s) THEN "https" ELSE "http"
  BY <1>1, RootScheme
<1>8. cfg.fps \in Seq({"sslsupport", "iswebservice"}) /\ DOMAIN cfg.fps = 1 .. Len(cfg.fps)
  BY <1>1, Settings, LenProperties
<1> HIDE DEF s, n, d
<1>9. faults = 0 /\ Runs("sslsupport") /\ d.tls => HasTLS(s)
  BY <1>2, <1>8 DEF Runs, Contains
<1>10. faults = 0 /\ Before("sslsupport", "iswebservice") /\ n = d /\ n.http =>
         IsWebService(s) /\ BuildWebRoot(s).scheme = IF n.tls THEN "https" ELSE "http"
  <2> HAVE faults = 0 /\ Before("sslsupport", "iswebservice") /\ n = d /\ n.http
  <2>1. PICK i, j \in DOMAIN cfg.fps :
          i < j /\ cfg.fps[i] = "sslsupport" /\ cfg.fps[j] = "iswebservice"
    BY DEF Before
  <2>2. n.tls => HasTLS(s)
    BY <1>2, <2>1
  <2>3. IsWebService(s)
    BY <1>2, <2>1
  <2> QED
    BY <1>4, <1>7, <2>2, <2>3
<1> QED
  BY Zenon, <1>3, <1>4, <1>5, <1>6, <1>9, <1>10 DEF s, n, d

LEMMA InitTargetInv == TargetInit => TargetInv
<1> SUFFICES ASSUME TargetInit PROVE TargetInv
  OBVIOUS
<1> USE DEF TargetInit, ScanInit
<1>1. cfg \in Setups
  OBVIOUS
<1>2. Len(portsToScan) \in Nat /\ DOMAIN portsToScan = 1 .. Len(portsToScan)
      /\ \A i \in DOMAIN portsToScan : portsToScan[i] \in DOMAIN cfg.host
  BY <1>1, PortsListed
<1>3. ScanPlace
  BY DEF ScanPlace
<1>4. ScanWorkers
  <2>1. \A p \in DOMAIN cfg.host : worker[p] = "idle"
    OBVIOUS
  <2>2. Lost = {}
    <3>1. Wanted \subseteq DOMAIN cfg.host
      BY <1>1, PortsListed DEF Wanted
    <3> QED
      BY <2>1, <3>1 DEF Lost
  <2>3. Cardinality(Lost) <= faults
    BY <2>2, FS_EmptySet
  <2> QED
    BY <1>2, <2>1, <2>3 DEF ScanWorkers
<1>5. Complete /\ Reports
  BY DEF Complete, Reports
<1>6. StagePlace /\ Seen
  BY DEF StagePlace, Seen
<1> QED
  BY <1>3, <1>4, <1>5, <1>6 DEF TargetInv


-----------------------------------------------------------------------------
(* Steps that leave the report alone.                                      *)

LEMMA ReportKept ==
  ASSUME TargetInv, UNCHANGED <<cfg, scan, tmpFiles, next, worker, services>>,
         faults' \in Nat, faults' >= faults, cancelled' \in BOOLEAN, cancelled => cancelled'
  PROVE  ScanPlace' /\ ScanWorkers' /\ Complete' /\ Reports'
<1> USE DEF TargetInv
<1>1. /\ portsToScan' = portsToScan /\ Services' = Services /\ Wanted' = Wanted
      /\ \A s : Truthful(s)' <=> Truthful(s)
  BY TargetStays
<1>2. ReportedPorts' = ReportedPorts /\ Running' = Running
  BY DEF ReportedPorts, Running
<1>3. Lost' = Lost
  BY <1>1, <1>2 DEF Lost
<1>4. ScanPlace'
  BY DEF ScanPlace
<1>5. ScanWorkers'
  <2>1. cfg.scanner = "httpscan" => cancelled' \/ Cardinality(Lost) <= faults'
    <3>1. cfg \in Setups /\ faults \in Nat
      BY DEF ScanPlace
    <3>2. Cardinality(Lost) \in Nat
      BY <3>1, WantedFinite, FS_Subset, FS_CardinalityType DEF Lost
    <3>3. cfg.scanner = "httpscan" => cancelled \/ Cardinality(Lost) <= faults
      BY DEF ScanWorkers
    <3> QED
      BY <3>1, <3>2, <3>3
  <2>2. cfg.scanner = "httpscan" =>
          /\ \A k \in DOMAIN services : worker[PortOf(services[k])] = "ended"
          /\ cancelled' \/ Cardinality(Lost) <= faults'
    BY <2>1 DEF ScanWorkers
  <2> QED
    BY <1>1, <1>3, <2>2 DEF ScanWorkers, PortOf
<1>6. Complete'
  BY <1>1, <1>2, <1>3 DEF Complete
<1>7. Reports'
  BY <1>1 DEF Reports, PortOf
<1> QED
  BY <1>4, <1>5, <1>6, <1>7

LEMMA SeenKept ==
  ASSUME TargetInv, UNCHANGED <<cfg, services>>, faults' = 0 => faults = 0,
         \A k \in DOMAIN services, i \in DOMAIN cfg.fps : Applied(k, i)' => Applied(k, i)
  PROVE  Seen'
<1> SUFFICES ASSUME faults = 0, NEW k \in DOMAIN services, NEW i \in DOMAIN cfg.fps,
                    Applied(k, i)
             PROVE  LET d == Dialled(services[k].endpoint) IN
                    /\ cfg.fps[i] = "sslsupport" /\ d.tls => HasTLS(services[k])
                    /\ /\ cfg.fps[i] = "iswebservice" /\ d.http
                       /\ d = Listening(PortOf(services[k]))
                       /\ \E h \in DOMAIN cfg.fps : h < i /\ cfg.fps[h] = "sslsupport"
                       => IsWebService(services[k])
  <2>1. (\A p : Listening(p)' = Listening(p)) /\ (\A e : Dialled(e)' = Dialled(e))
    BY TargetStays
  <2> QED
    BY <2>1 DEF Seen, PortOf, HasTLS, IsWebService
<1> QED
  BY DEF TargetInv, Seen

LEMMA StoreSteps ==
  ASSUME TargetInv, BuildStore \/ PrepareStore
  PROVE  TargetInv'
<1>1. /\ UNCHANGED <<cfg, scan, cancelled, faults, tmpFiles, next, worker, services>>
      /\ UNCHANGED <<current, step>>
      /\ stage = "store" /\ stage' \in {"store", "scan", "over"}
  BY DEF BuildStore, PrepareStore, scanVars
<1>2. faults \in Nat /\ cancelled \in BOOLEAN
  BY DEF TargetInv, ScanPlace
<1>3. ScanPlace' /\ ScanWorkers' /\ Complete' /\ Reports'
  BY <1>1, <1>2, ReportKept
<1>4. StagePlace'
  BY <1>1 DEF TargetInv, StagePlace
<1>5. Seen'
  <2>1. \A k, i : ~Applied(k, i)'
    BY <1>1 DEF Applied
  <2> QED
    BY <1>1, <2>1, SeenKept
<1> QED
  BY <1>3, <1>4, <1>5 DEF TargetInv

LEMMA ProceedStep ==
  ASSUME TargetInv, Proceed
  PROVE  TargetInv'
<1>1. /\ UNCHANGED <<cfg, scan, cancelled, faults, tmpFiles, next, worker, services>>
      /\ UNCHANGED <<current, step>>
  BY DEF Proceed, scanVars
<1>2. /\ stage = "scan"
      /\ stage' = IF scan # "done" \/ services = <<>> \/ cancelled THEN "over"
                  ELSE IF cfg.fps = <<>> THEN "detect" ELSE "fingerprint"
  BY DEF Proceed
<1>3. /\ cfg \in Setups /\ faults \in Nat /\ cancelled \in BOOLEAN
      /\ services \in Seq(Services)
      /\ current = 1 /\ step = 1
  BY <1>2 DEF TargetInv, ScanPlace, Reports, StagePlace
<1>4. ScanPlace' /\ ScanWorkers' /\ Complete' /\ Reports'
  BY <1>1, <1>3, ReportKept
<1>5. cfg.fps \in Seq({"sslsupport", "iswebservice"})
  BY <1>3, Settings
<1>6. StagePlace'
  <2>1. stage' \in {"over", "detect", "fingerprint"} /\ (stage' # "over" => scan = "done")
    BY <1>2
  <2>2. ASSUME stage' = "fingerprint"
        PROVE  current \in 1 .. Len(services) /\ step \in 1 .. Len(cfg.fps)
    <3>1. services # <<>> /\ cfg.fps # <<>>
      BY <1>2, <2>2
    <3>2. Len(services) \in Nat /\ Len(services) # 0 /\ Len(cfg.fps) \in Nat /\ Len(cfg.fps) # 0
      BY <1>3, <1>5, <3>1, EmptySeq, LenProperties
    <3> QED
      BY <1>3, <3>2
  <2> QED
    BY <1>1, <2>1, <2>2 DEF StagePlace
<1>7. Seen'
  <2>1. ASSUME NEW k \in DOMAIN services, NEW i \in DOMAIN cfg.fps
        PROVE  ~Applied(k, i)'
    <3>1. k \in Nat /\ k >= 1 /\ i \in Nat /\ i >= 1 /\ cfg.fps # <<>>
      BY <1>3, <1>5, LenProperties
    <3>2. stage' # "detect"
      BY <1>2, <3>1
    <3> QED
      BY <1>1, <1>3, <3>1, <3>2 DEF Applied
  <2> QED
    BY <1>1, <2>1, SeenKept
<1> QED
  BY <1>4, <1>6, <1>7 DEF TargetInv

LEMMA DetectionSteps ==
  ASSUME TargetInv, DetectWeak \/ DetectBypass \/ DetectNothing
  PROVE  TargetInv'
<1>1. /\ UNCHANGED <<cfg, scan, cancelled, tmpFiles, next, worker, services>>
      /\ stage = "detect"
  BY DEF DetectWeak, DetectBypass, DetectNothing, scanVars
<1>2. faults \in Nat /\ cancelled \in BOOLEAN /\ scan = "done"
  BY <1>1 DEF TargetInv, ScanPlace, StagePlace
<1>3. faults' = faults \/ faults' = faults + 1
  <2>1. \A u, pws, how : Connects(u, pws, how) => faults' = faults \/ faults' = faults + 1
    BY DEF Connects, Fault
  <2>2. CASE DetectWeak
    BY <2>1, <2>2 DEF DetectWeak
  <2>3. CASE DetectBypass
    BY <2>1, <2>3 DEF DetectBypass
  <2>4. CASE DetectNothing
    BY <2>4 DEF DetectNothing, scanVars
  <2> QED
    BY <2>2, <2>3, <2>4
<1>4. stage' \in {"detect", "over"}
  <2>1. \A ok : NextService(ok) => stage' \in {"detect", "over"}
    BY <1>1 DEF NextService, AfterService
  <2>2. CASE DetectWeak
    BY <1>1, <2>1, <2>2 DEF DetectWeak
  <2>3. CASE DetectBypass
    BY <1>1, <2>1, <2>3 DEF DetectBypass
  <2>4. CASE DetectNothing
    BY <2>4 DEF DetectNothing
  <2> QED
    BY <2>2, <2>3, <2>4
<1>5. ScanPlace' /\ ScanWorkers' /\ Complete' /\ Reports'
  BY <1>1, <1>2, <1>3, ReportKept
<1>6. StagePlace'
  BY <1>1, <1>2, <1>4 DEF StagePlace
<1>7. Seen'
  <2>1. \A k, i : Applied(k, i)
    BY <1>1 DEF Applied
  <2>2. faults' = 0 => faults = 0
    BY <1>2, <1>3
  <2> QED
    BY <1>1, <2>1, <2>2, SeenKept
<1> QED
  BY <1>5, <1>6, <1>7 DEF TargetInv

LEMMA OtherTargetSteps ==
  ASSUME TargetInv, CancelTarget \/ Over \/ UNCHANGED targetVars
  PROVE  TargetInv'
<1>1. /\ UNCHANGED <<cfg, scan, faults, tmpFiles, next, worker, services, stage, current, step>>
      /\ cancelled' = cancelled \/ cancelled' = TRUE
  BY DEF CancelTarget, Over, targetVars, scanVars
<1>2. faults \in Nat /\ cancelled \in BOOLEAN
  BY DEF TargetInv, ScanPlace
<1>3. ScanPlace' /\ ScanWorkers' /\ Complete' /\ Reports'
  <2>1. cancelled' \in BOOLEAN /\ (cancelled => cancelled')
    <3>1. CASE cancelled' = cancelled
      BY Zenon, <1>2, <3>1
    <3>2. CASE cancelled' = TRUE
      BY Zenon, <3>2
    <3> QED
      BY Zenon, <1>1, <3>1, <3>2
  <2>2. faults' \in Nat /\ faults' >= faults
    BY <1>1, <1>2
  <2> QED
    BY Zenon, <1>1, <2>1, <2>2, ReportKept
<1>4. StagePlace'
  BY <1>1 DEF TargetInv, StagePlace
<1>5. Seen'
  <2>1. \A k, i : Applied(k, i)' <=> Applied(k, i)
    BY <1>1 DEF Applied
  <2> QED
    BY <1>1, <2>1, SeenKept
<1> QED
  BY <1>3, <1>4, <1>5 DEF TargetInv


-----------------------------------------------------------------------------
(* Steps of a scan.                                                        *)

LEMMA ScanKeepsStage ==
  ASSUME TargetInv, Scan
  PROVE  StagePlace' /\ Seen'
<1>1. stage = "scan" /\ UNCHANGED <<stage, current, step>>
  BY DEF Scan
<1>2. StagePlace'
  BY <1>1 DEF TargetInv, StagePlace
<1>3. \A k, i : ~Applied(k, i)'
  BY <1>1 DEF Applied
<1>4. Seen'
  BY <1>3 DEF Seen
<1> QED
  BY <1>2, <1>4

\* As long as no worker was started, none has anything to do with the report.
LEMMA WorkersIdle ==
  ASSUME TargetInv, scan \in {"new", "createFile", "exec", "read", "process", "mark"},
         UNCHANGED <<cfg, worker, next>>, faults' \in Nat, scan' # "wait",
         cfg.scanner = "httpscan" => services' = <<>>
  PROVE  ScanWorkers' /\ Running' = {}
<1> USE DEF TargetInv
<1>1. portsToScan' = portsToScan /\ Wanted' = Wanted /\ cfg \in Setups
  BY TargetStays DEF ScanPlace
<1>2. /\ worker \in [DOMAIN cfg.host -> {"idle", "start", "request", "ended", "failed"}]
      /\ \A p \in DOMAIN cfg.host : worker[p] = "idle"
  BY DEF ScanWorkers
<1>3. Running' = {}
  BY <1>2 DEF Running
<1>4. Lost' = {}
  <2>1. Wanted \subseteq DOMAIN cfg.host
    BY <1>1, PortsListed DEF Wanted
  <2> QED
    BY <1>1, <1>2, <2>1 DEF Lost
<1>5. Cardinality(Lost') <= faults'
  BY <1>4, FS_EmptySet
<1>6. cfg.scanner = "httpscan" =>
        /\ \A k \in DOMAIN services' : worker[PortOf(services'[k])] = "ended"
        /\ cancelled' \/ Cardinality(Lost') <= faults'
  BY <1>5
<1>7. ScanWorkers'
  BY <1>1, <1>2, <1>6 DEF ScanWorkers, PortOf
<1> QED
  BY <1>3, <1>7

\* Steps after which there still is no service.
LEMMA NothingFound ==
  ASSUME TargetInv, NewScanner \/ CreateOutputFile \/ ExecNmap \/ ReadOutput
  PROVE  ScanPlace' /\ ScanWorkers' /\ Complete' /\ Reports'
<1> USE DEF TargetInv
<1>1. /\ UNCHANGED <<cfg, cancelled, worker, next, services>>
      /\ scan \in {"new", "createFile", "exec", "read"}
  BY DEF NewScanner, CreateOutputFile, ExecNmap, ReadOutput
<1>2. services = <<>> /\ cfg \in Setups /\ cancelled \in BOOLEAN /\ faults \in Nat
  BY <1>1 DEF ScanPlace
<1>3. cfg.scanner \in {"nmap", "httpscan", "noop"}
  BY <1>2, Settings
<1>4. faults' = faults \/ faults' = faults + 1
  BY DEF NewScanner, CreateOutputFile, ExecNmap, ReadOutput, Fault
<1>5. faults' \in Nat
  BY <1>2, <1>4
<1>6. /\ scan' \in {"createFile", "exec", "read", "process", "loop", "mark", "failed"}
      /\ tmpFiles' # {} => scan' \in {"exec", "read"}
      /\ scan' \in {"createFile", "exec", "read", "process"} => cfg.scanner = "nmap"
      /\ scan' = "mark" => cfg.scanner = "noop" /\ cfg.ports # <<>>
      /\ scan' = "loop" => cfg.scanner = "httpscan"
  <2>1. CASE NewScanner
    <3>1. scan = "new" /\ tmpFiles' = tmpFiles /\ tmpFiles = {}
      BY <2>1 DEF NewScanner, ScanPlace
    <3>2. CASE cfg.scanner = "noop" /\ cfg.ports = <<>>
      BY <2>1, <3>1, <3>2 DEF NewScanner, ScanFails
    <3>3. CASE cfg.scanner = "noop" /\ cfg.ports # <<>>
      BY <2>1, <3>1, <3>3 DEF NewScanner
    <3>4. CASE cfg.scanner = "nmap"
      BY <2>1, <3>1, <3>4 DEF NewScanner
    <3>5. CASE cfg.scanner = "httpscan"
      BY <2>1, <3>1, <3>5 DEF NewScanner
    <3> QED
      BY <1>3, <3>2, <3>3, <3>4, <3>5
  <2>2. CASE CreateOutputFile
    <3>1. scan = "createFile" /\ tmpFiles = {} /\ cfg.scanner = "nmap"
      BY <2>2 DEF CreateOutputFile, ScanPlace
    <3> QED
      BY <2>2, <3>1 DEF CreateOutputFile, ScanFails
  <2>3. CASE ExecNmap
    <3>1. cfg.scanner = "nmap"
      BY <2>3 DEF ExecNmap, ScanPlace
    <3> QED
      BY <2>3, <3>1 DEF ExecNmap, RunFails, ScanFails, removeOutput
  <2>4. CASE ReadOutput
    <3>1. cfg.scanner = "nmap"
      BY <2>4 DEF ReadOutput, ScanPlace
    <3> QED
      BY <2>4, <3>1 DEF ReadOutput, ScanFails, removeOutput
  <2> QED
    BY <2>1, <2>2, <2>3, <2>4
<1>7. ScanPlace'
  BY <1>1, <1>2, <1>5, <1>6 DEF ScanPlace
<1>8. ScanWorkers'
  BY <1>1, <1>2, <1>5, <1>6, WorkersIdle
<1>9. Complete'
  BY <1>6 DEF Complete
<1>10. Reports'
  BY <1>1, <1>2 DEF Reports
<1> QED
  BY <1>7, <1>8, <1>9, <1>10

LEMMA ProcessStep ==
  ASSUME TargetInv, ProcessResults
  PROVE  ScanPlace' /\ ScanWorkers' /\ Complete' /\ Reports'
<1> USE DEF TargetInv
<1>1. UNCHANGED <<cfg, cancelled, tmpFiles, next, worker>> /\ scan = "process"
  BY DEF ProcessResults
<1>2. /\ services = <<>> /\ cfg \in Setups /\ cancelled \in BOOLEAN /\ faults \in Nat
      /\ cfg.scanner = "nmap" /\ tmpFiles = {}
  BY <1>1 DEF ScanPlace
<1> DEFINE Ended ==
             /\ faults' = faults \/ faults' = faults + 1
             /\ scan' \in {"done", "failed", "noReport"}
             /\ scan' # "done" => services' = services
             /\ scan' = "done" =>
                  \E host \in {HostFound, [HostFound EXCEPT !.addresses = <<>>]} :
                    /\ ~NoAddressOrHostname(host)
                    /\ services' = ServicesAt(parseNetworkEndpoint(host))
<1>3. Ended
  <2>1. CASE /\ Fault
             /\ \E why \in {"hostsCount", "addressType"} : ScanFails(why)
             /\ UNCHANGED services
    BY <2>1 DEF Fault, ScanFails
  <2>2. CASE Fault /\ scan' = "noReport" /\ UNCHANGED services
    BY <2>2 DEF Fault
  <2>3. ASSUME NEW host \in {HostFound, [HostFound EXCEPT !.addresses = <<>>]},
               IF host = HostFound THEN UNCHANGED faults ELSE Fault,
               IF NoAddressOrHostname(host)
                 THEN ScanFails("noAddressOrHostname") /\ UNCHANGED services
                 ELSE /\ services' = ServicesAt(parseNetworkEndpoint(host))
                      /\ scan' = "done"
        PROVE  Ended
    <3>1. faults' = faults \/ faults' = faults + 1
      BY <2>3 DEF Fault
    <3>2. CASE NoAddressOrHostname(host)
      BY <2>3, <3>1, <3>2 DEF ScanFails
    <3>3. CASE ~NoAddressOrHostname(host)
      BY Zenon, <2>3, <3>1, <3>3
    <3> QED
      BY <3>2, <3>3
  <2> QED
    BY <2>1, <2>2, <2>3 DEF ProcessResults
<1>4. faults' \in Nat
  BY <1>2, <1>3
<1>5. ScanPlace'
  BY <1>1, <1>2, <1>3, <1>4 DEF ScanPlace
<1>6. ScanWorkers' /\ Running' = {}
  <2>1. scan' # "wait" /\ cfg.scanner # "httpscan"
    BY <1>2, <1>3
  <2> QED
    BY <1>1, <1>4, <2>1, WorkersIdle
<1>7. /\ Services' = Services /\ Wanted' = Wanted
      /\ \A s : Truthful(s)' <=> Truthful(s)
  BY <1>1, TargetStays
<1>8. CASE scan' # "done"
  <2>1. services' = <<>>
    BY <1>2, <1>3, <1>8
  <2>2. Complete' /\ Reports'
    BY <1>8, <2>1 DEF Complete, Reports
  <2> QED
    BY <1>5, <1>6, <2>2
<1>9. CASE scan' = "done"
  <2>0. PICK host \in {HostFound, [HostFound EXCEPT !.addresses = <<>>]} :
          ~NoAddressOrHostname(host) /\ services' = ServicesAt(parseNetworkEndpoint(host))
    BY <1>3, <1>9
  <2> DEFINE s == ServicesAt(parseNetworkEndpoint(host))
  <2>1. services' = s
    BY <2>0
  <2>2. /\ s \in Seq(Services)
        /\ \A j \in DOMAIN s : PortOf(s[j]) \in Wanted /\ Truthful(s[j])
        /\ \A a, b \in DOMAIN s : PortOf(s[a]) = PortOf(s[b]) => a = b
        /\ \A p \in Wanted : \E j \in DOMAIN s : PortOf(s[j]) = p
    BY <1>2, <2>0, ServicesFound
  <2> HIDE DEF s
  <2>3. Reports'
    BY <1>7, <2>1, <2>2 DEF Reports, PortOf
  <2>4. Wanted \subseteq ReportedPorts'
    BY <2>1, <2>2 DEF ReportedPorts, PortOf
  <2>5. Complete'
    BY <1>6, <1>7, <2>4 DEF Complete
  <2> QED
    BY <1>5, <1>6, <2>3, <2>5
<1> QED
  BY <1>8, <1>9

LEMMA MarkStep ==
  ASSUME TargetInv, MarkAll
  PROVE  ScanPlace' /\ ScanWorkers' /\ Complete' /\ Reports'
<1> USE DEF TargetInv
<1> DEFINE s == [k \in 1 .. Len(cfg.ports) |->
                   NewService(Endpoint(cfg.ports[k]), "unspecified", "")]
<1>1. /\ UNCHANGED <<cfg, cancelled, faults, tmpFiles, next, worker>> /\ scan = "mark"
      /\ scan' = "done" /\ services' = s
  BY DEF MarkAll
<1>2. /\ cfg \in Setups /\ cancelled \in BOOLEAN /\ faults \in Nat
      /\ cfg.scanner = "noop" /\ cfg.ports # <<>> /\ tmpFiles = {}
  BY <1>1 DEF ScanPlace
<1>3. ScanPlace'
  BY <1>1, <1>2 DEF ScanPlace
<1>4. ScanWorkers' /\ Running' = {}
  <2>1. scan' # "wait" /\ cfg.scanner # "httpscan" /\ faults' \in Nat
    BY <1>1, <1>2
  <2> QED
    BY <1>1, <2>1, WorkersIdle
<1>5. /\ Services' = Services /\ Wanted' = Wanted
      /\ \A x : Truthful(x)' <=> Truthful(x)
  BY <1>1, TargetStays
<1>6. /\ Len(cfg.ports) \in Nat /\ DOMAIN cfg.ports = 1 .. Len(cfg.ports)
      /\ \A k \in 1 .. Len(cfg.ports) : cfg.ports[k] \in DOMAIN cfg.host
      /\ \A i, j \in 1 .. Len(cfg.ports) : cfg.ports[i] = cfg.ports[j] => i = j
  BY <1>2, Settings, LenProperties, ElementOfSeq
<1>7. Wanted = {cfg.ports[k] : k \in 1 .. Len(cfg.ports)}
  <2>1. portsToScan = cfg.ports
    BY <1>2 DEF portsToScan
  <2>2. \A p : Expected(p)
    BY <1>2 DEF Expected
  <2> QED
    BY <1>6, <2>1, <2>2 DEF Wanted, ToSet
<1>8. DOMAIN s = 1 .. Len(cfg.ports) /\ s \in [1 .. Len(cfg.ports) -> Services]
  BY <1>2, <1>6, NewFound
<1>9. \A k \in DOMAIN s : PortOf(s[k]) = cfg.ports[k] /\ Truthful(s[k])
  BY <1>2, <1>6, NewFound
<1> HIDE DEF s
<1>10. s \in Seq(Services)
  BY <1>6, <1>8
<1>11. \A k \in DOMAIN s : PortOf(s[k]) \in Wanted /\ Truthful(s[k])
  BY <1>7, <1>8, <1>9
<1>12. \A a, b \in DOMAIN s : PortOf(s[a]) = PortOf(s[b]) => a = b
  BY <1>6, <1>8, <1>9
<1>13. Reports'
  BY <1>1, <1>5, <1>10, <1>11, <1>12 DEF Reports, PortOf
<1>14. Wanted \subseteq ReportedPorts'
  BY <1>1, <1>7, <1>8, <1>9 DEF ReportedPorts, PortOf
<1>15. Complete'
  BY <1>4, <1>5, <1>14 DEF Complete
<1> QED
  BY <1>3, <1>4, <1>13, <1>15


\* httpscan's loop.
LEMMA StartStep ==
  ASSUME TargetInv, StartWorker
  PROVE  ScanPlace' /\ ScanWorkers' /\ Complete' /\ Reports'
<1> USE DEF TargetInv
<1>1. /\ UNCHANGED <<cfg, cancelled, faults, tmpFiles, services>> /\ scan = "loop"
  BY DEF StartWorker
<1>2. /\ cfg \in Setups /\ cfg.scanner = "httpscan" /\ tmpFiles = {}
      /\ faults \in Nat /\ cancelled \in BOOLEAN
  BY <1>1 DEF ScanPlace
<1>3. /\ portsToScan' = portsToScan /\ Services' = Services /\ Wanted' = Wanted
      /\ \A s : Truthful(s)' <=> Truthful(s)
  BY <1>1, TargetStays
<1>4. /\ Len(portsToScan) \in Nat /\ DOMAIN portsToScan = 1 .. Len(portsToScan)
      /\ \A i \in DOMAIN portsToScan : portsToScan[i] \in DOMAIN cfg.host
      /\ \A i, j \in DOMAIN portsToScan : portsToScan[i] = portsToScan[j] => i = j
  BY <1>2, PortsListed
<1>5. /\ worker \in [DOMAIN cfg.host -> {"idle", "start", "request", "ended", "failed"}]
      /\ next \in 1 .. Len(portsToScan) + 1
      /\ \A i \in DOMAIN portsToScan : worker[portsToScan[i]] = "idle" <=> i >= next
      /\ \A k \in DOMAIN services : worker[PortOf(services[k])] = "ended"
      /\ cancelled \/ Cardinality(Lost) <= faults
      /\ \A p \in DOMAIN cfg.host : p \notin ToSet(portsToScan) => worker[p] = "idle"
  BY <1>2 DEF ScanWorkers
<1>6. Reports' /\ ReportedPorts' = ReportedPorts
  BY <1>1, <1>3 DEF Reports, PortOf, ReportedPorts
<1>7. CASE next > Len(portsToScan) \/ groupCancelled
  <2>1. UNCHANGED <<next, worker>>
    BY <1>7 DEF StartWorker, ScanFails
  <2>2. scan' \in {"wait", "failed"} /\ (scan' = "wait" => next > Len(portsToScan))
    BY <1>7 DEF StartWorker, ScanFails
  <2>3. Lost' = Lost
    BY <1>3, <1>6, <2>1 DEF Lost
  <2>4. ScanPlace' /\ Complete'
    BY <1>1, <1>2, <2>2 DEF ScanPlace, Complete
  <2>5. ScanWorkers'
    BY <1>1, <1>2, <1>3, <1>5, <2>1, <2>2, <2>3 DEF ScanWorkers, PortOf
  <2> QED
    BY <1>6, <2>4, <2>5
<1>8. CASE ~(next > Len(portsToScan)) /\ ~groupCancelled
  <2> DEFINE p == portsToScan[next]
  <2>1. worker' = [worker EXCEPT ![p] = "start"] /\ next' = next + 1 /\ scan' = scan
    BY <1>8 DEF StartWorker
  <2>2. next \in DOMAIN portsToScan /\ next \in Nat
    BY <1>4, <1>5, <1>8
  <2>3. p \in DOMAIN cfg.host /\ worker[p] = "idle"
    BY <1>4, <1>5, <2>2
  <2>4. \A i \in DOMAIN portsToScan : i # next => portsToScan[i] # p
    BY <1>4, <2>2
  <2> HIDE DEF p
  <2>5. worker' \in [DOMAIN cfg.host -> {"idle", "start", "request", "ended", "failed"}]
    BY <1>5, <2>1
  <2>6. \A x \in DOMAIN cfg.host : worker'[x] = IF x = p THEN "start" ELSE worker[x]
    BY <1>5, <2>1
  <2>7. \A x \in DOMAIN cfg.host : worker'[x] = "ended" <=> worker[x] = "ended"
    BY <2>3, <2>6
  <2>8. Wanted \subseteq DOMAIN cfg.host
    BY <1>2, PortsListed DEF Wanted
  <2>9. Lost' = Lost
    BY <1>3, <1>6, <2>7, <2>8 DEF Lost
  <2>10. next' \in 1 .. Len(portsToScan) + 1
    BY <1>4, <2>1, <2>2
  <2>11. \A i \in DOMAIN portsToScan : worker'[portsToScan[i]] = "idle" <=> i >= next'
    <3> TAKE i \in DOMAIN portsToScan
    <3>1. portsToScan[i] \in DOMAIN cfg.host /\ i \in Nat
      BY <1>4
    <3>2. CASE i = next
      BY <2>1, <2>2, <2>6, <3>1, <3>2 DEF p
    <3>3. CASE i # next
      <4>1. worker'[portsToScan[i]] = worker[portsToScan[i]]
        BY <2>4, <2>6, <3>1, <3>3
      <4> QED
        BY <1>5, <2>1, <2>2, <3>1, <3>3, <4>1
    <3> QED
      BY <3>2, <3>3
  <2>12. \A k \in DOMAIN services : worker'[PortOf(services[k])] = "ended"
    <3> TAKE k \in DOMAIN services
    <3>1. PortOf(services[k]) \in DOMAIN cfg.host
      BY <2>8 DEF Reports
    <3> QED
      BY <1>5, <2>7, <3>1
  <2>13. ScanPlace' /\ Complete'
    BY <1>1, <1>2, <2>1 DEF ScanPlace, Complete
  <2>14. cancelled' \/ Cardinality(Lost') <= faults'
    BY <1>1, <1>5, <2>9
  <2>15. \A x \in DOMAIN cfg.host : x \notin ToSet(portsToScan) => worker'[x] = "idle"
    <3>1. p \in ToSet(portsToScan)
      BY <2>2 DEF p, ToSet
    <3> QED
      BY <1>5, <2>6, <3>1
  <2>16. ScanWorkers'
    BY <1>1, <1>2, <1>3, <2>1, <2>5, <2>10, <2>11, <2>12, <2>14, <2>15 DEF ScanWorkers, PortOf
  <2> QED
    BY <1>6, <2>13, <2>16
<1> QED
  BY <1>7, <1>8

\* A step of a worker that runs: it is one of httpscan's, and the report is
\* not complete yet.
LEMMA WorkerSteps ==
  ASSUME TargetInv, NEW p \in Running, NEW v \in {"request", "failed", "ended"},
         UNCHANGED <<cfg, scan, cancelled, tmpFiles, next>>,
         worker' = [worker EXCEPT ![p] = v],
         faults' \in Nat, Reports',
         \A k \in DOMAIN services' : worker'[PortOf(services'[k])] = "ended",
         cancelled \/ Cardinality(Lost') <= faults'
  PROVE  ScanPlace' /\ ScanWorkers' /\ Complete' /\ Reports'
<1> USE DEF TargetInv
<1>1. /\ cfg \in Setups /\ cancelled \in BOOLEAN /\ portsToScan' = portsToScan
  BY TargetStays DEF ScanPlace
<1>2. /\ worker \in [DOMAIN cfg.host -> {"idle", "start", "request", "ended", "failed"}]
      /\ next \in 1 .. Len(portsToScan) + 1
      /\ \A i \in DOMAIN portsToScan : worker[portsToScan[i]] = "idle" <=> i >= next
      /\ scan = "wait" => next > Len(portsToScan)
  BY DEF ScanWorkers
<1>3. p \in DOMAIN cfg.host /\ worker[p] \in {"start", "request"}
  BY <1>2 DEF Running
<1>4. /\ scan \notin {"new", "createFile", "exec", "read", "process", "mark"}
      /\ cfg.scanner = "httpscan"
  BY <1>3 DEF ScanWorkers
<1>5. scan # "done"
  BY DEF Complete
<1>6. Complete'
  BY <1>5 DEF Complete
<1>7. ScanPlace'
  BY <1>4 DEF ScanPlace
<1>8. worker' \in [DOMAIN cfg.host -> {"idle", "start", "request", "ended", "failed"}]
  BY <1>2
<1>9. \A x \in DOMAIN cfg.host : worker'[x] = "idle" <=> worker[x] = "idle"
  BY <1>2, <1>3
<1>10. \A i \in DOMAIN portsToScan : worker'[portsToScan[i]] = "idle" <=> i >= next
  BY <1>1, <1>2, <1>9, PortsListed
<1>11. \A x \in DOMAIN cfg.host : x \notin ToSet(portsToScan) => worker'[x] = "idle"
  BY <1>9 DEF ScanWorkers
<1>12. ScanWorkers'
  BY <1>1, <1>2, <1>4, <1>8, <1>10, <1>11 DEF ScanWorkers, PortOf
<1> QED
  BY <1>6, <1>7, <1>12

\* What a worker that ends without a service can lose.
LEMMA AtMostOneLost ==
  ASSUME TargetInv, NEW p \in Running, UNCHANGED <<cfg, services>>,
         worker' = [worker EXCEPT ![p] = "ended"]
  PROVE  /\ Lost' \subseteq Lost \cup {p}
         /\ p \notin Wanted => Lost' = Lost
         /\ IsFiniteSet(Lost) /\ Cardinality(Lost) \in Nat
         /\ Cardinality(Lost') \in Nat /\ Cardinality(Lost') <= Cardinality(Lost) + 1
<1> USE DEF TargetInv
<1>1. cfg \in Setups /\ Wanted' = Wanted /\ ReportedPorts' = ReportedPorts
  BY TargetStays DEF ScanPlace, ReportedPorts
<1>2. Wanted \subseteq DOMAIN cfg.host /\ IsFiniteSet(Wanted)
  BY <1>1, PortsListed, WantedFinite DEF Wanted
<1>3. worker \in [DOMAIN cfg.host -> {"idle", "start", "request", "ended", "failed"}]
  BY DEF ScanWorkers
<1>4. p \in DOMAIN cfg.host /\ worker[p] # "ended"
  BY <1>3 DEF Running
<1>5. \A x \in DOMAIN cfg.host : worker'[x] = "ended" <=> x = p \/ worker[x] = "ended"
  BY <1>3, <1>4
<1>6. Lost' = {x \in Wanted : (x = p \/ worker[x] = "ended") /\ x \notin ReportedPorts}
  BY <1>1, <1>2, <1>5 DEF Lost
<1>7. Lost' \subseteq Lost \cup {p}
  BY <1>6 DEF Lost
<1>8. p \notin Wanted => Lost' = Lost
  BY <1>6 DEF Lost
<1>9. IsFiniteSet(Lost)
  BY <1>2, FS_Subset DEF Lost
<1>10. IsFiniteSet(Lost \cup {p}) /\ Cardinality(Lost \cup {p}) <= Cardinality(Lost) + 1
  <2>1. Cardinality(Lost) \in Nat
    BY <1>9, FS_CardinalityType
  <2>2. /\ IsFiniteSet(Lost \cup {p})
        /\ Cardinality(Lost \cup {p}) = Cardinality(Lost)
             \/ Cardinality(Lost \cup {p}) = Cardinality(Lost) + 1
    BY <1>9, FS_AddElement
  <2> QED
    BY <2>1, <2>2
<1>11. IsFiniteSet(Lost') /\ Cardinality(Lost') <= Cardinality(Lost \cup {p})
  BY <1>7, <1>10, FS_Subset
<1>12. Cardinality(Lost) \in Nat /\ Cardinality(Lost') \in Nat /\ Cardinality(Lost \cup {p}) \in Nat
  BY <1>9, <1>10, <1>11, FS_CardinalityType
<1> QED
  BY <1>7, <1>8, <1>9, <1>10, <1>11, <1>12


LEMMA WorkerStartsStep ==
  ASSUME TargetInv, NEW p \in DOMAIN worker, WorkerStarts(p)
  PROVE  ScanPlace' /\ ScanWorkers' /\ Complete' /\ Reports'
<1> USE DEF TargetInv
<1> DEFINE v == IF cancelled THEN "failed" ELSE "request"
<1>1. /\ UNCHANGED <<cfg, scan, cancelled, faults, tmpFiles, next, services>>
      /\ worker' = [worker EXCEPT ![p] = v] /\ worker[p] = "start"
      /\ v \in {"request", "failed", "ended"}
  BY DEF WorkerStarts
<1> HIDE DEF v
<1>2. p \in Running
  BY <1>1 DEF Running
<1>3. /\ cfg \in Setups /\ faults \in Nat /\ Wanted' = Wanted /\ Services' = Services
      /\ \A s : Truthful(s)' <=> Truthful(s)
  BY <1>1, TargetStays DEF ScanPlace
<1>4. worker \in [DOMAIN cfg.host -> {"idle", "start", "request", "ended", "failed"}]
  BY DEF ScanWorkers
<1>5. cfg.scanner = "httpscan"
  BY <1>1, <1>4 DEF ScanWorkers
<1>6. /\ \A k \in DOMAIN services : worker[PortOf(services[k])] = "ended"
      /\ cancelled \/ Cardinality(Lost) <= faults
  BY <1>5 DEF ScanWorkers
<1>7. Reports' /\ ReportedPorts' = ReportedPorts
  BY <1>1, <1>3 DEF Reports, PortOf, ReportedPorts
<1>8. Wanted \subseteq DOMAIN cfg.host
  BY <1>3, PortsListed DEF Wanted
<1>9. v # "ended"
  BY DEF v
<1>10. \A x \in DOMAIN cfg.host : worker'[x] = "ended" <=> worker[x] = "ended"
  BY <1>1, <1>4, <1>9
<1>11. Lost' = Lost
  BY <1>3, <1>7, <1>8, <1>10 DEF Lost
<1>12. \A k \in DOMAIN services : worker'[PortOf(services[k])] = "ended"
  BY <1>6, <1>8, <1>10 DEF Reports
<1>13. cancelled \/ Cardinality(Lost') <= faults'
  BY <1>1, <1>6, <1>11
<1> QED
  BY <1>1, <1>2, <1>3, <1>7, <1>12, <1>13, WorkerSteps

LEMMA AppendDiffers ==
  ASSUME NEW S, NEW s \in Seq(S), NEW x
  PROVE  Append(s, x) # s
<1>1. Len(Append(s, x)) = Len(s) + 1 /\ Len(s) \in Nat
  OBVIOUS
<1> QED
  BY <1>1

LEMMA ScanPortStep ==
  ASSUME TargetInv, NEW p \in DOMAIN worker, ScanPort(p)
  PROVE  ScanPlace' /\ ScanWorkers' /\ Complete' /\ Reports'
<1> USE DEF TargetInv
<1> DEFINE new == [NewService(Endpoint(p), "unspecified", "") EXCEPT !.methods = <<"GET">>]
           status == Listening(p).plain
<1>1. /\ UNCHANGED <<cfg, scan, cancelled, tmpFiles, next>>
      /\ worker' = [worker EXCEPT ![p] = "ended"] /\ worker[p] = "request"
  BY DEF ScanPort, Closed
<1>2. \/ /\ services' = services
         /\ \/ cancelled /\ faults' = faults
            \/ faults' = faults + 1
            \/ (status = 0 \/ status \in cfg.invalidExitCodes) /\ faults' = faults
      \/ /\ services' = Append(services, new) /\ faults' = faults
         /\ status # 0 /\ status \notin cfg.invalidExitCodes
  BY DEF ScanPort, Invalid, Fault
<1>3. p \in Running
  BY <1>1 DEF Running
<1>4. /\ cfg \in Setups /\ faults \in Nat /\ Wanted' = Wanted /\ Services' = Services
      /\ \A s : Truthful(s)' <=> Truthful(s)
  BY <1>1, TargetStays DEF ScanPlace
<1>5. worker \in [DOMAIN cfg.host -> {"idle", "start", "request", "ended", "failed"}]
  BY DEF ScanWorkers
<1>6. p \in DOMAIN cfg.host
  BY <1>5
<1>7. cfg.scanner = "httpscan"
  BY <1>1, <1>5, <1>6 DEF ScanWorkers
<1>8. /\ \A k \in DOMAIN services : worker[PortOf(services[k])] = "ended"
      /\ cancelled \/ Cardinality(Lost) <= faults
  BY <1>7 DEF ScanWorkers
<1>9. Wanted \subseteq DOMAIN cfg.host
  BY <1>4, PortsListed DEF Wanted
<1>10. \A x \in DOMAIN cfg.host : worker'[x] = "ended" <=> x = p \/ worker[x] = "ended"
  BY <1>1, <1>5
<1>11. p \in ToSet(portsToScan)
  BY <1>1, <1>6 DEF ScanWorkers
<1>12. p \in Wanted <=> status # 0 /\ status \notin cfg.invalidExitCodes
  BY <1>7, <1>11 DEF Wanted, Expected
<1> HIDE DEF new, status
<1>13. CASE services' = services
  <2>1. Reports'
    BY <1>4, <1>13 DEF Reports, PortOf
  <2>2. \A k \in DOMAIN services' : worker'[PortOf(services'[k])] = "ended"
    BY <1>8, <1>9, <1>10, <1>13 DEF Reports
  <2>3. /\ p \notin Wanted => Lost' = Lost
        /\ Cardinality(Lost) \in Nat
        /\ Cardinality(Lost') \in Nat /\ Cardinality(Lost') <= Cardinality(Lost) + 1
    BY <1>1, <1>3, <1>13, AtMostOneLost
  <2>4. cancelled \/ Cardinality(Lost') <= faults'
    <3>1. cancelled => cancelled \/ Cardinality(Lost') <= faults'
      OBVIOUS
    <3>2. CASE faults' = faults + 1
      BY <1>4, <1>8, <2>3, <3>2
    <3>3. CASE p \notin Wanted /\ faults' = faults
      BY <1>4, <1>8, <2>3, <3>3
    <3>4. CASE services' = Append(services, new)
      BY <1>13, <3>4, AppendDiffers DEF Reports
    <3> QED
      BY <1>2, <1>12, <3>1, <3>2, <3>3, <3>4
  <2>5. faults' \in Nat
    BY <1>2, <1>4
  <2> QED
    BY <1>1, <1>3, <2>1, <2>2, <2>4, <2>5, WorkerSteps
<1>14. CASE services' = Append(services, new) /\ p \in Wanted
  <2> DEFINE n == Len(services)
  <2>1. /\ services \in Seq(Services)
        /\ \A k \in DOMAIN services : PortOf(services[k]) \in Wanted /\ Truthful(services[k])
        /\ \A a, b \in DOMAIN services : PortOf(services[a]) = PortOf(services[b]) => a = b
    BY DEF Reports
  <2>2. new \in Services /\ PortOf(new) = p /\ Truthful(new)
    <3> DEFINE base == NewService(Endpoint(p), "unspecified", "")
    <3>1. base \in Services /\ PortOf(base) = p /\ Truthful(base)
      BY <1>4, <1>6, NewFound
    <3>2. new = [base EXCEPT !.methods = <<"GET">>]
      BY DEF new
    <3> HIDE DEF base
    <3>3. new \in Services
      BY <3>1, <3>2 DEF Services
    <3>4. new.endpoint = base.endpoint /\ new.tls = base.tls
      BY <3>1, <3>2 DEF Services
    <3>5. Listening(p).http
      BY <1>4, <1>6, <1>12, <1>14, ListenerKnown DEF status
    <3> QED
      BY <3>1, <3>3, <3>4, <3>5 DEF PortOf, Truthful, HasTLS
  <2>3. n \in Nat /\ DOMAIN services = 1 .. n
    BY <2>1, LenProperties
  <2>4. /\ services' \in Seq(Services) /\ DOMAIN services' = 1 .. n + 1
        /\ services'[n + 1] = new /\ \A k \in 1 .. n : services'[k] = services[k]
    BY <1>14, <2>1, <2>2, <2>3, AppendProperties
  <2> HIDE DEF n
  <2>5. \A k \in 1 .. n + 1 : k = n + 1 \/ k \in 1 .. n
    BY <2>3
  <2>6. \A k \in 1 .. n : PortOf(services[k]) # p
    BY <1>1, <1>8, <2>3
  <2>7. \A k \in DOMAIN services' : PortOf(services'[k]) \in Wanted /\ Truthful(services'[k])
    BY <1>14, <2>1, <2>2, <2>3, <2>4, <2>5
  <2>8. \A a, b \in DOMAIN services' : PortOf(services'[a]) = PortOf(services'[b]) => a = b
    BY <2>1, <2>2, <2>3, <2>4, <2>5, <2>6
  <2>9. Reports'
    BY <1>4, <2>4, <2>7, <2>8 DEF Reports, PortOf
  <2>10. \A k \in DOMAIN services' : worker'[PortOf(services'[k])] = "ended"
    <3>1. \A k \in DOMAIN services' : PortOf(services'[k]) \in DOMAIN cfg.host
      BY <1>9, <2>7
    <3>2. \A k \in 1 .. n : worker[PortOf(services'[k])] = "ended"
      BY <1>8, <2>3, <2>4
    <3> QED
      BY <1>10, <2>2, <2>4, <2>5, <3>1, <3>2
  <2>11. \A x : x \in ReportedPorts' <=> x = p \/ x \in ReportedPorts
    <3>1. ReportedPorts' = {PortOf(services'[k]) : k \in 1 .. n + 1}
      BY <2>4 DEF ReportedPorts, PortOf
    <3>2. ReportedPorts = {PortOf(services[k]) : k \in 1 .. n}
      BY <2>3 DEF ReportedPorts, PortOf
    <3>3. n + 1 \in 1 .. n + 1 /\ \A k \in 1 .. n : k \in 1 .. n + 1
      BY <2>3
    <3> QED
      BY <2>2, <2>4, <2>5, <3>1, <3>2, <3>3
  <2>12. Lost' = Lost
    BY <1>1, <1>4, <1>9, <1>10, <2>11 DEF Lost
  <2>13. faults' = faults
    <3>1. Append(services, new) # services
      BY <2>1, AppendDiffers
    <3> QED
      BY <1>2, <1>14, <3>1
  <2> QED
    BY <1>1, <1>3, <1>4, <1>8, <2>9, <2>10, <2>12, <2>13, WorkerSteps
<1> QED
  BY <1>2, <1>12, <1>13, <1>14


\* group.Wait: whoever was started has ended, and everybody was started.
LEMMA WaitStep ==
  ASSUME TargetInv, WaitForWorkers
  PROVE  ScanPlace' /\ ScanWorkers' /\ Complete' /\ Reports'
<1> USE DEF TargetInv
<1>1. /\ UNCHANGED <<cfg, cancelled, faults, tmpFiles, next, worker, services>>
      /\ scan = "wait" /\ Running = {} /\ scan' \in {"done", "failed"}
      /\ scan' = "done" => \A p \in DOMAIN worker : worker[p] # "failed"
  BY DEF WaitForWorkers, AllEnded, ScanFails
<1>2. /\ cfg \in Setups /\ cfg.scanner = "httpscan" /\ tmpFiles = {}
      /\ faults \in Nat /\ cancelled \in BOOLEAN
  BY <1>1 DEF ScanPlace
<1>3. /\ portsToScan' = portsToScan /\ Services' = Services /\ Wanted' = Wanted
      /\ \A s : Truthful(s)' <=> Truthful(s)
  BY <1>1, TargetStays
<1>4. Reports' /\ ReportedPorts' = ReportedPorts /\ Running' = Running
  BY <1>1, <1>3 DEF Reports, PortOf, ReportedPorts, Running
<1>5. Lost' = Lost
  BY <1>1, <1>3, <1>4 DEF Lost
<1>6. ScanPlace'
  BY <1>1, <1>2 DEF ScanPlace
<1>7. ScanWorkers'
  BY <1>1, <1>2, <1>3, <1>5 DEF ScanWorkers, PortOf
<1>8. Complete'
  <2> SUFFICES ASSUME scan' = "done", NEW p \in Wanted, p \notin ReportedPorts
               PROVE  p \in Lost
    BY <1>1, <1>2, <1>3, <1>4, <1>5 DEF Complete
  <2>1. PICK i \in DOMAIN portsToScan : p = portsToScan[i]
    BY DEF Wanted, ToSet
  <2>2. p \in DOMAIN cfg.host /\ i \in 1 .. Len(portsToScan) /\ Len(portsToScan) \in Nat
    BY <1>2, <2>1, PortsListed
  <2>3. worker \in [DOMAIN cfg.host -> {"idle", "start", "request", "ended", "failed"}]
        /\ next > Len(portsToScan) /\ next \in Nat
    BY <1>1, <2>2 DEF ScanWorkers
  <2>4. worker[p] # "idle"
    BY <2>1, <2>2, <2>3 DEF ScanWorkers
  <2>5. worker[p] \notin {"start", "request"}
    BY <1>1, <2>2, <2>3 DEF Running
  <2>6. worker[p] # "failed"
    BY <1>1, <2>2, <2>3
  <2> QED
    BY <2>2, <2>3, <2>4, <2>5, <2>6 DEF Lost
<1> QED
  BY <1>4, <1>6, <1>7, <1>8

LEMMA ScanSteps ==
  ASSUME TargetInv, Scan
  PROVE  TargetInv'
<1>1. StagePlace' /\ Seen'
  BY ScanKeepsStage
<1>2. ScanPlace' /\ ScanWorkers' /\ Complete' /\ Reports'
  <2>1. CASE NewScanner \/ CreateOutputFile \/ ExecNmap \/ ReadOutput
    BY <2>1, NothingFound
  <2>2. CASE ProcessResults
    BY <2>2, ProcessStep
  <2>3. CASE MarkAll
    BY <2>3, MarkStep
  <2>4. CASE StartWorker
    BY <2>4, StartStep
  <2>5. CASE WaitForWorkers
    BY <2>5, WaitStep
  <2>6. ASSUME NEW p \in DOMAIN worker, WorkerStarts(p) \/ ScanPort(p)
        PROVE  ScanPlace' /\ ScanWorkers' /\ Complete' /\ Reports'
    BY <2>6, WorkerStartsStep, ScanPortStep
  <2> QED
    BY <2>1, <2>2, <2>3, <2>4, <2>5, <2>6 DEF Scan, ScanStep
<1> QED
  BY <1>1, <1>2 DEF TargetInv

LEMMA LeftoverStep ==
  ASSUME TargetInv, Leftover
  PROVE  TargetInv'
<1>1. /\ UNCHANGED <<cfg, scan, cancelled, faults, tmpFiles, next, services, stage, current, step>>
      /\ cancelled
  BY DEF Leftover
<1>2. PICK p \in Running : worker' = [worker EXCEPT ![p] = "ended"]
  BY DEF Leftover, Closed
<1>3. /\ cfg \in Setups /\ faults \in Nat /\ Wanted' = Wanted /\ Services' = Services
      /\ \A s : Truthful(s)' <=> Truthful(s)
  BY <1>1, TargetStays DEF TargetInv, ScanPlace
<1>4. Reports'
  BY <1>1, <1>3 DEF TargetInv, Reports, PortOf
<1>5. \A k \in DOMAIN services : worker'[PortOf(services[k])] = "ended"
  <2>1. worker \in [DOMAIN cfg.host -> {"idle", "start", "request", "ended", "failed"}]
    BY DEF TargetInv, ScanWorkers
  <2>2. p \in DOMAIN cfg.host /\ worker[p] \in {"start", "request"}
    BY <2>1 DEF Running
  <2>3. cfg.scanner = "httpscan"
    BY <2>2 DEF TargetInv, ScanWorkers
  <2>4. \A k \in DOMAIN services : worker[PortOf(services[k])] = "ended"
    BY <2>3 DEF TargetInv, ScanWorkers
  <2>5. \A k \in DOMAIN services : PortOf(services[k]) \in DOMAIN cfg.host
    BY <1>3, PortsListed DEF TargetInv, Reports, Wanted
  <2> QED
    BY <1>2, <2>1, <2>4, <2>5
<1>6. ScanPlace' /\ ScanWorkers' /\ Complete'
  BY <1>1, <1>2, <1>3, <1>4, <1>5, WorkerSteps
<1>7. StagePlace'
  BY <1>1 DEF TargetInv, StagePlace
<1>8. Seen'
  <2>1. \A k, i : Applied(k, i)' <=> Applied(k, i)
    BY <1>1 DEF Applied
  <2> QED
    BY <1>1, <2>1, SeenKept
<1> QED
  BY <1>4, <1>6, <1>7, <1>8 DEF TargetInv


-----------------------------------------------------------------------------
(* Steps of a fingerprinter.                                               *)

\* What a fingerprinter may make of a service: it adds to what is known of it,
\* and only what is so.
Refines(t, s) ==
  /\ t \in Services /\ Truthful(t)
  /\ t.endpoint = s.endpoint
  /\ HasTLS(s) => HasTLS(t)
  /\ IsWebService(s) => IsWebService(t)

LEMMA ServiceAtHand ==
  ASSUME TargetInv, stage = "fingerprint"
  PROVE  /\ current \in DOMAIN services /\ Service \in Services /\ Truthful(Service)
         /\ PortOf(Service) \in DOMAIN cfg.host
         /\ Listener = Dialled(Service.endpoint)
         /\ Refines(Service, Service)
         /\ services = [services EXCEPT ![current] = Service]
<1> USE DEF TargetInv
<1>1. services \in Seq(Services) /\ current \in 1 .. Len(services) /\ cfg \in Setups
  BY DEF Reports, StagePlace, ScanPlace
<1>2. current \in DOMAIN services
  BY <1>1, LenProperties
<1>3. Service \in Services
  BY <1>1, ElementOfSeq DEF Service
<1>4. Truthful(Service) /\ PortOf(Service) \in Wanted
  BY <1>2 DEF Reports, Service
<1>5. PortOf(Service) \in DOMAIN cfg.host
  BY <1>1, <1>4, PortsListed DEF Wanted
<1>6. Listener = Dialled(Service.endpoint)
  BY DEF Listener
<1>7. services = [services EXCEPT ![current] = Service]
  BY <1>1, <1>2 DEF Service
<1> QED
  BY <1>2, <1>3, <1>4, <1>5, <1>6, <1>7 DEF Refines

LEMMA SslSupportStep ==
  ASSUME TargetInv, stage = "fingerprint", sslsupport(Service)
  PROVE  /\ faults' = faults \/ faults' = faults + 1
         /\ \E t \in Services :
              /\ Refines(t, Service)
              /\ services' = [services EXCEPT ![current] = t]
              /\ faults' = faults /\ Listener.tls => HasTLS(t)
<1> DEFINE s == Service
           t == [s EXCEPT !.tls = Append(@, "TLSv1.3")]
<1>1. /\ s \in Services /\ Truthful(s) /\ PortOf(s) \in DOMAIN cfg.host
      /\ Listener = Dialled(s.endpoint) /\ Refines(s, s)
      /\ services = [services EXCEPT ![current] = s]
  BY ServiceAtHand
<1>2. faults' = faults \/ faults' = faults + 1
  BY DEF sslsupport, Fault
<1>3. CASE HasTLS(s) /\ services' = services
  BY <1>1, <1>2, <1>3
<1>4. CASE ~HasTLS(s) /\ ~Listener.tls /\ services' = services
  BY <1>1, <1>2, <1>4
<1>5. CASE services' = services /\ faults' = faults + 1
  <2>1. faults \in Nat
    BY DEF TargetInv, ScanPlace
  <2>2. faults' # faults
    BY <1>5, <2>1
  <2> QED
    BY <1>1, <1>2, <1>5, <2>2
<1>6. CASE ~HasTLS(s) /\ Listener.tls /\ services' = [services EXCEPT ![current] = t]
  <2> HIDE DEF s
  <2>1. s.tls = <<>>
    BY <1>6 DEF HasTLS
  <2>2. Append(<<>>, "TLSv1.3") = <<"TLSv1.3">>
    OBVIOUS
  <2>3. t = [s EXCEPT !.tls = <<"TLSv1.3">>]
    BY <2>1, <2>2
  <2> HIDE DEF t
  <2>4. t \in Services /\ t.tls = <<"TLSv1.3">> /\ t.methods = s.methods /\ t.endpoint = s.endpoint
    BY <1>1, <2>3 DEF Services
  <2>5. PortOf(t) = PortOf(s) /\ HasTLS(t) /\ (IsWebService(s) <=> IsWebService(t))
        /\ Dialled(t.endpoint) = Listener
    BY <1>1, <2>4 DEF PortOf, HasTLS, IsWebService
  <2>6. Truthful(t)
    BY <1>1, <1>6, <2>5 DEF Truthful
  <2>7. Refines(t, s)
    BY <2>4, <2>5, <2>6 DEF Refines
  <2> QED
    BY <1>2, <1>6, <2>4, <2>5, <2>7 DEF s
<1> QED
  <2>1. \/ HasTLS(s) /\ services' = services
        \/ ~HasTLS(s) /\ Listener.tls /\ services' = [services EXCEPT ![current] = t]
        \/ ~HasTLS(s) /\ ~Listener.tls /\ services' = services
        \/ services' = services /\ faults' = faults + 1
    BY DEF sslsupport, Enrich, Fault
  <2> QED
    BY <1>3, <1>4, <1>5, <1>6, <2>1

LEMMA IsWebServiceStep ==
  ASSUME TargetInv, stage = "fingerprint", iswebservice(Service)
  PROVE  /\ faults' = faults \/ faults' = faults + 1
         /\ \E t \in Services :
              /\ Refines(t, Service)
              /\ services' = [services EXCEPT ![current] = t]
              /\ faults' = faults /\ Listener.http /\ (Listener.tls <=> HasTLS(Service))
                   => IsWebService(t)
<1> DEFINE s == Service
           t == [s EXCEPT !.methods = AddMethod(@, "GET")]
<1>1. /\ s \in Services /\ Truthful(s) /\ PortOf(s) \in DOMAIN cfg.host
      /\ Listener = Dialled(s.endpoint) /\ Refines(s, s)
      /\ services = [services EXCEPT ![current] = s]
  BY ServiceAtHand
<1>2. faults' = faults \/ faults' = faults + 1
  BY DEF iswebservice, Fault
<1>3. cfg \in Setups /\ faults \in Nat
  BY DEF TargetInv, ScanPlace
<1>4. /\ Listener.plain # 0 => Listener.http
      /\ Listener.http /\ ~Listener.tls => Listener.plain # 0
  BY <1>1, <1>3, DialledKnown DEF PortOf
<1>5. BuildWebRoot(s).scheme = IF HasTLS(s) THEN "https" ELSE "http"
  BY <1>1, <1>3, RootScheme
<1>6. /\ Answers(BuildWebRoot(s)) => Listener.http
      /\ Listener.http /\ (Listener.tls <=> HasTLS(s)) => Answers(BuildWebRoot(s))
  BY <1>4, <1>5 DEF Answers
<1>7. CASE ~Answers(BuildWebRoot(s)) /\ services' = services
  BY <1>1, <1>2, <1>6, <1>7
<1>8. CASE services' = services /\ faults' = faults + 1
  <2>1. faults' # faults
    BY <1>3, <1>8
  <2> QED
    BY <1>1, <1>2, <1>8, <2>1
<1>9. CASE Answers(BuildWebRoot(s)) /\ services' = [services EXCEPT ![current] = t]
  <2> HIDE DEF s
  <2>1. s.methods \in {<<>>, <<"GET">>, <<"GET", "POST">>}
    BY <1>1 DEF Services
  <2>2. AddMethod(s.methods, "GET") \in {<<"GET">>, <<"GET", "POST">>}
    <3>1. Append(<<>>, "GET") = <<"GET">>
      OBVIOUS
    <3>2. ~Contains(<<>>, "GET")
      BY DEF Contains
    <3>3. Contains(<<"GET">>, "GET")
      BY DEF Contains
    <3>4. Contains(<<"GET", "POST">>, "GET")
      BY DEF Contains
    <3> QED
      BY <2>1, <3>1, <3>2, <3>3, <3>4 DEF AddMethod, AppendNew
  <2> DEFINE ms == AddMethod(s.methods, "GET")
  <2>3. t = [s EXCEPT !.methods = ms]
    OBVIOUS
  <2>4. ms \in {<<>>, <<"GET">>, <<"GET", "POST">>} /\ ms # <<>>
    <3> HIDE DEF ms
    <3>1. ms \in {<<"GET">>, <<"GET", "POST">>}
      BY <2>2 DEF ms
    <3>2. <<"GET">> # <<>> /\ <<"GET", "POST">> # <<>>
      OBVIOUS
    <3> QED
      BY Zenon, <3>1, <3>2
  <2> HIDE DEF t, ms
  <2>5. t \in Services /\ t.methods = ms /\ t.tls = s.tls /\ t.endpoint = s.endpoint
    BY <1>1, <2>3, <2>4 DEF Services
  <2>6. PortOf(t) = PortOf(s) /\ IsWebService(t) /\ (HasTLS(s) <=> HasTLS(t))
        /\ Dialled(t.endpoint) = Listener
    BY <1>1, <2>4, <2>5 DEF PortOf, HasTLS, IsWebService
  <2>7. Truthful(t)
    BY <1>1, <1>6, <1>9, <2>6 DEF Truthful
  <2>8. Refines(t, s)
    BY <2>5, <2>6, <2>7 DEF Refines
  <2> QED
    BY <1>2, <1>9, <2>5, <2>6, <2>8 DEF s
<1> QED
  <2>1. \/ Answers(BuildWebRoot(s)) /\ services' = [services EXCEPT ![current] = t]
        \/ ~Answers(BuildWebRoot(s)) /\ services' = services
        \/ services' = services /\ faults' = faults + 1
    BY DEF iswebservice, Enrich, Fault
  <2> QED
    BY <1>7, <1>8, <1>9, <2>1


LEMMA ServiceReplaced ==
  ASSUME TargetInv, stage = "fingerprint", NEW t, Refines(t, Service),
         services' = [services EXCEPT ![current] = t],
         UNCHANGED <<cfg, scan, cancelled, tmpFiles, next, worker>>,
         faults' \in Nat, faults' >= faults
  PROVE  /\ ScanPlace' /\ ScanWorkers' /\ Complete' /\ Reports'
         /\ DOMAIN services' = DOMAIN services /\ Len(services') = Len(services)
         /\ \A k \in DOMAIN services :
              /\ services'[k].endpoint = services[k].endpoint
              /\ HasTLS(services[k]) => HasTLS(services'[k])
              /\ IsWebService(services[k]) => IsWebService(services'[k])
<1> USE DEF TargetInv
<1>1. /\ current \in DOMAIN services /\ t \in Services /\ services[current] = Service
      /\ services \in Seq(Services) /\ scan = "done"
      /\ cfg \in Setups /\ faults \in Nat /\ cancelled \in BOOLEAN
  BY ServiceAtHand DEF Refines, Service, Reports, StagePlace, ScanPlace
<1>2. /\ Wanted' = Wanted /\ Services' = Services /\ portsToScan' = portsToScan
      /\ \A s : Truthful(s)' <=> Truthful(s)
  BY TargetStays
<1>3. services' \in Seq(Services)
  BY <1>1, ExceptSeq
<1>4. DOMAIN services' = DOMAIN services /\ Len(services') = Len(services)
  BY <1>1, <1>3, ExceptSeq, LenProperties
<1>5. \A k \in DOMAIN services : services'[k] = IF k = current THEN t ELSE services[k]
  BY <1>1
<1>6. \A k \in DOMAIN services :
        /\ services'[k].endpoint = services[k].endpoint
        /\ PortOf(services'[k]) = PortOf(services[k])
        /\ HasTLS(services[k]) => HasTLS(services'[k])
        /\ IsWebService(services[k]) => IsWebService(services'[k])
  BY <1>1, <1>5 DEF Refines, PortOf
<1>7. \A k \in DOMAIN services : Truthful(services'[k])
  BY <1>5 DEF Refines, Reports
<1>8. Reports'
  <2>1. \A k \in DOMAIN services' : PortOf(services'[k]) \in Wanted /\ Truthful(services'[k])
    BY <1>4, <1>6, <1>7 DEF Reports
  <2>2. \A a, b \in DOMAIN services' : PortOf(services'[a]) = PortOf(services'[b]) => a = b
    BY <1>4, <1>6 DEF Reports
  <2> QED
    BY <1>2, <1>3, <2>1, <2>2 DEF Reports, PortOf
<1>9. ReportedPorts' = ReportedPorts /\ Running' = Running
  <2>1. ReportedPorts' = {PortOf(services'[k]) : k \in DOMAIN services'}
    BY DEF ReportedPorts, PortOf
  <2>2. ReportedPorts = {PortOf(services[k]) : k \in DOMAIN services}
    BY DEF ReportedPorts, PortOf
  <2>3. ReportedPorts' = ReportedPorts
    BY <1>4, <1>6, <2>1, <2>2
  <2>4. Running' = Running
    BY DEF Running
  <2> QED
    BY <2>3, <2>4
<1>10. Lost' = Lost
  BY <1>2, <1>9 DEF Lost
<1>11. ScanPlace'
  BY <1>1 DEF ScanPlace
<1>12. ScanWorkers'
  <2>1. cfg.scanner = "httpscan" =>
          \A k \in DOMAIN services' : worker[PortOf(services'[k])] = "ended"
    BY <1>4, <1>6 DEF ScanWorkers
  <2>2. cfg.scanner = "httpscan" => cancelled \/ Cardinality(Lost) <= faults'
    <3>1. Cardinality(Lost) \in Nat
      BY <1>1, WantedFinite, FS_Subset, FS_CardinalityType DEF Lost
    <3>2. cfg.scanner = "httpscan" => cancelled \/ Cardinality(Lost) <= faults
      BY DEF ScanWorkers
    <3> QED
      BY <1>1, <3>1, <3>2
  <2> QED
    BY <1>1, <1>2, <1>10, <2>1, <2>2 DEF ScanWorkers, PortOf
<1>13. Complete'
  BY <1>2, <1>9, <1>10 DEF Complete
<1> QED
  BY <1>4, <1>6, <1>8, <1>11, <1>12, <1>13

\* The order in which fingerprinters have their turn.
LEMMA TurnOver ==
  ASSUME TargetInv, stage = "fingerprint", Fingerprinted,
         UNCHANGED <<cfg, scan>>, Len(services') = Len(services)
  PROVE  /\ StagePlace'
         /\ \A k \in DOMAIN services, i \in DOMAIN cfg.fps :
              Applied(k, i)' => Applied(k, i) \/ (k = current /\ i = step)
<1>1. /\ cfg.fps \in Seq({"sslsupport", "iswebservice"}) /\ services \in Seq(Services)
      /\ current \in 1 .. Len(services) /\ step \in 1 .. Len(cfg.fps) /\ scan = "done"
  BY Settings DEF TargetInv, ScanPlace, Reports, StagePlace
<1>2. /\ DOMAIN services = 1 .. Len(services) /\ Len(services) \in Nat
      /\ DOMAIN cfg.fps = 1 .. Len(cfg.fps) /\ Len(cfg.fps) \in Nat
  BY <1>1, LenProperties
<1>3. CASE step < Len(cfg.fps)
  <2>1. step' = step + 1 /\ stage' = stage /\ current' = current
    BY <1>3 DEF Fingerprinted
  <2>2. StagePlace'
    BY <1>1, <1>2, <1>3, <2>1 DEF StagePlace
  <2>3. \A k \in DOMAIN services, i \in DOMAIN cfg.fps :
          Applied(k, i)' => Applied(k, i) \/ (k = current /\ i = step)
    BY <1>1, <1>2, <2>1 DEF Applied
  <2> QED
    BY <2>2, <2>3
<1>4. CASE ~(step < Len(cfg.fps)) /\ current < Len(services)
  <2>1. step' = 1 /\ stage' = stage /\ current' = current + 1
    BY <1>4 DEF Fingerprinted, AfterService
  <2>2. StagePlace'
    BY <1>1, <1>2, <1>4, <2>1 DEF StagePlace
  <2>3. \A k \in DOMAIN services, i \in DOMAIN cfg.fps :
          Applied(k, i)' => Applied(k, i) \/ (k = current /\ i = step)
    BY <1>1, <1>2, <1>4, <2>1 DEF Applied
  <2> QED
    BY <2>2, <2>3
<1>5. CASE ~(step < Len(cfg.fps)) /\ ~(current < Len(services))
  <2>1. step' = 1 /\ stage' = "detect" /\ current' = 1
    BY <1>5 DEF Fingerprinted, AfterService
  <2>2. StagePlace'
    BY <1>1, <2>1 DEF StagePlace
  <2>3. \A k \in DOMAIN services, i \in DOMAIN cfg.fps :
          Applied(k, i) \/ (k = current /\ i = step)
    BY <1>1, <1>2, <1>5 DEF Applied
  <2> QED
    BY <2>2, <2>3
<1> QED
  BY <1>3, <1>4, <1>5

LEMMA FingerprintStep ==
  ASSUME TargetInv, FingerprintService
  PROVE  TargetInv'
<1> USE DEF TargetInv
<1>1. /\ UNCHANGED <<cfg, scan, cancelled, tmpFiles, next, worker>> /\ stage = "fingerprint"
  BY DEF FingerprintService
<1>2. /\ faults \in Nat /\ cancelled \in BOOLEAN /\ cfg \in Setups
      /\ services \in Seq(Services) /\ scan = "done"
      /\ current \in 1 .. Len(services) /\ step \in 1 .. Len(cfg.fps)
  BY <1>1 DEF ScanPlace, Reports, StagePlace
<1>3. CASE cancelled
  <2>1. stage' = "over" /\ UNCHANGED <<services, faults>>
    BY <1>3 DEF FingerprintService
  <2>2. ScanPlace' /\ ScanWorkers' /\ Complete' /\ Reports'
    BY <1>1, <1>2, <2>1, ReportKept
  <2>3. StagePlace'
    BY <2>1 DEF StagePlace
  <2>4. \A k, i : ~Applied(k, i)'
    BY <2>1 DEF Applied
  <2>5. Seen'
    BY <2>4 DEF Seen
  <2> QED
    BY <2>2, <2>3, <2>5
<1>4. CASE ~cancelled
  <2>1. /\ IF cfg.fps[step] = "sslsupport" THEN sslsupport(Service) ELSE iswebservice(Service)
        /\ Fingerprinted
    BY <1>4 DEF FingerprintService
  <2>2. faults' = faults \/ faults' = faults + 1
    BY <1>1, <2>1, SslSupportStep, IsWebServiceStep
  <2>3. PICK t \in Services :
          /\ Refines(t, Service)
          /\ services' = [services EXCEPT ![current] = t]
          /\ faults' = faults /\ cfg.fps[step] = "sslsupport" /\ Listener.tls => HasTLS(t)
          /\ faults' = faults /\ cfg.fps[step] # "sslsupport" /\ Listener.http
               /\ (Listener.tls <=> HasTLS(Service)) => IsWebService(t)
    <3>1. CASE cfg.fps[step] = "sslsupport"
      <4>1. PICK t \in Services :
              /\ Refines(t, Service)
              /\ services' = [services EXCEPT ![current] = t]
              /\ faults' = faults /\ Listener.tls => HasTLS(t)
        BY Zenon, <1>1, <2>1, <3>1, SslSupportStep
      <4> QED
        BY Zenon, <3>1, <4>1
    <3>2. CASE cfg.fps[step] # "sslsupport"
      <4>1. PICK t \in Services :
              /\ Refines(t, Service)
              /\ services' = [services EXCEPT ![current] = t]
              /\ faults' = faults /\ Listener.http /\ (Listener.tls <=> HasTLS(Service))
                   => IsWebService(t)
        BY Zenon, <1>1, <2>1, <3>2, IsWebServiceStep
      <4> QED
        BY Zenon, <3>2, <4>1
    <3> QED
      BY Zenon, <3>1, <3>2
  <2>4. faults' \in Nat /\ faults' >= faults /\ (faults' = 0 => faults' = faults /\ faults = 0)
    BY <1>2, <2>2
  <2>5. /\ ScanPlace' /\ ScanWorkers' /\ Complete' /\ Reports'
        /\ DOMAIN services' = DOMAIN services /\ Len(services') = Len(services)
        /\ \A k \in DOMAIN services :
             /\ services'[k].endpoint = services[k].endpoint
             /\ HasTLS(services[k]) => HasTLS(services'[k])
             /\ IsWebService(services[k]) => IsWebService(services'[k])
    BY <1>1, <2>3, <2>4, ServiceReplaced
  <2>6. /\ StagePlace'
        /\ \A k \in DOMAIN services, i \in DOMAIN cfg.fps :
             Applied(k, i)' => Applied(k, i) \/ (k = current /\ i = step)
    BY <1>1, <2>1, <2>5, TurnOver
  <2>7. Seen'
    <3> SUFFICES ASSUME faults' = 0, NEW k \in DOMAIN services, NEW i \in DOMAIN cfg.fps,
                        Applied(k, i)'
                 PROVE  LET d == Dialled(services[k].endpoint) IN
                        /\ cfg.fps[i] = "sslsupport" /\ d.tls => HasTLS(services'[k])
                        /\ /\ cfg.fps[i] = "iswebservice" /\ d.http
                           /\ d = Listening(PortOf(services[k]))
                           /\ \E h \in DOMAIN cfg.fps : h < i /\ cfg.fps[h] = "sslsupport"
                           => IsWebService(services'[k])
      <4>1. (\A p : Listening(p)' = Listening(p)) /\ (\A e : Dialled(e)' = Dialled(e))
        BY <1>1, TargetStays
      <4> QED
        BY <1>1, <2>5, <4>1 DEF Seen, PortOf, HasTLS, IsWebService
    <3> DEFINE d == Dialled(services[k].endpoint)
               n == Listening(PortOf(services[k]))
    <3>1. faults = 0 /\ faults' = faults
      BY <2>4
    <3>2. CASE Applied(k, i)
      <4>1. /\ cfg.fps[i] = "sslsupport" /\ d.tls => HasTLS(services[k])
            /\ /\ cfg.fps[i] = "iswebservice" /\ d.http /\ d = n
               /\ \E h \in DOMAIN cfg.fps : h < i /\ cfg.fps[h] = "sslsupport"
               => IsWebService(services[k])
        BY <3>1, <3>2 DEF Seen
      <4> QED
        BY <2>5, <4>1
    <3>3. CASE k = current /\ i = step
      <4>1. services[k] = Service /\ d = Listener /\ services'[k] = t
        BY <1>2, <2>3, <3>3 DEF Service, Listener
      <4>2. cfg.fps[i] = "sslsupport" /\ d.tls => HasTLS(services'[k])
        BY <2>3, <3>1, <3>3, <4>1
      <4>3. ASSUME cfg.fps[i] = "iswebservice", d.http, d = n,
                   NEW h \in DOMAIN cfg.fps, h < i, cfg.fps[h] = "sslsupport"
            PROVE  IsWebService(services'[k])
        <5>1. Applied(k, h)
          BY <1>1, <3>3, <4>3 DEF Applied
        <5>2. d.tls <=> HasTLS(services[k])
          <6>1. d.tls => HasTLS(services[k])
            BY <3>1, <4>3, <5>1 DEF Seen
          <6>2. HasTLS(services[k]) => d.tls
            BY <4>3 DEF Reports, Truthful
          <6> QED
            BY <6>1, <6>2
        <5>3. cfg.fps[step] # "sslsupport" /\ Listener.http /\ (Listener.tls <=> HasTLS(Service))
          BY <3>3, <4>1, <4>3, <5>2
        <5>4. IsWebService(t)
          BY <2>3, <3>1, <5>3
        <5> QED
          BY <4>1, <5>4
      <4> QED
        BY <4>2, <4>3
    <3> QED
      BY <2>6, <3>2, <3>3
  <2> QED
    BY <2>5, <2>6, <2>7
<1> QED
  BY <1>3, <1>4

LEMMA StepTargetInv == TargetInv /\ [TargetNext]_targetVars => TargetInv'
<1> SUFFICES ASSUME TargetInv, [TargetNext]_targetVars
             PROVE  TargetInv'
  OBVIOUS
<1>1. CASE BuildStore \/ PrepareStore
  BY <1>1, StoreSteps
<1>2. CASE Scan
  BY <1>2, ScanSteps
<1>3. CASE Proceed
  BY <1>3, ProceedStep
<1>4. CASE FingerprintService
  BY <1>4, FingerprintStep
<1>5. CASE DetectWeak \/ DetectBypass \/ DetectNothing
  BY <1>5, DetectionSteps
<1>6. CASE Leftover
  BY <1>6, LeftoverStep
<1>7. CASE CancelTarget \/ Over \/ UNCHANGED targetVars
  BY <1>7, OtherTargetSteps
<1> QED
  BY <1>1, <1>2, <1>3, <1>4, <1>5, <1>6, <1>7 DEF TargetNext

LEMMA SpecTargetInv == TargetSpec => []TargetInv
BY InitTargetInv, StepTargetInv, PTL DEF TargetSpec

-----------------------------------------------------------------------------
(* The address that was given.                                             *)

LEMMA AddressKept ==
  ASSUME Addressed, UNCHANGED <<cfg, services>>, faults' = 0 => faults = 0
  PROVE  Addressed'
BY DEF Addressed, IsIP

LEMMA ProcessAddressed ==
  ASSUME TargetInv, Addressed, ProcessResults
  PROVE  Addressed'
<1>1. /\ cfg \in Setups /\ cfg' = cfg /\ faults \in Nat /\ cfg.scanner = "nmap"
      /\ scan = "process"
  BY DEF TargetInv, ScanPlace, ProcessResults
<1>2. \A f \in {faults, faults + 1} : f = 0 => f = faults
  BY <1>1
<1>3. CASE services' = services
  <2>1. faults' \in {faults, faults + 1}
    BY DEF ProcessResults, Fault
  <2> QED
    BY <1>1, <1>2, <1>3, <2>1, AddressKept
<1>4. ASSUME NEW host \in {HostFound, [HostFound EXCEPT !.addresses = <<>>]},
             IF host = HostFound THEN UNCHANGED faults ELSE Fault,
             ~NoAddressOrHostname(host), services' = ServicesAt(parseNetworkEndpoint(host))
      PROVE  Addressed'
  <2>1. CASE host = HostFound
    <3>1. IsIP(cfg.target) => \A j \in DOMAIN services' : services'[j].endpoint.ip = cfg.target
      BY <1>1, <1>4, <2>1, ServicesFound
    <3> QED
      BY <1>1, <3>1 DEF Addressed, IsIP
  <2>2. CASE host # HostFound
    <3>1. faults' # 0
      BY <1>1, <1>4, <2>2 DEF Fault
    <3> QED
      BY <3>1 DEF Addressed
  <2> QED
    BY <2>1, <2>2
<1> QED
  BY <1>3, <1>4 DEF ProcessResults

LEMMA NewAddressed ==
  ASSUME TargetInv, Addressed, MarkAll \/ \E p \in DOMAIN worker : ScanPort(p)
  PROVE  Addressed'
<1>1. cfg \in Setups /\ cfg' = cfg /\ faults \in Nat /\ services \in Seq(Services)
  BY DEF TargetInv, ScanPlace, Reports, MarkAll, ScanPort
<1>2. CASE MarkAll
  <2>1. \A k \in 1 .. Len(cfg.ports) : cfg.ports[k] \in DOMAIN cfg.host
    BY <1>1, Settings, LenProperties, ElementOfSeq
  <2>2. IsIP(cfg.target) =>
          \A k \in 1 .. Len(cfg.ports) : Endpoint(cfg.ports[k]).ip = cfg.target
    BY <1>1, <2>1, NewFound
  <2>3. services' = [k \in 1 .. Len(cfg.ports) |->
                       NewService(Endpoint(cfg.ports[k]), "unspecified", "")]
    BY <1>2 DEF MarkAll
  <2>4. \A k \in DOMAIN services' : services'[k].endpoint = Endpoint(cfg.ports[k])
    BY <2>3 DEF NewService
  <2>5. DOMAIN services' = 1 .. Len(cfg.ports)
    BY <2>3
  <2> QED
    BY <1>1, <2>2, <2>4, <2>5 DEF Addressed, IsIP
<1>3. ASSUME NEW p \in DOMAIN worker, ScanPort(p)
      PROVE  Addressed'
  <2>1. CASE services' = services
    <3>1. faults' = faults \/ faults' = faults + 1
      BY <1>3 DEF ScanPort, Fault
    <3>2. faults' = 0 => faults = 0
      BY <1>1, <3>1
    <3> QED
      BY <1>1, <2>1, <3>2, AddressKept
  <2>2. CASE services' # services
    <3> DEFINE new == [NewService(Endpoint(p), "unspecified", "") EXCEPT !.methods = <<"GET">>]
    <3>1. services' = Append(services, new) /\ faults' = faults
      BY <1>3, <2>2 DEF ScanPort
    <3>2. p \in DOMAIN cfg.host
      BY DEF TargetInv, ScanWorkers
    <3>3. IsIP(cfg.target) => new.endpoint.ip = cfg.target
      BY <1>1, <3>2, NewFound DEF NewService
    <3> HIDE DEF new
    <3>4. \A k \in DOMAIN services' :
            services'[k] = new \/ (k \in DOMAIN services /\ services'[k] = services[k])
      BY <1>1, <3>1
    <3> QED
      BY <1>1, <3>1, <3>3, <3>4 DEF Addressed, IsIP
  <2> QED
    BY <2>1, <2>2
<1> QED
  BY <1>2, <1>3

LEMMA FingerprintAddressed ==
  ASSUME TargetInv, Addressed, FingerprintService
  PROVE  Addressed'
<1>1. /\ stage = "fingerprint" /\ cfg' = cfg /\ faults \in Nat
      /\ services \in Seq(Services)
  BY DEF TargetInv, ScanPlace, Reports, FingerprintService
<1>2. CASE cancelled
  <2>1. services' = services /\ faults' = faults
    BY <1>2 DEF FingerprintService
  <2> QED
    BY <1>1, <2>1, AddressKept
<1>3. CASE ~cancelled
  <2>1. sslsupport(Service) \/ iswebservice(Service)
    BY <1>3 DEF FingerprintService
  <2>2. faults' = 0 => faults = 0
    BY <1>1, <2>1, SslSupportStep, IsWebServiceStep
  <2>3. PICK t \in Services :
          t.endpoint = Service.endpoint /\ services' = [services EXCEPT ![current] = t]
    BY Zenon, <1>1, <2>1, SslSupportStep, IsWebServiceStep DEF Refines
  <2>4. \A k \in DOMAIN services : services'[k].endpoint = services[k].endpoint
    BY <2>3 DEF Service
  <2>5. DOMAIN services' = DOMAIN services
    BY <2>3
  <2> QED
    BY <1>1, <2>2, <2>4, <2>5 DEF Addressed, IsIP
<1> QED
  BY <1>2, <1>3

LEMMA StepAddressed == TargetInv /\ Addressed /\ [TargetNext]_targetVars => Addressed'
<1> SUFFICES ASSUME TargetInv, Addressed, [TargetNext]_targetVars
             PROVE  Addressed'
  OBVIOUS
<1>1. faults \in Nat
  BY DEF TargetInv, ScanPlace
<1>2. CASE FingerprintService
  BY <1>2, FingerprintAddressed
<1>3. CASE ProcessResults \/ MarkAll \/ \E p \in DOMAIN worker : ScanPort(p)
  BY <1>3, ProcessAddressed, NewAddressed
<1>4. ASSUME cfg' = cfg, services' = services, faults' = faults \/ faults' = faults + 1
      PROVE  Addressed'
  <2>1. faults' = 0 => faults = 0
    BY <1>1, <1>4
  <2> QED
    BY <1>4, <2>1, AddressKept
<1>5. CASE \/ NewScanner \/ CreateOutputFile \/ ExecNmap \/ ReadOutput
           \/ StartWorker \/ WaitForWorkers \/ \E p \in DOMAIN worker : WorkerStarts(p)
  BY <1>4, <1>5 DEF NewScanner, CreateOutputFile, ExecNmap, ReadOutput, StartWorker,
                    WaitForWorkers, WorkerStarts, Fault
<1>6. CASE BuildStore \/ PrepareStore \/ Proceed \/ DetectNothing \/ CancelTarget \/ Leftover
           \/ Over \/ UNCHANGED targetVars
  BY <1>4, <1>6 DEF BuildStore, PrepareStore, Proceed, DetectNothing, CancelTarget, Leftover,
                    Over, targetVars, scanVars
<1>7. CASE DetectWeak
  BY <1>4, <1>7 DEF DetectWeak, Connects, Fault
<1>8. CASE DetectBypass
  BY <1>4, <1>8 DEF DetectBypass, Connects, Fault
<1> QED
  BY <1>2, <1>3, <1>5, <1>6, <1>7, <1>8 DEF TargetNext, Scan, ScanStep

LEMMA SpecAddressed == TargetSpec => []Addressed
<1>1. TargetInit => Addressed
  BY DEF TargetInit, ScanInit, Addressed
<1> QED
  BY <1>1, StepAddressed, SpecTargetInv, PTL DEF TargetSpec

-----------------------------------------------------------------------------
(* The theorems about a target.                                            *)

\* Whatever listens on a target, whichever scanner, workers and failures: a
\* report names the requested ports that are there, each once, at the name or
\* the address given or else at nmap's reverse name of that address, which
\* without a fault is kept beside it; what it misses httpscan has lost, a port
\* for a failed request or because it was cancelled.
THEOREM ScanIsExact == TargetSpec => []ScanExact
BY SpecTargetInv, SpecAddressed, InvScanExact, PTL

\* Whatever the fingerprinters and their order: TLS and web services that are
\* neither at the target nor where a service is dialled are not invented, and
\* without a fault none is missed once TLS was looked for first and a reverse
\* name, if any, leads back.
THEOREM EnrichmentIsTrue == TargetSpec => []EnrichmentTrue
BY SpecTargetInv, InvEnrichment, PTL
=============================================================================
