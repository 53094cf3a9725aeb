------------------------------ MODULE WorkerPool ------------------------------
(***************************************************************************)
(* The brute-force detector of common/bruteforce: Detector.Detect          *)
(* fingerprints a service, turns the credential store into an ordered list *)
(* of candidates and hands it to testCredentials, which drains a prefilled *)
(* closed channel with an errgroup of workers.  Every use of the pool's    *)
(* mutex in worker.go is one action here, so that the checks a worker made *)
(* earlier may be stale when it acts on them.                              *)
(*                                                                         *)
(* A credential is its index in the candidate list.  Since workCh is       *)
(* filled in order and closed before a worker starts, the channel is the   *)
(* number `head' of the next index to be received.                         *)
(***************************************************************************)
EXTENDS Integers, Sequences, FiniteSets

CONSTANTS
  NumCreds,        \* len(creds): the candidates generated from the store
  Users,           \* the usernames of the candidates
  UserOf,          \* creds[idx].Username
  MaxConcurrency,  \* BruteForceConfig.max_concurrency, any int32
  MaxAttempts,     \* BruteForceConfig.max_attempts_per_service, <= 0: no limit
  HasDeadline      \* whether the caller's context carries a deadline

Creds == 1 .. NumCreds

ASSUME PoolAssumption ==
  /\ NumCreds \in Nat
  /\ UserOf \in [Creds -> Users]
  /\ MaxConcurrency \in Int
  /\ MaxAttempts \in Int
  /\ HasDeadline \in BOOLEAN

MinOf(a, b) == IF a <= b THEN a ELSE b
MaxOf(a, b) == IF a >= b THEN a ELSE b

NumWorkers ==
  LET bounded == MinOf(MaxOf(1, MaxConcurrency), NumCreds)
  IN  IF MaxAttempts > 0 THEN MinOf(bounded, MaxAttempts) ELSE bounded

Workers == 1 .. NumWorkers

VARIABLES
  stopAtFirst,      \* BruteForceConfig.stop_at_first_valid_credentials
  phase,            \* where Detect is: "entry", "fingerprint", "pool", "returned"
  ctxDone,          \* the caller's context was cancelled or its deadline passed
  groupErr,         \* the errgroup holds an error and has cancelled its context
  head,             \* the next index the work channel delivers
  pc,               \* pc[w]: the next step of the goroutine running worker w
  cur,              \* cur[w]: the index worker w last received, 0 before that
  attempts,         \* workerPool.attempts
  budgetExhausted,  \* workerPool.budgetExhausted
  matched,          \* workerPool.matched, in the order of the appends
  tried,            \* history: TestCredential calls made, per index
  accepted,         \* history: the indices whose TestCredential said true
  late,             \* history: the indices claimed when a check would say stop
  ret               \* what Detect returned

poolVars == <<head, pc, cur, attempts, budgetExhausted, matched, groupErr>>
history  == <<tried, accepted, late>>
vars     == <<stopAtFirst, phase, ctxDone, poolVars, history, ret>>

-----------------------------------------------------------------------------
(* The predicates computed under the mutex.  Definitions whose name has a  *)
(* suffix after an underscore are deliberate faults: the properties below  *)
(* are shown to notice them.                                               *)

BudgetSpent_OneTooMany == MaxAttempts > 0 /\ attempts > MaxAttempts
BudgetSpent == MaxAttempts > 0 /\ attempts >= MaxAttempts

StoppedAtFirst == stopAtFirst /\ Len(matched) > 0

Done_BudgetOnly == budgetExhausted
Done == budgetExhausted \/ StoppedAtFirst

UserDone_AnyUser(u) == Len(matched) > 0
UserDone(u) == \E k \in 1 .. Len(matched) : UserOf[matched[k]] = u

Drained_OffByOne == head > NumCreds + 1
Drained == head > NumCreds

Broken(u) == \E k \in 1 .. Len(matched) : UserOf[matched[k]] = u

grpctxDone == ctxDone \/ groupErr

Goto(w, l) == pc' = [pc EXCEPT ![w] = l]

At(w, l) == phase = "pool" /\ pc[w] = l

EmptyResult(kind) ==
  [kind |-> kind, creds |-> <<>>, attempts |-> 0, exhausted |-> FALSE]

Return(kind) ==
  /\ phase' = "returned"
  /\ ret' = EmptyResult(kind)

Init ==
  /\ stopAtFirst \in BOOLEAN
  /\ phase = "entry"
  /\ ctxDone \in BOOLEAN
  /\ groupErr = FALSE
  /\ head = 1
  /\ pc = [w \in Workers |-> "recv"]
  /\ cur = [w \in Workers |-> 0]
  /\ attempts = 0
  /\ budgetExhausted = FALSE
  /\ matched = <<>>
  /\ tried = [i \in Creds |-> 0]
  /\ accepted = {}
  /\ late = {}
  /\ ret = EmptyResult("none")

-----------------------------------------------------------------------------
(* Detect up to the start of the pool.                                     *)

\* The early ctx.Err() of Detect.
EnterDetect ==
  /\ phase = "entry"
  /\ IF ctxDone THEN Return("error")
                ELSE phase' = "fingerprint" /\ UNCHANGED ret
  /\ UNCHANGED <<stopAtFirst, ctxDone, poolVars, history>>

\* handler.Fingerprint: it fails, does not recognise the service, or the
\* candidates are generated and the workers of the group are started.
Fingerprint ==
  /\ phase = "fingerprint"
  /\ \/ Return("error")
     \/ Return("notMatched")
     \/ phase' = "pool" /\ UNCHANGED ret
  /\ UNCHANGED <<stopAtFirst, ctxDone, poolVars, history>>

\* The caller cancels, or its deadline passes, at any time.
Cancel ==
  /\ ~ctxDone
  /\ phase # "returned"
  /\ ctxDone' = TRUE
  /\ UNCHANGED <<stopAtFirst, phase, poolVars, history, ret>>

-----------------------------------------------------------------------------
(* runWorker.                                                              *)

\* `for idx := range p.workCh' and the ctx.Err() that follows a receive.
Receive(w) ==
  /\ At(w, "recv")
  /\ IF Drained
       THEN Goto(w, "close") /\ UNCHANGED <<head, cur>>
       ELSE /\ cur' = [cur EXCEPT ![w] = head]
            /\ head' = head + 1
            /\ Goto(w, IF grpctxDone THEN "fail" ELSE "done")
  /\ UNCHANGED <<stopAtFirst, phase, ctxDone, groupErr, attempts,
                 budgetExhausted, matched, history, ret>>

\* p.Done(), before and again after the wait for the rate limiter.
CheckDone(w) ==
  /\ \/ At(w, "done") /\ Goto(w, IF Done THEN "close" ELSE "user")
     \/ At(w, "doneAgain") /\ Goto(w, IF Done THEN "close" ELSE "userAgain")
  /\ UNCHANGED <<stopAtFirst, phase, ctxDone, groupErr, head, cur, attempts,
                 budgetExhausted, matched, history, ret>>

\* p.UserDone(cred.Username), before and again after the wait.
CheckUser_Respin(w) ==
  LET skip == UserDone(UserOf[cur[w]])
  IN  /\ \/ At(w, "user") /\ Goto(w, IF skip THEN "done" ELSE "budget")
         \/ At(w, "userAgain") /\ Goto(w, IF skip THEN "done" ELSE "claim")
      /\ UNCHANGED <<stopAtFirst, phase, ctxDone, groupErr, head, cur,
                     attempts, budgetExhausted, matched, history,
                     ret>>

CheckUser(w) ==
  LET skip == UserDone(UserOf[cur[w]])
  IN  /\ \/ At(w, "user") /\ Goto(w, IF skip THEN "recv" ELSE "budget")
         \/ At(w, "userAgain") /\ Goto(w, IF skip THEN "recv" ELSE "claim")
      /\ UNCHANGED <<stopAtFirst, phase, ctxDone, groupErr, head, cur,
                     attempts, budgetExhausted, matched, history,
                     ret>>

HasBudget(w) ==
  /\ At(w, "budget")
  /\ budgetExhausted' = (budgetExhausted \/ BudgetSpent)
  /\ Goto(w, IF BudgetSpent THEN "close" ELSE "wait")
  /\ UNCHANGED <<stopAtFirst, phase, ctxDone, groupErr, head, cur, attempts,
                 matched, history, ret>>

\* limiter.Wait(ctx): it fails once the group's context is done, and also when
\* the context's deadline would pass before the next token is available.
LimiterWait(w) ==
  /\ At(w, "wait")
  /\ \/ ~grpctxDone /\ Goto(w, "doneAgain")
     \/ (grpctxDone \/ HasDeadline) /\ Goto(w, "fail")
  /\ UNCHANGED <<stopAtFirst, phase, ctxDone, groupErr, head, cur, attempts,
                 budgetExhausted, matched, history, ret>>

\* p.claimAttempt(); when it grants the attempt the worker calls the service.
ClaimAttempt(w) ==
  /\ At(w, "claim")
  /\ IF BudgetSpent
       THEN /\ budgetExhausted' = TRUE
            /\ Goto(w, "close")
            /\ UNCHANGED <<attempts, tried, late>>
       ELSE /\ attempts' = attempts + 1
            /\ tried' = [tried EXCEPT ![cur[w]] = @ + 1]
            /\ late' = IF StoppedAtFirst \/ Broken(UserOf[cur[w]])
                       THEN late \cup {cur[w]} ELSE late
            /\ Goto(w, "test")
            /\ UNCHANGED budgetExhausted
  /\ UNCHANGED <<stopAtFirst, phase, ctxDone, groupErr, head, cur, matched,
                 accepted, ret>>

\* The answer of worker.TestCredential: valid, invalid, or an error.
TestCredential(w) ==
  /\ At(w, "test")
  /\ \/ accepted' = accepted \cup {cur[w]} /\ Goto(w, "record")
     \/ UNCHANGED accepted /\ Goto(w, "recv")
     \/ UNCHANGED accepted /\ Goto(w, "fail")
  /\ UNCHANGED <<stopAtFirst, phase, ctxDone, groupErr, head, cur, attempts,
                 budgetExhausted, matched, tried, late, ret>>

RecordMatch(w) ==
  /\ At(w, "record")
  /\ matched' = Append(matched, cur[w])
  /\ Goto(w, "recv")
  /\ UNCHANGED <<stopAtFirst, phase, ctxDone, groupErr, head, cur, attempts,
                 budgetExhausted, history, ret>>

\* The deferred worker.Close(), then the return into errgroup's wrapper, which
\* keeps the first error and cancels the group's context with it.
Exit(w) ==
  /\ At(w, "close") \/ At(w, "fail")
  /\ Goto(w, "exited")
  /\ groupErr' = (groupErr \/ pc[w] = "fail")
  /\ UNCHANGED <<stopAtFirst, phase, ctxDone, head, cur, attempts,
                 budgetExhausted, matched, history, ret>>

-----------------------------------------------------------------------------
\* slices.Sort: p[k] is the place in s of the k-th element of the result.
Reorderings(s) ==
  {[k \in DOMAIN s |-> s[p[k]]] :
     p \in {f \in [DOMAIN s -> DOMAIN s] : \A j, k \in DOMAIN s : f[j] = f[k] => j = k}}

Sorted(s) ==
  CHOOSE t \in Reorderings(s) : \A j, k \in DOMAIN s : j < k => t[j] <= t[k]

\* pool.result(): the matches in candidate order, and the exhausted flag that
\* Detect turns into a metric.
PoolResult_Unsorted ==
  [kind      |-> IF matched = <<>> THEN "noFinding" ELSE "finding",
   creds     |-> matched,
   attempts  |-> attempts,
   exhausted |-> budgetExhausted /\ ~StoppedAtFirst]

PoolResult ==
  [kind      |-> IF matched = <<>> THEN "noFinding" ELSE "finding",
   creds     |-> Sorted(matched),
   attempts  |-> attempts,
   exhausted |-> budgetExhausted /\ ~StoppedAtFirst]

\* group.Wait() returns; an error discards everything the pool has found.
Finish ==
  /\ phase = "pool"
  /\ \A w \in Workers : pc[w] = "exited"
  /\ IF groupErr THEN Return("error")
                 ELSE phase' = "returned" /\ ret' = PoolResult
  /\ UNCHANGED <<stopAtFirst, ctxDone, poolVars, history>>

\* Detect has returned: nothing is left to run.
Terminated == phase = "returned" /\ UNCHANGED vars

WorkerStep(w) ==
  \/ Receive(w)
  \/ CheckDone(w)
  \/ CheckUser(w)
  \/ HasBudget(w)
  \/ LimiterWait(w)
  \/ ClaimAttempt(w)
  \/ TestCredential(w)
  \/ RecordMatch(w)
  \/ Exit(w)

Next ==
  \/ EnterDetect
  \/ Fingerprint
  \/ Cancel
  \/ \E w \in Workers : WorkerStep(w)
  \/ Finish
  \/ Terminated

Spec == Init /\ [][Next]_vars

\* Goroutines are scheduled, the handler answers every call it is given and
\* the limiter lets every waiter through eventually.
Fairness ==
  /\ WF_vars(EnterDetect)
  /\ WF_vars(Fingerprint)
  /\ WF_vars(Finish)
  /\ \A w \in Workers : WF_vars(WorkerStep(w))

FairSpec == Spec /\ Fairness

-----------------------------------------------------------------------------
Labels == {"recv", "done", "user", "budget", "wait", "doneAgain", "userAgain",
           "claim", "test", "record", "close", "fail", "exited"}

TypeOK ==
  /\ stopAtFirst \in BOOLEAN
  /\ phase \in {"entry", "fingerprint", "pool", "returned"}
  /\ ctxDone \in BOOLEAN
  /\ groupErr \in BOOLEAN
  /\ head \in 1 .. NumCreds + 1
  /\ pc \in [Workers -> Labels]
  /\ cur \in [Workers -> 0 .. NumCreds]
  /\ attempts \in Nat
  /\ budgetExhausted \in BOOLEAN
  /\ matched \in Seq(Creds)
  /\ tried \in [Creds -> Nat]
  /\ accepted \subseteq Creds
  /\ late \subseteq Creds
  /\ ret.kind \in {"none", "error", "notMatched", "noFinding", "finding"}
  /\ ret.attempts \in Nat
  /\ ret.exhausted \in BOOLEAN

\* No interleaving of workers sends a candidate to the service twice, and the
\* calls really made, not just the counter, never exceed
\* max_attempts_per_service (the check in hasBudget is stale by the time of
\* claimAttempt).
Attempted == {i \in Creds : tried[i] > 0}

BudgetRespected ==
  /\ \A i \in Creds : tried[i] <= 1
  /\ MaxAttempts > 0 => Cardinality(Attempted) <= MaxAttempts

\* When Detect returns without an error nothing was silently left out: unless
\* the budget is reported as exhausted or stop-at-first found something, each
\* candidate was sent to the service or its user was already broken into.
NothingSkipped ==
  ret.kind \in {"noFinding", "finding"} =>
    \/ ret.exhausted
    \/ stopAtFirst /\ accepted # {}
    \/ \A i \in Creds :
          \/ tried[i] = 1
          \/ \E j \in accepted : UserOf[j] = UserOf[i]

\* The budget is reported as exhausted only if it was spent to the last
\* attempt, and a candidate remained that was never sent.
ExhaustedIsTrue ==
  ret.exhausted =>
    /\ ret.attempts = MaxAttempts
    /\ \E i \in Creds : tried[i] = 0

\* The report is exact: it lists each credential the service accepted, also
\* those accepted while the pool was already stopping, in candidate order and
\* once, counts every call that was made, and is right about the budget.
ReportExact ==
  /\ ret.kind \in {"noFinding", "finding"} =>
       /\ {ret.creds[k] : k \in 1 .. Len(ret.creds)} = accepted
       /\ \A k \in 1 .. Len(ret.creds) - 1 : ret.creds[k] < ret.creds[k + 1]
       /\ ret.attempts = Cardinality(Attempted)
  /\ ExhaustedIsTrue

\* Stopping is prompt: after a match for a user has been recorded each of the
\* other workers sends at most one more candidate of that user, and with
\* stop-at-first at most one more candidate at all.
LateAttemptsBounded ==
  /\ \A u \in Users :
        Cardinality({i \in late : UserOf[i] = u}) <= MaxOf(NumWorkers - 1, 0)
  /\ stopAtFirst => Cardinality(late) <= MaxOf(NumWorkers - 1, 0)

\* Every call of Detect returns, whatever is cancelled, fails or is found.
DetectReturns == <>(phase = "returned")
=============================================================================
