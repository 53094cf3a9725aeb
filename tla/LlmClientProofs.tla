--------------------------- MODULE LlmClientProofs ---------------------------
(***************************************************************************)
(* The feedback loop of common/clients/llm: its conversation is coherent,  *)
(* its deadline is long enough, and the client that runs each turn event   *)
(* by event implements the loop that takes a turn in one step, so that     *)
(* what is proved of the loop holds of the client.                         *)
(***************************************************************************)
EXTENDS LlmClient, SequenceTheorems, TLAPS

-----------------------------------------------------------------------------
(* The inductive invariant of the loop.                                    *)

OutOf == {"accepted", "aborted", "refused", "error"}

TurnRecord == [sess : Nat, content : Nat, out : OutOf]

N == Len(turns)

InAttempt == pc \in {"wait", "session", "turn", "verify"}

Running == pc \notin {"entry", "returned"}

LoopType ==
  /\ pc \in {"entry", "head", "wait", "session", "turn", "verify", "returned"}
  /\ verifier \in BOOLEAN
  /\ ctxDone \in BOOLEAN
  /\ attempt \in Nat \ {0}
  /\ now \in Nat
  /\ sessionID \in Nat
  /\ content \in Nat
  /\ created \in Nat
  /\ verifying \in Nat
  /\ now <= Max0(loopTimeout)
  /\ content <= N
  /\ ret \in {"none", "contentRequired", "maxAttempts", "ctxErr", "ok", "abort"}
  /\ turns \in Seq(TurnRecord)

\* An attempt ends with a turn that is recorded.
Numbered ==
  /\ pc # "returned" => attempt = N + 1
  /\ InAttempt => attempt <= MaxAttempts
  /\ pc = "wait" => attempt > 1
  /\ attempt <= Max0(MaxAttempts) + 1
  /\ pc = "entry" => attempt = 1

\* A session is made in an attempt, and one that is yet to be made is new.
SessionsNumbered ==
  /\ sessionID <= created
  /\ \A k \in 1 .. N : turns[k].sess <= created
  /\ created <= (IF pc \in {"turn", "verify", "returned"} THEN attempt ELSE attempt - 1)
  /\ pc \in {"turn", "verify"} => sessionID # 0
  /\ created <= Max0(MaxAttempts)

\* What the next turn will carry is settled by how the last one ended.
NextTurn ==
  pc # "returned" =>
    /\ N = 0 => content = 0 /\ (sessionID = 0 \/ pc \in {"turn", "verify"})
    /\ N > 0 => turns[N].out \in {"refused", "error"}
    /\ N > 0 /\ turns[N].out = "refused" =>
         sessionID = turns[N].sess /\ sessionID # 0 /\ content = N
    /\ N > 0 /\ turns[N].out = "error" =>
         /\ content = 0
         /\ pc \notin {"turn", "verify"} => sessionID = 0
         /\ \A j \in 1 .. N : sessionID # 0 => turns[j].sess # sessionID

\* The clock has run for the turns and the delays of the attempts made, and for
\* the verifications.
TimeSpent ==
  /\ pc \in {"entry", "head"} =>
       now <= (attempt - 1) * TurnTimeout + Max0(attempt - 2) * RetryDelay + verifying
  /\ pc = "wait" =>
       now <= (attempt - 1) * TurnTimeout + (attempt - 2) * RetryDelay + verifying
  /\ pc \in {"session", "turn"} =>
       now <= (attempt - 1) * TurnTimeout + (attempt - 1) * RetryDelay + verifying
  /\ pc = "verify" =>
       now <= attempt * TurnTimeout + (attempt - 1) * RetryDelay + verifying

Returned == (ret # "none") <=> (pc = "returned")

LoopInv ==
  /\ LoopType
  /\ Numbered
  /\ SessionsNumbered
  /\ NextTurn
  /\ TimeSpent
  /\ Returned
  /\ Coherent
  /\ AttemptsNotCutShort

\* The refinement's: the context of a turn ends with the caller's.
TurnTied ==
  /\ caller \in {"select", "check", "returned"}
  /\ ctxDone /\ caller # "returned" => turnDone
  /\ pc = "verify" => caller = "returned"
  /\ expired \in BOOLEAN

-----------------------------------------------------------------------------
(* Arithmetic: the deadline is a product of two constants.                 *)

LEMMA MulNat ==
  ASSUME NEW a \in Nat, NEW b \in Nat
  PROVE  a * b \in Nat
  OBVIOUS

LEMMA MulSucc ==
  ASSUME NEW a \in Int, NEW b \in Int
  PROVE  (a + 1) * b = a * b + b
  OBVIOUS

LEMMA MulMono ==
  ASSUME NEW a \in Nat, NEW b \in Nat, NEW c \in Nat, a <= b
  PROVE  a * c <= b * c
<1>1. b - a \in Nat /\ b = a + (b - a)
  OBVIOUS
<1>2. (b - a) * c \in Nat
  BY <1>1, MulNat
<1>3. (b - a) * c = b * c - a * c
  BY <1>1
<1>4. a * c \in Nat /\ b * c \in Nat
  BY MulNat
<1> QED
  BY <1>2, <1>3, <1>4

LEMMA TimesNat ==
  /\ TurnTimeout \in Nat /\ RetryDelay \in Nat /\ MaxVerify \in Nat /\ MaxAttempts \in Int
  /\ \A a \in Int : a * TurnTimeout \in Int /\ a * RetryDelay \in Int
  /\ \A a \in Nat : a * TurnTimeout \in Nat /\ a * RetryDelay \in Nat
  /\ loopTimeout \in Int /\ Max0(loopTimeout) \in Nat
  BY LoopAssumption, MulNat DEF loopTimeout, Max0

\* A turn that is recorded.
LEMMA RecordTurn ==
  ASSUME LoopType, NEW s \in Nat, NEW o \in OutOf,
         turns' = Append(turns, [sess |-> s, content |-> content, out |-> o])
  PROVE  /\ turns' \in Seq(TurnRecord)
         /\ N \in Nat /\ N' = N + 1 /\ N + 1 > 0
         /\ \A k \in 1 .. N : turns'[k] = turns[k]
         /\ turns'[N + 1] = [sess |-> s, content |-> content, out |-> o]
<1>1. [sess |-> s, content |-> content, out |-> o] \in TurnRecord
  BY DEF LoopType, TurnRecord
<1> QED
  BY <1>1, AppendProperties DEF LoopType, N

-----------------------------------------------------------------------------
(* The steps, as far as the invariants tell them apart.                    *)

\* A turn has failed: it is recorded, and the loop goes on unless the caller is
\* gone.
LEMMA FailedTurn ==
  ASSUME LoopType, NEW s \in Nat, TurnFailed(s)
  PROVE  /\ turns' \in Seq(TurnRecord)
         /\ N \in Nat /\ N' = N + 1
         /\ \A k \in 1 .. N : turns'[k] = turns[k]
         /\ turns'[N + 1].sess = s /\ turns'[N + 1].content = content
         /\ turns'[N + 1].out = "error"
         /\ \/ /\ ctxDone /\ pc' = "returned" /\ ret' = "ctxErr"
               /\ UNCHANGED loopVars
            \/ /\ ~ctxDone /\ pc' = "head" /\ UNCHANGED ret
               /\ attempt' = attempt + 1 /\ sessionID' = 0 /\ content' = 0
<1>1. "error" \in OutOf
  BY DEF OutOf
<1>2. turns' = Append(turns, [sess |-> s, content |-> content, out |-> "error"])
  BY DEF TurnFailed
<1>3. /\ turns' \in Seq(TurnRecord)
      /\ N \in Nat /\ N' = N + 1
      /\ \A k \in 1 .. N : turns'[k] = turns[k]
      /\ turns'[N + 1] = [sess |-> s, content |-> content, out |-> "error"]
  BY <1>1, <1>2, RecordTurn
<1>4. turns'[N + 1].sess = s /\ turns'[N + 1].content = content /\ turns'[N + 1].out = "error"
  BY <1>3
<1>5. CASE ctxDone
  BY <1>3, <1>4, <1>5, Zenon DEF TurnFailed, Return
<1>6. CASE ~ctxDone
  BY <1>3, <1>4, <1>6, Zenon DEF TurnFailed, Restart, Again
<1> QED
  BY <1>5, <1>6

\* A verified turn: it is recorded, and the loop goes on after a refusal only.
LEMMA VerifiedTurn ==
  ASSUME LoopType, Verify
  PROVE  /\ turns' \in Seq(TurnRecord)
         /\ N \in Nat /\ N' = N + 1
         /\ \A k \in 1 .. N : turns'[k] = turns[k]
         /\ turns'[N + 1].sess = sessionID /\ turns'[N + 1].content = content
         /\ \/ /\ turns'[N + 1].out = "accepted" /\ pc' = "returned" /\ ret' = "ok"
               /\ UNCHANGED loopVars
            \/ /\ turns'[N + 1].out = "aborted" /\ pc' = "returned" /\ ret' = "abort"
               /\ UNCHANGED loopVars
            \/ /\ turns'[N + 1].out = "refused" /\ ctxDone
               /\ pc' = "returned" /\ ret' = "ctxErr"
               /\ UNCHANGED loopVars
            \/ /\ turns'[N + 1].out = "refused" /\ ~ctxDone
               /\ pc' = "head" /\ UNCHANGED ret
               /\ attempt' = attempt + 1 /\ UNCHANGED sessionID /\ content' = N + 1
<1> USE DEF OutOf
<1>1. sessionID \in Nat
  BY DEF LoopType
<1>2. ASSUME NEW o \in OutOf, Answered(o)
      PROVE  /\ turns' \in Seq(TurnRecord)
             /\ N \in Nat /\ N' = N + 1
             /\ \A k \in 1 .. N : turns'[k] = turns[k]
             /\ turns'[N + 1].sess = sessionID /\ turns'[N + 1].content = content
             /\ turns'[N + 1].out = o
  <2>1. turns' = Append(turns, [sess |-> sessionID, content |-> content, out |-> o])
    BY <1>2 DEF Answered
  <2>2. turns'[N + 1] = [sess |-> sessionID, content |-> content, out |-> o]
    BY <1>1, <2>1, RecordTurn
  <2>3. /\ turns' \in Seq(TurnRecord)
        /\ N \in Nat /\ N' = N + 1
        /\ \A k \in 1 .. N : turns'[k] = turns[k]
    BY <1>1, <2>1, RecordTurn
  <2>4. turns'[N + 1].sess = sessionID /\ turns'[N + 1].content = content /\ turns'[N + 1].out = o
    BY <2>2
  <2> QED
    BY <2>3, <2>4
<1>3. CASE Answered("accepted") /\ Return("ok") /\ UNCHANGED loopVars
  BY <1>2, <1>3 DEF Return
<1>4. CASE Answered("aborted") /\ Abort
  BY <1>2, <1>4 DEF Return, Abort
<1>5. CASE /\ Answered("refused")
           /\ IF ctxDone THEN Return("ctxErr") /\ UNCHANGED loopVars ELSE Refine /\ Again
  BY <1>2, <1>5 DEF Return, Refine, Again, N
<1> QED
  BY <1>3, <1>4, <1>5 DEF Verify

\* Time passes up to the deadline of the loop.
LEMMA Passed ==
  ASSUME LoopType, NEW d \in 0 .. Left, now' = now + d
  PROVE  now' \in Nat /\ now' <= Max0(loopTimeout) /\ d \in Nat
         /\ (~(now >= loopTimeout) => now' <= loopTimeout)
  BY TimesNat DEF LoopType, Left, Max0

LEMMA UpTo ==
  ASSUME LoopType, NEW b \in Nat, NEW d \in 0 .. MinOf(b, Left)
  PROVE  d \in 0 .. Left /\ d <= b /\ d \in Nat
  BY TimesNat DEF LoopType, Left, Max0, MinOf

\* A turn that is recorded carries what the loop had settled for it.
LEMMA RecordedCoherent ==
  ASSUME LoopInv, pc \in {"session", "turn", "verify"},
         N \in Nat, N' = N + 1,
         \A k \in 1 .. N : turns'[k] = turns[k],
         turns'[N + 1].sess = sessionID, turns'[N + 1].content = content,
         ret' = "ok" => turns'[N + 1].out = "accepted",
         ret' = "abort" => turns'[N + 1].out = "aborted"
  PROVE  Coherent'
<1> DEFINE Follows(a, b, k, before) ==
      CASE a.out = "refused" -> b.sess = a.sess /\ b.content = k - 1
        [] a.out = "error" -> b.content = 0 /\ (b.sess # 0 => before)
        [] OTHER -> FALSE
<1>1. ASSUME NEW k \in 2 .. N
      PROVE  Follows(turns'[k - 1], turns'[k], k, \A j \in 1 .. k - 1 : turns'[j].sess # turns'[k].sess)
  <2>1. k \in 1 .. N /\ k - 1 \in 1 .. N /\ \A j \in 1 .. k - 1 : j \in 1 .. N
    BY <1>1
  <2>2. Follows(turns[k - 1], turns[k], k, \A j \in 1 .. k - 1 : turns[j].sess # turns[k].sess)
    BY <1>1 DEF LoopInv, Coherent, N
  <2>3. turns'[k] = turns[k] /\ turns'[k - 1] = turns[k - 1]
        /\ \A j \in 1 .. k - 1 : turns'[j] = turns[j]
    BY <2>1
  <2> QED
    BY <2>2, <2>3
<1>2. ASSUME N > 0
      PROVE  Follows(turns'[N], turns'[N + 1], N + 1,
                     \A j \in 1 .. N : turns'[j].sess # turns'[N + 1].sess)
  <2>1. N \in 1 .. N /\ turns'[N] = turns[N]
    BY <1>2
  <2>2. /\ turns[N].out \in {"refused", "error"}
        /\ turns[N].out = "refused" => sessionID = turns[N].sess /\ content = N
        /\ turns[N].out = "error" =>
             content = 0 /\ (sessionID # 0 => \A j \in 1 .. N : turns[j].sess # sessionID)
    BY <1>2 DEF LoopInv, NextTurn
  <2>3. \A j \in 1 .. N : turns'[j].sess = turns[j].sess
    OBVIOUS
  <2> QED
    BY <1>2, <2>1, <2>2, <2>3
<1>3. ASSUME NEW k \in 2 .. N + 1
      PROVE  Follows(turns'[k - 1], turns'[k], k, \A j \in 1 .. k - 1 : turns'[j].sess # turns'[k].sess)
  <2>1. CASE k = N + 1
    <3>1. k - 1 = N /\ N > 0
      BY <2>1
    <3> QED
      BY <1>2, <2>1, <3>1
  <2>2. CASE k # N + 1
    BY <1>1, <2>2
  <2> QED
    BY <2>1, <2>2
<1>4. Len(turns') = N + 1
  BY DEF N
<1> QED
  BY <1>3, <1>4 DEF Coherent

\* The last turn is the one that settles the next.
LEMMA Unrecorded ==
  ASSUME LoopInv, UNCHANGED <<turns, ret>>
  PROVE  Coherent'
  BY DEF LoopInv, Coherent

LEMMA EnterKeeps ==
  ASSUME LoopInv, Enter
  PROVE  LoopInv'
<1>1. /\ pc = "entry" /\ UNCHANGED <<verifier, loopVars, ctxDone, now, created, turns, verifying>>
      /\ \/ pc' = "returned" /\ ret' = "contentRequired"
         \/ pc' = "head" /\ ret' = ret
  BY DEF Enter, Return
<1>2. LoopType' /\ Returned'
  BY <1>1 DEF LoopInv, LoopType, Returned, N, loopVars, loopTimeout, Max0
<1>3. Numbered' /\ SessionsNumbered' /\ NextTurn' /\ TimeSpent'
  BY <1>1 DEF LoopInv, LoopType, Numbered, SessionsNumbered, NextTurn, TimeSpent, N, InAttempt,
              loopVars, Max0
<1>4. Coherent' /\ AttemptsNotCutShort'
  <2>1. Coherent
    BY DEF LoopInv
  <2>2. ret = "none"
    BY <1>1 DEF LoopInv, Returned
  <2> QED
    BY <1>1, <2>1, <2>2 DEF Coherent, AttemptsNotCutShort
<1> QED
  BY <1>2, <1>3, <1>4 DEF LoopInv

LEMMA LoopHeadKeeps ==
  ASSUME LoopInv, LoopHead
  PROVE  LoopInv'
<1>1. /\ pc = "head" /\ UNCHANGED <<verifier, loopVars, ctxDone, now, created, turns, verifying>>
      /\ ret = "none"
  BY DEF LoopHead, LoopInv, Returned
<1>2. \/ attempt > MaxAttempts /\ pc' = "returned" /\ ret' = "maxAttempts"
      \/ attempt <= MaxAttempts /\ loopCtxDone /\ pc' = "returned" /\ ret' = "ctxErr"
      \/ attempt <= MaxAttempts /\ attempt > 1 /\ pc' = "wait" /\ ret' = ret
      \/ attempt <= MaxAttempts /\ attempt <= 1 /\ pc' = "session" /\ ret' = ret
  <2>1. attempt \in Nat /\ MaxAttempts \in Int
    BY TimesNat DEF LoopInv, LoopType
  <2> QED
    BY <2>1 DEF LoopHead, LoopOver, Return
<1>3. LoopType' /\ Returned'
  BY <1>1, <1>2 DEF LoopInv, LoopType, Returned, N, loopVars, loopTimeout, Max0
<1>4. Numbered' /\ SessionsNumbered' /\ NextTurn'
  BY <1>1, <1>2 DEF LoopInv, LoopType, Numbered, SessionsNumbered, NextTurn, N, InAttempt,
                    loopVars, Max0
<1>5. TimeSpent'
  BY <1>1, <1>2, TimesNat DEF LoopInv, LoopType, TimeSpent, loopVars, Max0
<1>6. Coherent'
  BY <1>1, <1>2 DEF LoopInv, Coherent
<1>7. AttemptsNotCutShort'
  <2>1. CASE ret' = "maxAttempts"
    BY <1>1, <1>2, <2>1, TimesNat DEF LoopInv, LoopType, Numbered, AttemptsNotCutShort, N, Max0
  <2>2. CASE ret' = "ctxErr" /\ ~ctxDone' /\ TurnTimeout > 0
    <3>1. /\ attempt <= MaxAttempts /\ now >= loopTimeout
          /\ attempt = N + 1 /\ attempt \in Nat \ {0} /\ now \in Nat /\ verifying \in Nat
          /\ now <= (attempt - 1) * TurnTimeout + Max0(attempt - 2) * RetryDelay + verifying
      BY <1>1, <1>2, <2>2 DEF loopCtxDone, LoopInv, LoopType, Numbered, TimeSpent
    <3>2. attempt * TurnTimeout <= MaxAttempts * TurnTimeout
      BY <3>1, TimesNat, MulMono
    <3>3. Max0(attempt - 2) * RetryDelay <= Max0(MaxAttempts - 1) * RetryDelay
      BY <3>1, TimesNat, MulMono DEF Max0
    <3>4. attempt * TurnTimeout = (attempt - 1) * TurnTimeout + TurnTimeout
      BY <3>1, TimesNat, MulSucc
    <3>5. now < loopTimeout + verifying
      <4> DEFINE a == attempt * TurnTimeout
                 b == MaxAttempts * TurnTimeout
                 c == (attempt - 1) * TurnTimeout
                 d == Max0(attempt - 2) * RetryDelay
                 e == Max0(MaxAttempts - 1) * RetryDelay
      <4>1. a \in Int /\ b \in Int /\ c \in Int /\ d \in Int /\ e \in Int
        BY <3>1, TimesNat DEF Max0
      <4>2. loopTimeout = b + e
        BY DEF loopTimeout
      <4>3. a <= b /\ d <= e /\ a = c + TurnTimeout /\ now <= c + d + verifying
        BY <3>1, <3>2, <3>3, <3>4
      <4> HIDE DEF a, b, c, d, e
      <4> QED
        BY <2>2, <3>1, <4>1, <4>2, <4>3, TimesNat
    <3>6. verifying > 0 /\ N < MaxAttempts
      <4>1. N \in Nat
        BY DEF LoopInv, LoopType, N
      <4> QED
        BY <3>1, <3>5, <4>1, TimesNat
    <3> QED
      BY <1>1, <2>2, <3>6 DEF AttemptsNotCutShort, N
  <2> QED
    BY <2>1, <2>2 DEF AttemptsNotCutShort
<1> QED
  BY <1>3, <1>4, <1>5, <1>6, <1>7 DEF LoopInv

LEMMA WaitKeeps ==
  ASSUME LoopInv, Wait
  PROVE  LoopInv'
<1>1. /\ pc = "wait" /\ UNCHANGED <<verifier, loopVars, ctxDone, created, turns, verifying>>
      /\ ret = "none" /\ attempt > 1 /\ attempt <= MaxAttempts /\ attempt = N + 1
      /\ attempt \in Nat /\ N \in Nat /\ now \in Nat /\ verifying \in Nat
  BY DEF Wait, LoopInv, Returned, Numbered, InAttempt, LoopType, N
<1>2. /\ now' \in Nat /\ now' <= now + RetryDelay /\ now' <= Max0(loopTimeout)
      /\ \/ pc' = "session" /\ ret' = ret
         \/ pc' = "returned" /\ ret' = "ctxErr" /\ (ctxDone \/ now' >= loopTimeout)
  <2>1. CASE RetryDelay <= Left /\ now' = now + RetryDelay /\ pc' = "session" /\ ret' = ret
    <3>1. RetryDelay \in 0 .. Left
      BY <2>1, TimesNat DEF LoopInv, LoopType, Left, Max0
    <3> QED
      BY <1>1, <2>1, <3>1, Passed, TimesNat DEF LoopInv
  <2>2. ASSUME NEW d \in 0 .. MinOf(RetryDelay, Left),
               now' = now + d, ctxDone \/ now' >= loopTimeout, Return("ctxErr")
        PROVE  /\ now' \in Nat /\ now' <= now + RetryDelay /\ now' <= Max0(loopTimeout)
               /\ pc' = "returned" /\ ret' = "ctxErr" /\ (ctxDone \/ now' >= loopTimeout)
    <3>1. d \in 0 .. Left /\ d <= RetryDelay /\ d \in Nat
      BY TimesNat, UpTo DEF LoopInv
    <3> QED
      BY <1>1, <2>2, <3>1, Passed, TimesNat DEF LoopInv, Return
  <2> QED
    BY <2>1, <2>2 DEF Wait
<1>3. LoopType' /\ Returned'
  BY <1>1, <1>2 DEF LoopInv, LoopType, Returned, N, loopVars, loopTimeout, Max0
<1>4. Numbered' /\ SessionsNumbered' /\ NextTurn'
  BY <1>1, <1>2 DEF LoopInv, LoopType, Numbered, SessionsNumbered, NextTurn, N, InAttempt,
                    loopVars, Max0
<1>5. now' <= (attempt - 1) * TurnTimeout + (attempt - 1) * RetryDelay + verifying
  <2>1. now <= (attempt - 1) * TurnTimeout + (attempt - 2) * RetryDelay + verifying
    BY <1>1 DEF LoopInv, TimeSpent
  <2>2. (attempt - 1) * RetryDelay = (attempt - 2) * RetryDelay + RetryDelay
    BY <1>1, TimesNat, MulSucc
  <2>3. /\ (attempt - 1) * TurnTimeout \in Int /\ (attempt - 2) * RetryDelay \in Int
        /\ (attempt - 1) * RetryDelay \in Int
    BY <1>1, TimesNat
  <2> QED
    BY <1>1, <1>2, <2>1, <2>2, <2>3, TimesNat
<1>6. TimeSpent'
  BY <1>1, <1>2, <1>5 DEF TimeSpent, loopVars
<1>7. Coherent'
  BY <1>1, <1>2 DEF LoopInv, Coherent
<1>8. AttemptsNotCutShort'
  <2>1. CASE ret' = "ctxErr" /\ ~ctxDone /\ TurnTimeout > 0
    <3> DEFINE a == (attempt - 1) * TurnTimeout
               b == MaxAttempts * TurnTimeout
               c == (MaxAttempts - 1) * TurnTimeout
               d == (attempt - 1) * RetryDelay
               e == (MaxAttempts - 1) * RetryDelay
    <3>1. a \in Int /\ b \in Int /\ c \in Int /\ d \in Int /\ e \in Int
      BY <1>1, TimesNat
    <3>2. loopTimeout = b + e
      BY <1>1, TimesNat DEF loopTimeout, Max0
    <3>3. a <= c /\ d <= e
      BY <1>1, TimesNat, MulMono
    <3>4. b = c + TurnTimeout
      BY TimesNat, MulSucc
    <3>5. now' <= a + d + verifying
      BY <1>5
    <3> HIDE DEF a, b, c, d, e
    <3>6. now' >= loopTimeout
      BY <1>1, <1>2, <2>1
    <3>7. verifying > 0 /\ N < MaxAttempts
      BY <1>1, <1>2, <2>1, <3>1, <3>2, <3>3, <3>4, <3>5, <3>6, TimesNat
    <3> QED
      BY <1>1, <1>2, <2>1, <3>7 DEF AttemptsNotCutShort, N
  <2> QED
    BY <1>1, <1>2, <2>1 DEF AttemptsNotCutShort
<1> QED
  BY <1>3, <1>4, <1>6, <1>7, <1>8 DEF LoopInv

\* An attempt whose turn failed.
LEMMA FailedKeeps ==
  ASSUME LoopInv, pc \in {"session", "turn"},
         NEW s \in Nat, s = sessionID, TurnFailed(s),
         UNCHANGED <<verifier, ctxDone, created, verifying>>,
         now' \in Nat, now' <= Max0(loopTimeout), now' <= now + TurnTimeout
  PROVE  LoopInv'
<1>1. /\ turns' \in Seq(TurnRecord)
      /\ N \in Nat /\ N' = N + 1
      /\ \A k \in 1 .. N : turns'[k] = turns[k]
      /\ turns'[N + 1].sess = sessionID /\ turns'[N + 1].content = content
      /\ turns'[N + 1].out = "error"
  BY FailedTurn DEF LoopInv
<1>2. \/ /\ ctxDone /\ pc' = "returned" /\ ret' = "ctxErr"
         /\ UNCHANGED loopVars
      \/ /\ ~ctxDone /\ pc' = "head" /\ UNCHANGED ret
         /\ attempt' = attempt + 1 /\ sessionID' = 0 /\ content' = 0
  BY FailedTurn DEF LoopInv
<1>3. /\ attempt \in Nat \ {0} /\ attempt = N + 1 /\ attempt <= MaxAttempts /\ ret = "none"
      /\ now \in Nat /\ verifying \in Nat
  BY DEF LoopInv, LoopType, Numbered, InAttempt, Returned
<1>4. LoopType' /\ Returned'
  BY <1>1, <1>2, <1>3 DEF LoopInv, LoopType, Returned, N, loopVars, loopTimeout, Max0
<1>5. Numbered'
  BY <1>1, <1>2, <1>3, TimesNat DEF Numbered, InAttempt, loopVars, Max0
<1>6. SessionsNumbered'
  <2>1. /\ sessionID <= created /\ \A k \in 1 .. N : turns[k].sess <= created
        /\ created <= attempt /\ created <= Max0(MaxAttempts) /\ created \in Nat
        /\ sessionID \in Nat
    BY <1>3 DEF LoopInv, LoopType, SessionsNumbered
  <2>2. \A k \in 1 .. N + 1 : turns'[k].sess <= created
    <3>1. 1 .. N + 1 = (1 .. N) \cup {N + 1}
      BY <1>1
    <3> QED
      BY <1>1, <2>1, <3>1
  <2> QED
    BY <1>1, <1>2, <1>3, <2>1, <2>2 DEF SessionsNumbered, loopVars
<1>7. NextTurn'
  BY <1>1, <1>2 DEF NextTurn
<1>8. TimeSpent'
  <2>1. now <= (attempt - 1) * TurnTimeout + (attempt - 1) * RetryDelay + verifying
    BY DEF LoopInv, TimeSpent
  <2>2. CASE pc' = "head"
    <3>1. attempt' - 1 = attempt /\ Max0(attempt' - 2) = attempt - 1
      BY <1>2, <1>3, <2>2 DEF Max0
    <3>2. attempt * TurnTimeout = (attempt - 1) * TurnTimeout + TurnTimeout
      BY <1>3, TimesNat, MulSucc
    <3>3. (attempt - 1) * TurnTimeout \in Int /\ (attempt - 1) * RetryDelay \in Int
          /\ attempt * TurnTimeout \in Int
      BY <1>3, TimesNat
    <3>4. now' <= attempt * TurnTimeout + (attempt - 1) * RetryDelay + verifying
      BY <1>3, <2>1, <3>2, <3>3, TimesNat
    <3> QED
      BY <2>2, <3>1, <3>4 DEF TimeSpent
  <2> QED
    BY <1>2, <2>2 DEF TimeSpent
<1>9. Coherent'
  BY <1>1, <1>2, <1>3, RecordedCoherent
<1>10. AttemptsNotCutShort'
  BY <1>2, <1>3 DEF AttemptsNotCutShort
<1> QED
  BY <1>4, <1>5, <1>6, <1>7, <1>8, <1>9, <1>10 DEF LoopInv

LEMMA CreateSessionKeeps ==
  ASSUME LoopInv, CreateSession
  PROVE  LoopInv'
<1>1. /\ pc = "session" /\ UNCHANGED <<verifier, ctxDone, now, verifying>>
      /\ now \in Nat /\ now <= Max0(loopTimeout) /\ now <= now + TurnTimeout
      /\ 0 \in Nat
  BY TimesNat DEF CreateSession, LoopInv, LoopType
<1>2. CASE /\ pc' = "turn" /\ UNCHANGED <<attempt, content, ret, turns>>
           /\ \/ sessionID # 0 /\ sessionID' = sessionID /\ created' = created
              \/ sessionID = 0 /\ created' = created + 1 /\ sessionID' = created'
  <2>1. /\ attempt \in Nat \ {0} /\ attempt = N + 1 /\ attempt <= MaxAttempts
        /\ sessionID \in Nat /\ created \in Nat /\ N \in Nat /\ N' = N
    BY <1>1, <1>2 DEF LoopInv, LoopType, Numbered, InAttempt, N
  <2>2. /\ sessionID <= created /\ created <= attempt - 1
        /\ \A k \in 1 .. N : turns[k].sess <= created /\ turns[k].sess \in Nat
    <3>1. \A k \in 1 .. N : turns[k] \in TurnRecord
      BY <2>1 DEF LoopInv, LoopType, N
    <3> QED
      BY <1>1, <3>1 DEF LoopInv, SessionsNumbered, TurnRecord
  <2>3. LoopType' /\ Returned' /\ Numbered' /\ Coherent' /\ AttemptsNotCutShort'
    BY <1>1, <1>2, <2>1 DEF LoopInv, LoopType, Returned, Numbered, Coherent,
       AttemptsNotCutShort, N, InAttempt, loopTimeout, Max0
  <2>4. SessionsNumbered'
    BY <1>2, <2>1, <2>2, TimesNat DEF SessionsNumbered, Max0
  <2>5. NextTurn'
    <3>1. \A j \in 1 .. N : sessionID = 0 => turns[j].sess # created + 1
      BY <2>1, <2>2
    <3>2. /\ N = 0 => content = 0
          /\ N > 0 => turns[N].out \in {"refused", "error"}
          /\ N > 0 /\ turns[N].out = "refused" =>
               sessionID = turns[N].sess /\ sessionID # 0 /\ content = N
          /\ N > 0 /\ turns[N].out = "error" => content = 0 /\ sessionID = 0
      BY <1>1 DEF LoopInv, NextTurn
    <3> QED
      BY <1>2, <2>1, <3>1, <3>2 DEF NextTurn
  <2>6. TimeSpent'
    BY <1>1, <1>2 DEF LoopInv, TimeSpent
  <2> QED
    BY <2>3, <2>4, <2>5, <2>6 DEF LoopInv
<1>3. CASE sessionID = 0 /\ TurnFailed(0) /\ UNCHANGED created
  BY <1>1, <1>3, FailedKeeps
<1> QED
  BY <1>2, <1>3 DEF CreateSession, loopVars

LEMMA RunTurnKeeps ==
  ASSUME LoopInv, RunTurn
  PROVE  LoopInv'
<1>1. PICK d \in 0 .. MinOf(TurnTimeout, Left) :
        /\ now' = now + d
        /\ \/ ~ctxDone /\ pc' = "verify" /\ UNCHANGED <<loopVars, ret, turns>>
           \/ TurnFailed(sessionID)
  BY DEF RunTurn
<1>2. d \in 0 .. Left /\ d <= TurnTimeout /\ d \in Nat
  BY TimesNat, UpTo DEF LoopInv
<1>3. /\ now' \in Nat /\ now' <= Max0(loopTimeout) /\ now' <= now + TurnTimeout
      /\ now \in Nat /\ sessionID \in Nat
  BY <1>1, <1>2, Passed, TimesNat DEF LoopInv, LoopType
<1>4. pc = "turn" /\ UNCHANGED <<verifier, ctxDone, created, verifying>>
  BY DEF RunTurn
<1>5. CASE pc' = "verify" /\ UNCHANGED <<loopVars, ret, turns>>
  <2>1. LoopType' /\ Returned' /\ Numbered' /\ Coherent' /\ AttemptsNotCutShort'
    BY <1>3, <1>4, <1>5 DEF LoopInv, LoopType, Returned, Numbered, Coherent,
       AttemptsNotCutShort, N, InAttempt, loopTimeout, Max0, loopVars
  <2>2. SessionsNumbered' /\ NextTurn'
    BY <1>4, <1>5 DEF LoopInv, SessionsNumbered, NextTurn, N, loopVars
  <2>3. TimeSpent'
    <3>1. /\ attempt \in Nat /\ verifying \in Nat
          /\ now <= (attempt - 1) * TurnTimeout + (attempt - 1) * RetryDelay + verifying
      BY <1>4 DEF LoopInv, LoopType, TimeSpent
    <3>2. attempt * TurnTimeout = (attempt - 1) * TurnTimeout + TurnTimeout
      BY <3>1, TimesNat, MulSucc
    <3>3. /\ (attempt - 1) * TurnTimeout \in Int /\ (attempt - 1) * RetryDelay \in Int
          /\ attempt * TurnTimeout \in Int
      BY <3>1, TimesNat
    <3>4. now' <= attempt * TurnTimeout + (attempt - 1) * RetryDelay + verifying
      BY <1>3, <3>1, <3>2, <3>3, TimesNat
    <3> QED
      BY <1>4, <1>5, <3>4 DEF TimeSpent, loopVars
  <2> QED
    BY <2>1, <2>2, <2>3 DEF LoopInv
<1>6. CASE TurnFailed(sessionID)
  BY <1>3, <1>4, <1>6, FailedKeeps
<1> QED
  BY <1>1, <1>5, <1>6

LEMMA VerifyKeeps ==
  ASSUME LoopInv, Verify
  PROVE  LoopInv'
<1>1. PICK d \in 0 .. (IF verifier THEN MinOf(MaxVerify, Left) ELSE 0) :
        now' = now + d /\ verifying' = verifying + d
  BY DEF Verify
<1>2. d \in 0 .. Left /\ d \in Nat
  <2>1. 0 \in 0 .. Left
    BY TimesNat DEF LoopInv, LoopType, Left, Max0
  <2>2. CASE verifier
    BY <1>1, <2>2, TimesNat, UpTo DEF LoopInv
  <2>3. CASE ~verifier
    BY <1>1, <2>1, <2>3
  <2> QED
    BY <2>2, <2>3
<1>3. /\ now' \in Nat /\ now' <= Max0(loopTimeout) /\ now \in Nat /\ verifying \in Nat
      /\ verifying' \in Nat
  BY <1>1, <1>2, Passed DEF LoopInv, LoopType
<1>4. pc = "verify" /\ UNCHANGED <<verifier, ctxDone, created>>
  BY DEF Verify
<1>5. /\ turns' \in Seq(TurnRecord)
      /\ N \in Nat /\ N' = N + 1
      /\ \A k \in 1 .. N : turns'[k] = turns[k]
      /\ turns'[N + 1].sess = sessionID /\ turns'[N + 1].content = content
  BY VerifiedTurn DEF LoopInv
<1>6. \/ /\ turns'[N + 1].out = "accepted" /\ pc' = "returned" /\ ret' = "ok"
         /\ UNCHANGED loopVars
      \/ /\ turns'[N + 1].out = "aborted" /\ pc' = "returned" /\ ret' = "abort"
         /\ UNCHANGED loopVars
      \/ /\ turns'[N + 1].out = "refused" /\ ctxDone
         /\ pc' = "returned" /\ ret' = "ctxErr"
         /\ UNCHANGED loopVars
      \/ /\ turns'[N + 1].out = "refused" /\ ~ctxDone
         /\ pc' = "head" /\ UNCHANGED ret
         /\ attempt' = attempt + 1 /\ UNCHANGED sessionID /\ content' = N + 1
  BY VerifiedTurn DEF LoopInv
<1>7. /\ attempt \in Nat \ {0} /\ attempt = N + 1 /\ attempt <= MaxAttempts /\ ret = "none"
  BY <1>4 DEF LoopInv, LoopType, Numbered, InAttempt, Returned
<1>8. LoopType' /\ Returned'
  BY <1>3, <1>4, <1>5, <1>6, <1>7 DEF LoopInv, LoopType, Returned, N, loopVars, loopTimeout, Max0
<1>9. Numbered'
  BY <1>5, <1>6, <1>7, TimesNat DEF Numbered, InAttempt, loopVars, Max0
<1>10. /\ sessionID <= created /\ \A k \in 1 .. N : turns[k].sess <= created
       /\ created <= attempt /\ created <= Max0(MaxAttempts) /\ created \in Nat
       /\ sessionID \in Nat /\ sessionID # 0
  BY <1>4 DEF LoopInv, LoopType, SessionsNumbered
<1>11. SessionsNumbered'
  <2>1. \A k \in 1 .. N + 1 : turns'[k].sess <= created
    <3>1. 1 .. N + 1 = (1 .. N) \cup {N + 1}
      BY <1>5
    <3> QED
      BY <1>5, <1>10, <3>1
  <2> QED
    BY <1>4, <1>5, <1>6, <1>7, <1>10, <2>1 DEF SessionsNumbered, loopVars
<1>12. NextTurn'
  BY <1>5, <1>6, <1>10 DEF NextTurn
<1>13. TimeSpent'
  <2>1. now <= attempt * TurnTimeout + (attempt - 1) * RetryDelay + verifying
    BY <1>4 DEF LoopInv, TimeSpent
  <2>2. CASE pc' = "head"
    <3>1. attempt' - 1 = attempt /\ Max0(attempt' - 2) = attempt - 1
      BY <1>6, <1>7, <2>2 DEF Max0
    <3>2. (attempt - 1) * RetryDelay \in Int /\ attempt * TurnTimeout \in Int
      BY <1>7, TimesNat
    <3>3. now' <= attempt * TurnTimeout + (attempt - 1) * RetryDelay + verifying'
      BY <1>1, <1>2, <1>3, <2>1, <3>2
    <3> QED
      BY <2>2, <3>1, <3>3 DEF TimeSpent
  <2> QED
    BY <1>6, <2>2 DEF TimeSpent
<1>14. Coherent'
  BY <1>4, <1>5, <1>6, <1>7, RecordedCoherent
<1>15. AttemptsNotCutShort'
  BY <1>4, <1>6, <1>7 DEF AttemptsNotCutShort
<1> QED
  BY <1>8, <1>9, <1>11, <1>12, <1>13, <1>14, <1>15 DEF LoopInv

LEMMA StepLoop ==
  ASSUME LoopInv, [Next]_vars
  PROVE  LoopInv'
<1>1. CASE Cancel
  <2>1. /\ ctxDone' = TRUE /\ pc # "returned"
        /\ UNCHANGED <<pc, verifier, loopVars, now, created, ret, turns, verifying>>
    BY <1>1 DEF Cancel
  <2>2. LoopType' /\ Returned' /\ Numbered' /\ Coherent' /\ AttemptsNotCutShort'
    BY <2>1 DEF LoopInv, LoopType, Returned, Numbered, Coherent,
       AttemptsNotCutShort, N, InAttempt, loopTimeout, Max0, loopVars
  <2>3. SessionsNumbered' /\ NextTurn' /\ TimeSpent'
    BY <2>1 DEF LoopInv, SessionsNumbered, NextTurn, TimeSpent, N, loopVars
  <2> QED
    BY <2>2, <2>3 DEF LoopInv
<1>2. CASE UNCHANGED vars
  <2>1. UNCHANGED <<pc, verifier, attempt, sessionID, content, ctxDone, now, created, ret, turns,
                    verifying>>
    BY <1>2 DEF vars, loopVars
  <2>2. LoopType' /\ Returned' /\ Numbered' /\ Coherent' /\ AttemptsNotCutShort'
    BY <2>1 DEF LoopInv, LoopType, Returned, Numbered, Coherent,
       AttemptsNotCutShort, N, InAttempt, loopTimeout, Max0
  <2>3. SessionsNumbered' /\ NextTurn' /\ TimeSpent'
    BY <2>1 DEF LoopInv, SessionsNumbered, NextTurn, TimeSpent, N
  <2> QED
    BY <2>2, <2>3 DEF LoopInv
<1> QED
  BY <1>1, <1>2, EnterKeeps, LoopHeadKeeps, WaitKeeps, CreateSessionKeeps, RunTurnKeeps,
     VerifyKeeps DEF Next, Terminated

LEMMA InitLoop == Init => LoopInv
<1> SUFFICES ASSUME Init
             PROVE  LoopInv
  OBVIOUS
<1>1. N = 0 /\ turns \in Seq(TurnRecord) /\ turns = <<>>
  BY EmptySeq DEF Init, N
<1>2. LoopType /\ Numbered /\ SessionsNumbered /\ NextTurn /\ Returned
  BY <1>1, TimesNat DEF Init, LoopType, Numbered, SessionsNumbered, NextTurn, Returned,
     InAttempt, Max0
<1>3. TimeSpent
  BY TimesNat DEF Init, TimeSpent, Max0
<1>4. Coherent /\ AttemptsNotCutShort
  BY <1>1 DEF Init, Coherent, AttemptsNotCutShort
<1> QED
  BY <1>2, <1>3, <1>4 DEF LoopInv

LEMMA SpecLoop == Spec => []LoopInv
  BY InitLoop, StepLoop, PTL DEF Spec

\* The conversation of every run is coherent, for any number of attempts and
\* any times: diagnostics go into the session they are about, failed turns are
\* followed by a new session, and nothing follows an accepted answer.
THEOREM ConversationIsCoherent == Spec => []Coherent
  BY SpecLoop, PTL DEF LoopInv

\* The deadline is long enough: a run that nobody cancels ends before its last
\* attempt only when verifications took time.
THEOREM DeadlineIsLongEnough == Spec => []AttemptsNotCutShort
  BY SpecLoop, PTL DEF LoopInv

-----------------------------------------------------------------------------
(* The refinement.                                                         *)

\* A step of the forwarding goroutine or of consumeEvents leaves the loop alone
\* until the turn returns, and returns an answer only if the caller is there.
LEMMA TurnOver ==
  ASSUME LoopInv, TurnTied, ConsumeEvents, caller' = "returned"
  PROVE  RunTurn
<1>1. pc = "turn" /\ EndTurn
  BY DEF ConsumeEvents
<1>2. turnRet' = "ok" => ~turnDone /\ caller # "returned"
  BY DEF ConsumeEvents, Turn!SelectDone, Turn!SelectClosed, Turn!SelectItem, Turn!CheckContext,
         Turn!Return, Turn!Complete
<1>3. turnRet' = "ok" => ~ctxDone
  BY <1>2 DEF TurnTied
<1>4. PICK d \in Elapsed : now' = now + d
  BY <1>1 DEF EndTurn
<1>5. d \in 0 .. MinOf(TurnTimeout, Left)
  <2>1. MinOf(TurnTimeout, Left) \in Nat
    BY TimesNat DEF LoopInv, LoopType, MinOf, Left, Max0
  <2> QED
    BY <1>4, <2>1 DEF Elapsed
<1>6. \/ /\ ~ctxDone /\ pc' = "verify" /\ UNCHANGED <<loopVars, ret, turns>>
      \/ TurnFailed(sessionID)
  BY <1>1, <1>3, Zenon DEF EndTurn
<1>7. UNCHANGED <<verifier, ctxDone, created, verifying>>
  BY <1>1 DEF EndTurn
<1> QED
  BY <1>1, <1>4, <1>5, <1>6, <1>7 DEF RunTurn

\* Each step of the client is a step of the loop, or none.
LEMMA StepRefines ==
  ASSUME LoopInv, TurnTied, [LlmNext]_llmVars
  PROVE  [Next]_vars
<1>1. CASE LoopStep
  BY <1>1 DEF LoopStep, Next
<1>2. CASE StartTurn
  <2>1. pc = "turn"
    BY <1>2 DEF StartTurn
  <2>2. CASE TurnFailed(sessionID) /\ UNCHANGED <<verifier, ctxDone, now, created, verifying>>
    <3>1. 0 \in 0 .. MinOf(TurnTimeout, Left) /\ now' = now + 0
      BY <2>2, TimesNat DEF LoopInv, LoopType, MinOf, Left, Max0
    <3>2. RunTurn
      BY <2>1, <2>2, <3>1 DEF RunTurn
    <3> QED
      BY <3>2 DEF Next
  <2>3. CASE UNCHANGED vars
    BY <2>3
  <2> QED
    BY <1>2, <2>2, <2>3 DEF StartTurn
<1>3. CASE ConsumeEvents
  <2>1. CASE caller' = "returned"
    BY <1>3, <2>1, TurnOver DEF Next
  <2>2. CASE caller' # "returned"
    BY <1>3, <2>2 DEF ConsumeEvents
  <2> QED
    BY <2>1, <2>2
<1>4. CASE ForwardEvents \/ ExpireTurn \/ Over \/ UNCHANGED llmVars
  BY <1>4 DEF ForwardEvents, ExpireTurn, Over, llmVars
<1>5. CASE CancelAll
  BY <1>5 DEF CancelAll, Next
<1> QED
  BY <1>1, <1>2, <1>3, <1>4, <1>5 DEF LlmNext

LEMMA StepTied ==
  ASSUME LoopInv, TurnTied, [LlmNext]_llmVars
  PROVE  TurnTied'
<1>1. CASE LoopStep
  <2>1. UNCHANGED <<expired, turnDone, caller>> /\ UNCHANGED ctxDone
    BY <1>1 DEF LoopStep, turnVars, Enter, LoopHead, Wait, CreateSession, Verify
  <2>2. pc' # "verify"
    BY <1>1 DEF LoopStep, Enter, LoopHead, Wait, CreateSession, Verify, Return, Again, Abort,
       TurnFailed, LoopInv, LoopType
  <2> QED
    BY <2>1, <2>2 DEF TurnTied
<1>2. CASE StartTurn
  <2>1. pc = "turn" /\ ctxDone' = ctxDone /\ pc' # "verify"
    BY <1>2 DEF StartTurn, TurnFailed, Return, Again, vars
  <2>2. CASE UNCHANGED <<expired, turnVars>>
    BY <2>1, <2>2 DEF TurnTied, turnVars
  <2>3. CASE turnDone' = ctxDone /\ expired' = FALSE /\ caller' = "select"
    <3>1. ctxDone' => turnDone'
      BY <2>1, <2>3
    <3> QED
      BY <2>1, <2>3, <3>1 DEF TurnTied
  <2> QED
    BY <1>2, <2>2, <2>3 DEF StartTurn
<1>3. CASE ConsumeEvents
  <2>1. /\ caller' \in {"select", "check", "returned"} /\ UNCHANGED <<ctxDone, expired>>
        /\ caller' # "returned" => turnDone' = turnDone
        /\ caller' # "returned" => UNCHANGED vars
        /\ caller # "returned" /\ pc = "turn"
    BY <1>3 DEF ConsumeEvents, Turn!SelectDone, Turn!SelectClosed, Turn!SelectItem,
       Turn!CheckContext, Turn!Return, EndTurn, vars
  <2>2. caller' # "returned" => pc' = "turn"
    BY <2>1 DEF vars
  <2> QED
    BY <2>1, <2>2 DEF TurnTied
<1>4. CASE ForwardEvents \/ ExpireTurn
  <2>1. /\ UNCHANGED <<caller, vars>> /\ (turnDone => turnDone')
        /\ (expired' = TRUE \/ expired' = expired)
    BY <1>4 DEF ForwardEvents, ExpireTurn, Turn!Yield, Turn!GiveUp, Turn!Expire, Turn!callerVars
  <2>2. UNCHANGED <<pc, ctxDone>>
    BY <2>1 DEF vars
  <2>3. expired' \in BOOLEAN
    BY <2>1 DEF TurnTied
  <2>4. ctxDone /\ caller # "returned" => turnDone'
    BY <2>1 DEF TurnTied
  <2> QED
    BY <2>1, <2>2, <2>3, <2>4 DEF TurnTied
<1>5. CASE CancelAll
  BY <1>5 DEF CancelAll, Cancel, TurnTied
<1>6. CASE Over \/ UNCHANGED llmVars
  BY <1>6 DEF Over, llmVars, vars, turnVars, TurnTied
<1> QED
  BY <1>1, <1>2, <1>3, <1>4, <1>5, <1>6 DEF LlmNext

\* With turns run event by event the client implements the loop whose turns are
\* single steps.
THEOREM ClientImplementsLoop == LlmSpec => ImplementsLoop
<1>1. LlmInit => LoopInv /\ TurnTied
  <2>1. LlmInit => TurnTied
    BY DEF LlmInit, Init, TurnTied
  <2> QED
    BY <2>1, InitLoop DEF LlmInit
<1>2. LoopInv /\ TurnTied /\ [LlmNext]_llmVars => (LoopInv /\ TurnTied)'
  BY StepRefines, StepLoop, StepTied
<1>3. LlmSpec => [](LoopInv /\ TurnTied)
  BY <1>1, <1>2, PTL DEF LlmSpec
<1>4. LoopInv /\ TurnTied /\ [LlmNext]_llmVars => [Next]_vars
  BY StepRefines
<1>5. LlmInit => Init
  BY DEF LlmInit
<1> QED
  BY <1>3, <1>4, <1>5, PTL DEF LlmSpec, ImplementsLoop, Spec

\* What holds of the loop holds of the client.
THEOREM ClientKeepsLoop == LlmSpec => []Coherent /\ []AttemptsNotCutShort
  BY ClientImplementsLoop, ConversationIsCoherent, DeadlineIsLongEnough, PTL DEF ImplementsLoop

-----------------------------------------------------------------------------
(* One turn: the answer and the usage follow the events delivered.         *)

Event == Turn!Events

TurnType ==
  /\ produced \in Seq(Event) /\ delivered \in Seq(Event)
  /\ response \in Seq(Event) /\ usage \in Seq(Event)
  /\ lastPartial \in Seq(Event) /\ Len(lastPartial) <= 1
  /\ forwarder \in {"next", "send", "closed"}
  /\ caller \in {"select", "check", "returned"}
  /\ turnDone \in BOOLEAN /\ ended \in BOOLEAN

\* What the caller has received is what the agent yielded, up to the event the
\* forwarder still holds.
TurnStream ==
  /\ \A k \in 1 .. Len(produced) : produced[k].pos = k
  /\ Len(delivered) <= Len(produced)
  /\ \A k \in 1 .. Len(delivered) : delivered[k] = produced[k]
  /\ forwarder = "send" =>
       Len(produced) = Len(delivered) + 1 /\ item = <<produced[Len(produced)]>>
  /\ forwarder = "next" \/ ended => Len(delivered) = Len(produced)
  /\ ended => forwarder = "closed"
  /\ forwarder = "closed" /\ caller # "returned" /\ ~turnDone => ended

NoError == \A e \in Range(delivered) : e.kind # "error"

TurnAnswer ==
  /\ Turn!InOrder(response) /\ Range(response) = Turn!Finals(delivered)
  /\ caller # "returned" => NoError
  /\ turnRet = "ok" => caller = "returned" /\ ended /\ NoError

\* Until the turn returns the last chunk is remembered, and not yet counted.
TurnUsage ==
  /\ caller # "returned" =>
       /\ Turn!InOrder(usage) /\ Range(usage) = Turn!Finals(delivered)
       /\ Range(lastPartial) = Turn!LastChunk
       /\ \A e \in Range(usage), c \in Range(lastPartial) : e.pos < c.pos
  /\ UsageExact

TurnInv == TurnType /\ TurnStream /\ TurnAnswer /\ TurnUsage

LEMMA RangeElements ==
  ASSUME NEW s \in Seq(Event)
  PROVE  /\ Range(s) = {s[k] : k \in 1 .. Len(s)}
         /\ Turn!Finals(s) = {e \in Range(s) : e.kind = "final"}
         /\ Range(s) \subseteq Event
<1>1. DOMAIN s = 1 .. Len(s) /\ \A k \in 1 .. Len(s) : s[k] \in Event
  OBVIOUS
<1> QED
  BY <1>1 DEF Range, Turn!Range, Turn!Finals

\* An event that comes after those of a sequence goes to its end.
LEMMA AppendEvent ==
  ASSUME NEW s \in Seq(Event), NEW e \in Event
  PROVE  /\ Append(s, e) \in Seq(Event)
         /\ Range(Append(s, e)) = Range(s) \cup {e}
         /\ e.kind = "final" => Turn!Finals(Append(s, e)) = Turn!Finals(s) \cup {e}
         /\ e.kind # "final" => Turn!Finals(Append(s, e)) = Turn!Finals(s)
         /\ Turn!InOrder(s) /\ (\A x \in Range(s) : x.pos < e.pos) => Turn!InOrder(Append(s, e))
<1> DEFINE t == Append(s, e)
<1>1. /\ t \in Seq(Event) /\ Len(t) = Len(s) + 1 /\ Len(s) \in Nat
      /\ t[Len(s) + 1] = e /\ \A k \in 1 .. Len(s) : t[k] = s[k]
  BY AppendProperties
<1>2. 1 .. Len(t) = (1 .. Len(s)) \cup {Len(s) + 1}
  BY <1>1
<1>3. DOMAIN t = 1 .. Len(t) /\ DOMAIN s = 1 .. Len(s)
  BY <1>1
<1> HIDE DEF t
<1>4. Range(t) = Range(s) \cup {e}
  BY <1>1, <1>2, RangeElements
<1>5. /\ e.kind = "final" => Turn!Finals(t) = Turn!Finals(s) \cup {e}
      /\ e.kind # "final" => Turn!Finals(t) = Turn!Finals(s)
  BY <1>1, <1>4, RangeElements
<1>6. ASSUME Turn!InOrder(s), \A x \in Range(s) : x.pos < e.pos
      PROVE  Turn!InOrder(t)
  <2>1. ASSUME NEW j \in DOMAIN t, NEW k \in DOMAIN t, j < k
        PROVE  t[j].pos < t[k].pos
    <3>1. j \in 1 .. Len(s) /\ t[j] = s[j] /\ s[j] \in Range(s)
      BY <1>1, <1>3, <2>1, RangeElements
    <3>2. CASE k = Len(s) + 1
      BY <1>1, <1>6, <3>1, <3>2
    <3>3. CASE k # Len(s) + 1
      <4>1. k \in 1 .. Len(s) /\ t[k] = s[k]
        BY <1>1, <1>3, <3>3
      <4> QED
        BY <1>3, <1>6, <2>1, <3>1, <4>1 DEF Turn!InOrder
    <3> QED
      BY <3>2, <3>3
  <2> QED
    BY <2>1 DEF Turn!InOrder
<1> QED
  BY <1>1, <1>4, <1>5, <1>6 DEF t

\* What the last chunk is after one more event.
LEMMA NextChunk ==
  ASSUME delivered \in Seq(Event), NEW e \in Event, delivered' = Append(delivered, e)
  PROVE  /\ e.kind = "final" => Turn!LastChunk' = {}
         /\ e.kind = "chunk" => Turn!LastChunk' = {e}
         /\ e.kind \in {"bare", "error"} => Turn!LastChunk' = Turn!LastChunk
<1> DEFINE m == Len(delivered)
           After(s, i) == \A j \in DOMAIN s : j > i => s[j].kind \in {"bare", "error"}
           Chunks(s) == {s[k] : k \in {i \in DOMAIN s : s[i].kind = "chunk" /\ After(s, i)}}
<1>1. /\ m \in Nat /\ DOMAIN delivered = 1 .. m /\ DOMAIN delivered' = (1 .. m) \cup {m + 1}
      /\ delivered'[m + 1] = e /\ \A k \in 1 .. m : delivered'[k] = delivered[k]
  BY AppendProperties
<1>2. Turn!LastChunk = Chunks(delivered) /\ Turn!LastChunk' = Chunks(delivered')
  BY DEF Turn!LastChunk
<1> HIDE DEF m
<1>3. ~ \E j \in DOMAIN delivered' : j > m + 1
  BY <1>1
<1>4. After(delivered', m + 1)
  BY <1>3
<1>5. ASSUME NEW i \in 1 .. m
      PROVE  /\ i \in DOMAIN delivered' /\ delivered'[i] = delivered[i]
             /\ After(delivered', i) <=> After(delivered, i) /\ e.kind \in {"bare", "error"}
  <2>1. m + 1 > i
    BY <1>1
  <2>2. After(delivered', i) <=>
          /\ \A j \in 1 .. m : j > i => delivered'[j].kind \in {"bare", "error"}
          /\ delivered'[m + 1].kind \in {"bare", "error"}
    BY <1>1, <2>1
  <2>3. After(delivered, i) <=> \A j \in 1 .. m : j > i => delivered'[j].kind \in {"bare", "error"}
    BY <1>1
  <2> QED
    BY <1>1, <2>2, <2>3
<1> HIDE DEF After
<1>6. CASE e.kind = "final"
  <2>1. ~ \E i \in DOMAIN delivered' : delivered'[i].kind = "chunk" /\ After(delivered', i)
    BY <1>1, <1>5, <1>6
  <2> QED
    BY <1>2, <1>6, <2>1
<1>7. CASE e.kind = "chunk"
  <2>1. \A i \in DOMAIN delivered' :
          delivered'[i].kind = "chunk" /\ After(delivered', i) <=> i = m + 1
    BY <1>1, <1>4, <1>5, <1>7
  <2> QED
    BY <1>1, <1>2, <1>7, <2>1
<1>8. CASE e.kind \in {"bare", "error"}
  <2>1. \A i \in DOMAIN delivered' :
          delivered'[i].kind = "chunk" /\ After(delivered', i) <=>
            i \in 1 .. m /\ delivered[i].kind = "chunk" /\ After(delivered, i)
    BY <1>1, <1>5, <1>8
  <2> QED
    BY <1>1, <1>2, <1>8, <2>1
<1> QED
  BY <1>6, <1>7, <1>8

\* The deferred accounting adds the chunk that is remembered.
LEMMA FlushUsage ==
  ASSUME TurnType, TurnUsage, caller # "returned", usage' = usage \o lastPartial
  PROVE  /\ usage' \in Seq(Event) /\ Turn!InOrder(usage')
         /\ Range(usage') = Turn!Finals(delivered) \cup Turn!LastChunk
<1>1. /\ usage \in Seq(Event) /\ Turn!InOrder(usage) /\ Range(usage) = Turn!Finals(delivered)
      /\ lastPartial \in Seq(Event) /\ Range(lastPartial) = Turn!LastChunk
  BY DEF TurnType, TurnUsage
<1>2. CASE Len(lastPartial) = 0
  <2>1. lastPartial = <<>> /\ usage' = usage
    <3>1. lastPartial = <<>>
      BY <1>1, <1>2, EmptySeq
    <3>2. usage \o <<>> = usage
      BY <1>1, ConcatEmptySeq
    <3> QED
      BY <3>1, <3>2
  <2>2. Range(lastPartial) = {}
    <3>1. Range(lastPartial) = {lastPartial[k] : k \in 1 .. Len(lastPartial)}
      BY <1>1, RangeElements
    <3>2. ~ \E k \in 1 .. Len(lastPartial) : TRUE
      BY <1>2
    <3> QED
      BY <3>1, <3>2
  <2> QED
    BY <1>1, <2>1, <2>2
<1>3. CASE Len(lastPartial) = 1
  <2>1. /\ lastPartial[1] \in Event /\ Range(lastPartial) = {lastPartial[1]}
    BY <1>1, <1>3, RangeElements
  <2>2. usage' = Append(usage, lastPartial[1])
    <3>1. lastPartial = <<lastPartial[1]>>
      BY <1>1, <1>3
    <3>2. Append(usage, lastPartial[1]) = usage \o <<lastPartial[1]>>
      BY <1>1, <2>1, AppendIsConcat
    <3> QED
      BY <3>1, <3>2
  <2>3. \A x \in Range(usage) : x.pos < lastPartial[1].pos
    BY <2>1 DEF TurnUsage
  <2> QED
    BY <1>1, <2>1, <2>2, <2>3, AppendEvent
<1>4. Len(lastPartial) = 0 \/ Len(lastPartial) = 1
  <2> DEFINE n == Len(lastPartial)
  <2>1. n \in Nat /\ n <= 1
    BY <1>1, LenProperties DEF TurnType
  <2> HIDE DEF n
  <2>2. n = 0 \/ n = 1
    BY <2>1
  <2> QED
    BY <2>2 DEF n
<1> QED
  BY <1>2, <1>3, <1>4

turnState == <<turnDone, produced, ended, forwarder, item, caller, response, lastPartial, usage,
               delivered, turnRet>>

\* What a turn that returns has counted is exact.
LEMMA TurnReturns ==
  ASSUME TurnInv, caller # "returned", caller' = "returned", turnDone' = TRUE,
         usage' = usage \o lastPartial,
         UNCHANGED <<produced, ended, forwarder, item, response, lastPartial, delivered>>,
         turnRet' = "ok" => ended
  PROVE  TurnInv'
<1>1. /\ usage' \in Seq(Event) /\ Turn!InOrder(usage')
      /\ Range(usage') = Turn!Finals(delivered) \cup Turn!LastChunk
  BY FlushUsage DEF TurnInv
<1>2. TurnType' /\ TurnStream'
  BY <1>1 DEF TurnInv, TurnType, TurnStream
<1>3. NoError /\ NoError' /\ Turn!Finals(delivered)' = Turn!Finals(delivered)
      /\ Turn!LastChunk' = Turn!LastChunk
  BY DEF TurnInv, TurnAnswer, NoError, Turn!LastChunk
<1>4. TurnAnswer'
  BY <1>3 DEF TurnInv, TurnAnswer
<1>5. UsageExact'
  BY <1>1, <1>3, RangeElements DEF UsageExact, Turn!UsageExact, Range, Turn!Range
<1> QED
  BY <1>2, <1>4, <1>5 DEF TurnInv, TurnUsage

\* The event that is delivered is the next one the agent yielded.
LEMMA Delivered ==
  ASSUME TurnInv, forwarder = "send"
  PROVE  /\ item[1] \in Event /\ item[1] = produced[Len(delivered) + 1]
         /\ item[1].pos = Len(delivered) + 1
         /\ \A x \in Range(delivered) : x.pos < item[1].pos
<1>1. /\ produced \in Seq(Event) /\ delivered \in Seq(Event)
      /\ Len(produced) = Len(delivered) + 1 /\ item = <<produced[Len(produced)]>>
      /\ \A k \in 1 .. Len(produced) : produced[k].pos = k
      /\ \A k \in 1 .. Len(delivered) : delivered[k] = produced[k]
  BY DEF TurnInv, TurnType, TurnStream
<1>2. Len(delivered) \in Nat
  BY <1>1, LenProperties
<1>3. /\ item[1] \in Event /\ item[1] = produced[Len(delivered) + 1]
      /\ item[1].pos = Len(delivered) + 1
  BY <1>1, <1>2
<1>4. ASSUME NEW x \in Range(delivered)
      PROVE  x.pos < item[1].pos
  <2>1. PICK k \in 1 .. Len(delivered) : x = delivered[k]
    BY <1>1, RangeElements
  <2>2. x.pos = k
    BY <1>1, <1>2, <2>1
  <2> QED
    BY <1>2, <1>3, <2>1, <2>2
<1> QED
  BY <1>3, <1>4

\* The caller takes an event: it goes into the answer and the usage, is
\* remembered, or ends the turn.
LEMMA SelectItemKeeps ==
  ASSUME TurnInv, Turn!SelectItem
  PROVE  TurnInv'
<1> DEFINE e == item[1]
<1>1. /\ caller = "select" /\ forwarder = "send" /\ forwarder' = "next"
      /\ delivered' = Append(delivered, e) /\ UNCHANGED <<produced, ended>>
  BY DEF Turn!SelectItem
<1>2. /\ e \in Event /\ e = produced[Len(delivered) + 1]
      /\ \A x \in Range(delivered) : x.pos < e.pos
  BY <1>1, Delivered
<1>3. \/ e.kind = "error" /\ Turn!Return("error") /\ UNCHANGED <<response, lastPartial>>
      \/ /\ e.kind # "error" /\ Turn!Account(e) /\ caller' = "check"
         /\ UNCHANGED <<turnRet, turnDone>>
  BY DEF Turn!SelectItem
<1> HIDE DEF e
<1>4. e.kind \in {"final", "chunk", "bare", "error"}
  BY <1>2 DEF Event, Turn!Events, Turn!Kinds
<1>5. /\ TurnType /\ TurnStream /\ TurnAnswer /\ TurnUsage /\ NoError /\ ~ended
      /\ delivered \in Seq(Event) /\ response \in Seq(Event) /\ usage \in Seq(Event)
      /\ turnRet # "ok"
  BY <1>1 DEF TurnInv, TurnAnswer, TurnType, TurnStream
<1>6. /\ delivered' \in Seq(Event) /\ Range(delivered') = Range(delivered) \cup {e}
      /\ e.kind = "final" => Turn!Finals(delivered') = Turn!Finals(delivered) \cup {e}
      /\ e.kind # "final" => Turn!Finals(delivered') = Turn!Finals(delivered)
  BY <1>1, <1>2, <1>5, AppendEvent
<1>7. TurnStream'
  <2>1. /\ Len(delivered') = Len(delivered) + 1 /\ Len(delivered) \in Nat
        /\ \A k \in 1 .. Len(delivered) : delivered'[k] = delivered[k]
        /\ delivered'[Len(delivered) + 1] = e
    BY <1>1, <1>2, <1>5, AppendProperties
  <2>2. /\ Len(produced) = Len(delivered) + 1
        /\ \A k \in 1 .. Len(produced) : produced[k].pos = k
        /\ \A k \in 1 .. Len(delivered) : delivered[k] = produced[k]
    BY <1>1, <1>5 DEF TurnStream
  <2>3. \A k \in 1 .. Len(delivered') : delivered'[k] = produced'[k]
    BY <1>1, <1>2, <2>1, <2>2
  <2> QED
    BY <1>1, <1>5, <2>1, <2>2, <2>3 DEF TurnStream
<1>8. CASE e.kind = "error" /\ Turn!Return("error") /\ UNCHANGED <<response, lastPartial>>
  <2>1. /\ caller' = "returned" /\ turnDone' = TRUE /\ turnRet' = "error"
        /\ usage' = usage \o lastPartial
    BY <1>8 DEF Turn!Return
  <2>2. /\ usage' \in Seq(Event) /\ Turn!InOrder(usage')
        /\ Range(usage') = Turn!Finals(delivered) \cup Turn!LastChunk
    BY <1>1, <1>5, <2>1, FlushUsage
  <2>3. Turn!LastChunk' = Turn!LastChunk /\ Turn!Finals(delivered') = Turn!Finals(delivered)
    BY <1>1, <1>2, <1>5, <1>6, <1>8, NextChunk
  <2>4. TurnType'
    BY <1>1, <1>5, <1>6, <1>8, <2>1, <2>2 DEF TurnType
  <2>5. TurnAnswer'
    BY <1>5, <1>8, <2>1, <2>3 DEF TurnAnswer
  <2>6. UsageExact'
    BY <2>2, <2>3 DEF UsageExact, Turn!UsageExact, Range, Turn!Range
  <2> QED
    BY <1>7, <2>1, <2>4, <2>5, <2>6 DEF TurnInv, TurnUsage
<1>9. CASE /\ e.kind # "error" /\ Turn!Account(e) /\ caller' = "check"
           /\ UNCHANGED <<turnRet, turnDone>>
  <2>1. NoError'
    BY <1>5, <1>6, <1>9 DEF NoError
  <2>2. UsageExact'
    BY <1>9 DEF UsageExact, Turn!UsageExact
  <2>3. CASE /\ e.kind = "final" /\ lastPartial' = <<>>
             /\ usage' = Append(usage, e) /\ response' = Append(response, e)
    <3>1. \A s \in {usage, response} : s \in Seq(Event) /\ Range(s) = Turn!Finals(delivered)
                                       /\ Turn!InOrder(s)
      BY <1>1, <1>5 DEF TurnAnswer, TurnUsage
    <3>2. \A x \in Turn!Finals(delivered) : x.pos < e.pos
      BY <1>2, <1>5, RangeElements
    <3>3. ASSUME NEW s \in {usage, response}
          PROVE  /\ Append(s, e) \in Seq(Event) /\ Turn!InOrder(Append(s, e))
                 /\ Range(Append(s, e)) = Turn!Finals(delivered')
      <4>1. s \in Seq(Event) /\ Range(s) = Turn!Finals(delivered) /\ Turn!InOrder(s)
        BY <3>1
      <4>2. \A x \in Range(s) : x.pos < e.pos
        BY <3>2, <4>1
      <4>3. /\ Append(s, e) \in Seq(Event) /\ Turn!InOrder(Append(s, e))
            /\ Range(Append(s, e)) = Range(s) \cup {e}
        BY <1>2, <4>1, <4>2, AppendEvent
      <4>4. Turn!Finals(delivered') = Turn!Finals(delivered) \cup {e}
        BY <1>6, <2>3
      <4> QED
        BY <4>1, <4>3, <4>4
    <3>4. lastPartial' \in Seq(Event) /\ Len(lastPartial') = 0 /\ Range(lastPartial') = {}
      <4>1. <<>> \in Seq(Event) /\ Len(<<>>) = 0
        BY EmptySeq
      <4>2. Range(<<>>) = {}
        BY DEF Range
      <4> QED
        BY <2>3, <4>1, <4>2
    <3>5. Turn!LastChunk' = {}
      BY <1>1, <1>2, <1>5, <2>3, NextChunk
    <3>6. TurnType'
      BY <1>1, <1>5, <1>6, <1>9, <2>3, <3>3, <3>4 DEF TurnType
    <3>7. TurnAnswer' /\ TurnUsage'
      BY <1>5, <1>9, <2>1, <2>2, <2>3, <3>3, <3>4, <3>5 DEF TurnAnswer, TurnUsage
    <3> QED
      BY <1>7, <3>6, <3>7 DEF TurnInv
  <2>4. CASE e.kind = "chunk" /\ lastPartial' = <<e>> /\ UNCHANGED <<usage, response>>
    <3>1. lastPartial' \in Seq(Event) /\ Len(lastPartial') = 1 /\ Range(lastPartial') = {e}
      <4>1. lastPartial' \in Seq(Event) /\ Len(lastPartial') = 1 /\ lastPartial'[1] = e
        BY <1>2, <2>4
      <4>2. \A s \in Seq(Event) : Len(s) = 1 => Range(s) = {s[1]}
        BY RangeElements
      <4> QED
        BY <4>1, <4>2
    <3>2. Turn!LastChunk' = {e}
      BY <1>1, <1>2, <1>5, <2>4, NextChunk
    <3>3. Turn!Finals(delivered') = Turn!Finals(delivered)
      BY <1>6, <2>4
    <3>4. \A x \in Range(usage) : x.pos < e.pos
      BY <1>1, <1>2, <1>5, RangeElements DEF TurnUsage
    <3>5. TurnType'
      BY <1>1, <1>5, <1>6, <1>9, <2>4, <3>1 DEF TurnType
    <3>6. TurnAnswer'
      BY <1>5, <1>9, <2>1, <2>4, <3>3 DEF TurnAnswer
    <3>7. TurnUsage'
      BY <1>1, <1>5, <2>2, <2>4, <3>1, <3>2, <3>3, <3>4 DEF TurnUsage
    <3> QED
      BY <1>7, <3>5, <3>6, <3>7 DEF TurnInv
  <2>5. CASE e.kind = "bare" /\ UNCHANGED <<lastPartial, usage, response>>
    <3>1. Turn!LastChunk' = Turn!LastChunk /\ Turn!Finals(delivered') = Turn!Finals(delivered)
      BY <1>1, <1>2, <1>5, <1>6, <2>5, NextChunk
    <3>2. TurnType'
      BY <1>1, <1>5, <1>6, <1>9, <2>5 DEF TurnType
    <3>3. TurnAnswer'
      BY <1>5, <1>9, <2>1, <2>5, <3>1 DEF TurnAnswer
    <3>4. TurnUsage'
      BY <1>1, <1>5, <2>2, <2>5, <3>1 DEF TurnUsage
    <3> QED
      BY <1>7, <3>2, <3>3, <3>4 DEF TurnInv
  <2> QED
    BY <1>4, <1>9, <2>3, <2>4, <2>5 DEF Turn!Account, Turn!None
<1> QED
  BY <1>3, <1>8, <1>9

\* The forwarder yields an event, which it then holds, or closes the channel.
LEMMA YieldKeeps ==
  ASSUME TurnInv, Turn!Yield
  PROVE  TurnInv'
<1>1. /\ forwarder = "next" /\ ~ended /\ Len(delivered) = Len(produced)
      /\ produced \in Seq(Event) /\ delivered \in Seq(Event) /\ Len(produced) \in Nat
      /\ UNCHANGED <<turnDone, caller, response, lastPartial, usage, turnRet, delivered>>
  BY LenProperties DEF Turn!Yield, Turn!callerVars, TurnInv, TurnType, TurnStream
<1>2. turnRet # "ok"
  BY <1>1 DEF TurnInv, TurnAnswer
<1>3. TurnAnswer' /\ TurnUsage'
  BY <1>1, <1>2 DEF TurnInv, TurnAnswer, TurnUsage, UsageExact, Turn!UsageExact, Turn!LastChunk,
     NoError
<1>4. CASE /\ \E k \in Turn!Kinds :
                LET e == [pos |-> Len(produced) + 1, kind |-> k] IN
                produced' = Append(produced, e) /\ item' = <<e>>
           /\ forwarder' = "send" /\ ended' = ended
  <2>1. PICK e \in Event : /\ e.pos = Len(produced) + 1
                           /\ produced' = Append(produced, e) /\ item' = <<e>>
    <3>1. PICK k \in Turn!Kinds : LET e == [pos |-> Len(produced) + 1, kind |-> k] IN
                                  produced' = Append(produced, e) /\ item' = <<e>>
      BY <1>4
    <3>2. [pos |-> Len(produced) + 1, kind |-> k] \in Event
      BY <1>1, <3>1 DEF Event, Turn!Events
    <3> QED
      BY <3>1, <3>2
  <2>2. /\ produced' \in Seq(Event) /\ Len(produced') = Len(produced) + 1
        /\ \A k \in 1 .. Len(produced) : produced'[k] = produced[k]
        /\ produced'[Len(produced) + 1] = e
    BY <1>1, <2>1, AppendProperties
  <2>3. \A k \in 1 .. Len(produced') : produced'[k].pos = k
    <3>1. \A k \in 1 .. Len(produced) : produced[k].pos = k
      BY DEF TurnInv, TurnStream
    <3> QED
      BY <1>1, <2>1, <2>2, <3>1
  <2>4. \A k \in 1 .. Len(delivered) : delivered[k] = produced[k]
    BY DEF TurnInv, TurnStream
  <2>5. TurnStream'
    BY <1>1, <1>4, <2>1, <2>2, <2>3, <2>4 DEF TurnStream
  <2>6. TurnType'
    BY <1>1, <1>4, <2>2 DEF TurnInv, TurnType
  <2> QED
    BY <1>3, <2>5, <2>6 DEF TurnInv
<1>5. CASE forwarder' = "closed" /\ ended' = ~turnDone /\ UNCHANGED <<produced, item>>
  <2>1. ended' \in BOOLEAN /\ (ended' <=> ~turnDone)
    BY <1>5
  <2>2. TurnType'
    BY <1>1, <1>5, <2>1 DEF TurnInv, TurnType
  <2>3. TurnStream'
    BY <1>1, <1>5, <2>1 DEF TurnInv, TurnStream
  <2> QED
    BY <1>3, <2>2, <2>3 DEF TurnInv
<1> QED
  BY <1>4, <1>5 DEF Turn!Yield

LEMMA EmptyEvents == \A s : s = <<>> => s \in Seq(Event) /\ Len(s) <= 1
<1>1. <<>> \in Seq(Event)
  BY EmptySeq
<1>2. Len(<<>>) = 0
  BY EmptySeq
<1>3. ASSUME NEW n, n = 0
      PROVE  n <= 1
  BY <1>3
<1>4. Len(<<>>) <= 1
  BY <1>2, <1>3
<1> QED
  BY <1>1, <1>4

\* Nothing has been delivered, counted or answered.
LEMMA FreshTurn ==
  /\ LlmInit => TurnInv
  /\ /\ turnDone' = ctxDone /\ produced' = <<>> /\ ended' = FALSE
     /\ forwarder' = "next" /\ caller' = "select"
     /\ response' = <<>> /\ lastPartial' = <<>>
     /\ usage' = <<>> /\ delivered' = <<>> /\ turnRet' = "none"
     /\ ctxDone \in BOOLEAN
     => TurnInv'
<1>1. <<>> \in Seq(Event) /\ Len(<<>>) = 0 /\ Turn!InOrder(<<>>) /\ Range(<<>>) = {}
      /\ Turn!Range(<<>>) = {}
  BY EmptySeq DEF Turn!InOrder, Range, Turn!Range
<1>2. Turn!Finals(<<>>) = {}
  BY <1>1 DEF Turn!Finals
<1>3. delivered = <<>> => Turn!LastChunk = {}
  BY DEF Turn!LastChunk
<1>4. ASSUME LlmInit
      PROVE  TurnInv
  <2>1. TurnType /\ TurnStream
    <3>1. TurnType
      <4>1. \A s \in {produced, delivered, response, usage, lastPartial} :
              s \in Seq(Event) /\ Len(s) <= 1
        BY <1>4, EmptyEvents DEF LlmInit
      <4> QED
        BY <1>4, <4>1 DEF LlmInit, TurnType
    <3>2. Len(produced) = 0 /\ Len(delivered) = 0 /\ ~ended /\ forwarder = "closed"
          /\ caller = "returned"
      BY <1>1, <1>4 DEF LlmInit
    <3>3. TurnStream
      BY <3>2 DEF TurnStream
    <3> QED
      BY <3>1, <3>3
  <2>2. TurnAnswer
    BY <1>1, <1>2, <1>4 DEF LlmInit, TurnAnswer
  <2>3. TurnUsage
    BY <1>1, <1>2, <1>3, <1>4 DEF LlmInit, TurnUsage, UsageExact, Turn!UsageExact
  <2> QED
    BY <2>1, <2>2, <2>3 DEF TurnInv
<1>5. ASSUME /\ turnDone' = ctxDone /\ produced' = <<>> /\ ended' = FALSE
             /\ forwarder' = "next" /\ caller' = "select"
             /\ response' = <<>> /\ lastPartial' = <<>>
             /\ usage' = <<>> /\ delivered' = <<>> /\ turnRet' = "none"
             /\ ctxDone \in BOOLEAN
      PROVE  TurnInv'
  <2>1. Turn!LastChunk' = {}
    BY <1>5 DEF Turn!LastChunk
  <2> QED
    <3>1. TurnType' /\ TurnStream'
      <4>1. TurnType'
        <5>1. \A s \in {produced', delivered', response', usage', lastPartial'} :
                s \in Seq(Event) /\ Len(s) <= 1
          BY <1>5, EmptyEvents
        <5> QED
          BY <1>5, <5>1 DEF TurnType
      <4>2. Len(produced') = 0 /\ Len(delivered') = 0 /\ ~ended' /\ forwarder' = "next"
        BY <1>1, <1>5
      <4>3. TurnStream'
        BY <4>2 DEF TurnStream
      <4> QED
        BY <4>1, <4>3
    <3>2. NoError'
      BY <1>1, <1>5 DEF NoError
    <3>3. TurnAnswer'
      BY <1>1, <1>2, <1>5, <3>2 DEF TurnAnswer
    <3>4. UsageExact'
      BY <1>5 DEF UsageExact, Turn!UsageExact
    <3>5. TurnUsage'
      BY <1>1, <1>2, <1>5, <2>1, <3>4 DEF TurnUsage
    <3> QED
      BY <3>1, <3>3, <3>5 DEF TurnInv
<1> QED
  BY <1>4, <1>5

LEMMA StepTurn ==
  ASSUME LoopInv, TurnInv, [LlmNext]_llmVars
  PROVE  TurnInv'
<1>1. CASE UNCHANGED turnState
  <2>1. TurnType' /\ TurnStream'
    BY <1>1 DEF turnState, TurnInv, TurnType, TurnStream
  <2>2. TurnAnswer' /\ TurnUsage'
    BY <1>1 DEF turnState, TurnInv, TurnAnswer, TurnUsage, UsageExact, Turn!UsageExact,
       Turn!LastChunk, NoError
  <2> QED
    BY <2>1, <2>2 DEF TurnInv
<1>2. CASE StartTurn
  <2>1. CASE UNCHANGED <<expired, turnVars>>
    BY <1>1, <2>1 DEF turnVars, turnState
  <2>2. CASE /\ turnDone' = ctxDone /\ produced' = <<>> /\ ended' = FALSE
             /\ forwarder' = "next" /\ caller' = "select"
             /\ response' = <<>> /\ lastPartial' = <<>>
             /\ usage' = <<>> /\ delivered' = <<>> /\ turnRet' = "none"
    BY <2>2, FreshTurn DEF LoopInv, LoopType
  <2> QED
    BY <1>2, <2>1, <2>2 DEF StartTurn
<1>3. CASE ConsumeEvents
  <2>1. caller # "returned"
    BY <1>3 DEF ConsumeEvents
  <2>2. CASE Turn!SelectDone \/ Turn!SelectClosed
    <3>1. /\ caller' = "returned" /\ turnDone' = TRUE /\ usage' = usage \o lastPartial
          /\ UNCHANGED <<produced, ended, forwarder, item, response, lastPartial, delivered>>
      BY <2>2 DEF Turn!SelectDone, Turn!SelectClosed, Turn!Return, Turn!streamVars
    <3>2. turnRet' = "ok" => ended
      BY <2>1, <2>2 DEF Turn!SelectDone, Turn!SelectClosed, Turn!Return, Turn!Complete, TurnInv,
         TurnStream
    <3> QED
      BY <2>1, <3>1, <3>2, TurnReturns
  <2>3. CASE Turn!SelectItem
    BY <2>3, SelectItemKeeps
  <2>4. CASE Turn!CheckContext
    <3>1. CASE turnDone
      BY <2>1, <2>4, <3>1, TurnReturns DEF Turn!CheckContext, Turn!Return, Turn!streamVars
    <3>2. CASE ~turnDone
      <4>1. /\ caller' = "select"
            /\ UNCHANGED <<turnDone, produced, ended, forwarder, item, response, lastPartial,
                           usage, delivered, turnRet>>
        BY <2>4, <3>2 DEF Turn!CheckContext, Turn!streamVars
      <4>2. TurnType' /\ TurnStream'
        BY <2>1, <4>1 DEF TurnInv, TurnType, TurnStream
      <4>3. TurnAnswer' /\ TurnUsage'
        BY <2>1, <4>1 DEF TurnInv, TurnAnswer, TurnUsage, UsageExact, Turn!UsageExact,
           Turn!LastChunk, NoError
      <4> QED
        BY <4>2, <4>3 DEF TurnInv
    <3> QED
      BY <3>1, <3>2
  <2> QED
    BY <1>3, <2>2, <2>3, <2>4 DEF ConsumeEvents
<1>4. CASE ForwardEvents
  <2>1. CASE Turn!GiveUp
    <3>1. /\ forwarder = "send" /\ turnDone /\ forwarder' = "closed"
          /\ UNCHANGED <<turnDone, produced, ended, caller, response, lastPartial, usage, turnRet,
                         delivered>>
      BY <2>1 DEF Turn!GiveUp, Turn!Abandoned, Turn!callerVars
    <3>2. TurnType' /\ TurnStream'
      BY <3>1 DEF TurnInv, TurnType, TurnStream
    <3>3. TurnAnswer' /\ TurnUsage'
      BY <3>1 DEF TurnInv, TurnAnswer, TurnUsage, UsageExact, Turn!UsageExact, Turn!LastChunk,
         NoError
    <3> QED
      BY <3>2, <3>3 DEF TurnInv
  <2> QED
    BY <1>4, <2>1, YieldKeeps DEF ForwardEvents
<1>5. CASE ExpireTurn \/ CancelAll
  <2>1. /\ turnDone' \in BOOLEAN /\ (turnDone => turnDone')
        /\ UNCHANGED <<produced, ended, forwarder, item, caller, response, lastPartial, usage,
                       delivered, turnRet>>
    BY <1>5 DEF ExpireTurn, CancelAll, Turn!Expire, Turn!streamVars, Turn!callerVars, TurnInv,
       TurnType
  <2>2. TurnType' /\ TurnStream'
    BY <2>1 DEF TurnInv, TurnType, TurnStream
  <2>3. TurnAnswer' /\ TurnUsage'
    BY <2>1 DEF TurnInv, TurnAnswer, TurnUsage, UsageExact, Turn!UsageExact, Turn!LastChunk,
       NoError
  <2> QED
    BY <2>2, <2>3 DEF TurnInv
<1>6. CASE LoopStep \/ Over \/ UNCHANGED llmVars
  BY <1>1, <1>6 DEF LoopStep, Over, llmVars, turnVars, turnState
<1> QED
  BY <1>2, <1>3, <1>4, <1>5, <1>6 DEF LlmNext

\* What a turn brings is a whole answer or an error, and its tokens are counted
\* once, for streams of any length and however consumer, forwarder, timeout and
\* caller interleave.
THEOREM TurnIsExact == LlmSpec => []TurnExact
<1>1. LlmInit => TurnInv
  BY FreshTurn
<1>2. LoopInv /\ TurnInv /\ [LlmNext]_llmVars => TurnInv'
  BY StepTurn
<1>3. TurnInv => TurnExact
  <2> SUFFICES ASSUME TurnInv
               PROVE  TurnExact
    OBVIOUS
  <2>1. UsageExact
    BY DEF TurnInv, TurnUsage
  <2>2. ASSUME turnRet = "ok"
        PROVE  /\ Range(response) = Turn!Finals(produced) /\ Turn!InOrder(response)
               /\ ended /\ \A e \in Range(produced) : e.kind # "error"
    <3>1. /\ produced \in Seq(Event) /\ delivered \in Seq(Event)
          /\ Len(delivered) = Len(produced)
          /\ \A k \in 1 .. Len(delivered) : delivered[k] = produced[k]
          /\ Range(response) = Turn!Finals(delivered) /\ Turn!InOrder(response)
          /\ ended /\ NoError
      BY <2>2 DEF TurnInv, TurnType, TurnStream, TurnAnswer
    <3>2. Range(delivered) = Range(produced)
      BY <3>1, RangeElements
    <3> QED
      BY <3>1, <3>2, RangeElements DEF NoError
  <2> QED
    BY <2>1, <2>2 DEF TurnExact, AnswerWhole, Turn!AnswerWhole, Range, Turn!Range
<1> QED
  BY <1>1, <1>2, <1>3, SpecLoop, ClientImplementsLoop, PTL DEF LlmSpec, ImplementsLoop
=============================================================================
