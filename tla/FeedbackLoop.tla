----------------------------- MODULE FeedbackLoop -----------------------------
(***************************************************************************)
(* Client.RunWithFeedbackLoop of common/clients/llm: run the agent, verify *)
(* its answer, and either return it, feed the diagnostic back into the     *)
(* same session, or start over in a new one, within a number of attempts   *)
(* and a deadline computed from the timeouts.                              *)
(*                                                                         *)
(* Time is counted in units: a turn takes between nothing and its timeout, *)
(* a verification up to MaxVerify units, and both end when their context   *)
(* is done.  A turn's content is 0 for the initial prompt and k for the    *)
(* diagnostic about the answer of the k-th turn.                           *)
(***************************************************************************)
EXTENDS Integers, Sequences

CONSTANTS
  MaxAttempts,  \* LlmClientConfig.max_attempts
  TurnTimeout,  \* LlmClientConfig.timeout_per_request_seconds
  RetryDelay,   \* LlmClientConfig.retry_delay_seconds
  MaxVerify     \* bound: how long a verification takes

ASSUME LoopAssumption ==
  /\ MaxAttempts \in Int
  /\ TurnTimeout \in Nat
  /\ RetryDelay \in Nat
  /\ MaxVerify \in Nat

VARIABLES
  pc,         \* "entry", "head", "wait", "session", "turn", "verify", "returned"
  verifier,   \* whether the caller gave a verifier
  attempt,    \* the loop variable
  ctxDone,    \* the caller's context is done
  now,        \* time since the start of the loop
  sessionID,  \* the session to continue, 0 for none
  content,    \* turnContent
  created,    \* sessions created so far; they are numbered
  ret,        \* what the call returned
  turns,      \* history: the turns run, with their session, content and outcome
  verifying   \* history: time spent in verifications

loopVars == <<attempt, sessionID, content>>
vars     == <<pc, verifier, loopVars, ctxDone, now, created, ret, turns, verifying>>

Max0(n) == IF n > 0 THEN n ELSE 0

loopTimeout_NoDelays == MaxAttempts * TurnTimeout
loopTimeout == MaxAttempts * TurnTimeout + Max0(MaxAttempts - 1) * RetryDelay

loopCtxDone == ctxDone \/ now >= loopTimeout

Left == Max0(loopTimeout - now)

MinOf(a, b) == IF a <= b THEN a ELSE b

Init ==
  /\ pc = "entry"
  /\ verifier \in BOOLEAN
  /\ attempt = 1
  /\ ctxDone \in BOOLEAN
  /\ now = 0
  /\ sessionID = 0
  /\ content = 0
  /\ created = 0
  /\ ret = "none"
  /\ turns = <<>>
  /\ verifying = 0

Return(what) == pc' = "returned" /\ ret' = what

\* A request without content or role is refused before anything is started.
Enter ==
  /\ pc = "entry"
  /\ \/ Return("contentRequired")
     \/ pc' = "head" /\ UNCHANGED ret
  /\ UNCHANGED <<verifier, loopVars, ctxDone, now, created, turns, verifying>>

Again ==
  /\ attempt' = attempt + 1
  /\ pc' = "head"
  /\ UNCHANGED ret

\* The loop condition and loopCtx.Err().
LoopOver == attempt > MaxAttempts

LoopHead ==
  /\ pc = "head"
  /\ IF LoopOver THEN Return("maxAttempts")
     ELSE IF loopCtxDone THEN Return("ctxErr")
     ELSE pc' = (IF attempt > 1 THEN "wait" ELSE "session") /\ UNCHANGED ret
  /\ UNCHANGED <<verifier, loopVars, ctxDone, now, created, turns, verifying>>

\* The select between the retry delay and loopCtx; either may win a tie.
Wait ==
  /\ pc = "wait"
  /\ \/ /\ ~ctxDone
        /\ RetryDelay <= Left
        /\ now' = now + RetryDelay
        /\ pc' = "session"
        /\ UNCHANGED ret
     \/ /\ \E d \in 0 .. MinOf(RetryDelay, Left) :
             /\ now' = now + d
             /\ ctxDone \/ now' >= loopTimeout
        /\ Return("ctxErr")
  /\ UNCHANGED <<verifier, loopVars, ctxDone, created, turns, verifying>>

\* What the loop does when a turn failed: unless the caller is gone, the
\* session is given up and the next attempt starts from the prompt.
Restart_KeepsContent ==
  /\ sessionID' = 0
  /\ UNCHANGED content

Restart ==
  /\ sessionID' = 0
  /\ content' = 0

TurnFailed(s) ==
  /\ turns' = Append(turns, [sess |-> s, content |-> content, out |-> "error"])
  /\ IF ctxDone
       THEN Return("ctxErr") /\ UNCHANGED loopVars
       ELSE Restart /\ Again

\* runTurn creates a session unless one is continued; that may fail.
CreateSession ==
  /\ pc = "session"
  /\ \/ /\ sessionID # 0
        /\ pc' = "turn"
        /\ UNCHANGED <<loopVars, created, ret, turns>>
     \/ /\ sessionID = 0
        /\ created' = created + 1
        /\ sessionID' = created'
        /\ pc' = "turn"
        /\ UNCHANGED <<attempt, content, ret, turns>>
     \/ /\ sessionID = 0
        /\ TurnFailed(0)
        /\ UNCHANGED created
  /\ UNCHANGED <<verifier, ctxDone, now, verifying>>

\* The agent answers within the turn's timeout, or the turn fails: an error of
\* the agent at any time, the timeout, or the end of loopCtx.
RunTurn ==
  /\ pc = "turn"
  /\ \E d \in 0 .. MinOf(TurnTimeout, Left) :
       /\ now' = now + d
       /\ \/ /\ ~ctxDone
             /\ pc' = "verify"
             /\ UNCHANGED <<loopVars, ret, turns>>
          \/ TurnFailed(sessionID)
  /\ UNCHANGED <<verifier, ctxDone, created, verifying>>

Answered(out) ==
  turns' = Append(turns, [sess |-> sessionID, content |-> content, out |-> out])

\* What the loop does when the verifier refused the answer.
Refine ==
  /\ UNCHANGED sessionID
  /\ content' = Len(turns')

\* An error that wraps ErrAbort ends the run.
Abort == Return("abort") /\ UNCHANGED loopVars

\* verifier(loopCtx, resp): it accepts, refuses, or aborts the run; without a
\* verifier every answer is returned.
Verify ==
  /\ pc = "verify"
  /\ \E d \in 0 .. (IF verifier THEN MinOf(MaxVerify, Left) ELSE 0) :
       now' = now + d /\ verifying' = verifying + d
  /\ \/ /\ Answered("accepted")
        /\ Return("ok")
        /\ UNCHANGED loopVars
     \/ /\ verifier
        /\ Answered("aborted")
        /\ Abort
     \/ /\ verifier
        /\ Answered("refused")
        /\ IF ctxDone
             THEN Return("ctxErr") /\ UNCHANGED loopVars
             ELSE Refine /\ Again
  /\ UNCHANGED <<verifier, ctxDone, created>>

\* The caller cancels or its deadline passes.
Cancel ==
  /\ ~ctxDone
  /\ pc # "returned"
  /\ ctxDone' = TRUE
  /\ UNCHANGED <<pc, verifier, loopVars, now, created, ret, turns, verifying>>

Terminated == pc = "returned" /\ UNCHANGED vars

Next ==
  \/ Enter
  \/ LoopHead
  \/ Wait
  \/ CreateSession
  \/ RunTurn
  \/ Verify
  \/ Cancel
  \/ Terminated

Spec == Init /\ [][Next]_vars

-----------------------------------------------------------------------------
TypeOK ==
  /\ pc \in {"entry", "head", "wait", "session", "turn", "verify", "returned"}
  /\ verifier \in BOOLEAN
  /\ attempt \in 1 .. Max0(MaxAttempts) + 1
  /\ ctxDone \in BOOLEAN
  /\ now \in 0 .. Max0(loopTimeout)
  /\ sessionID \in 0 .. created
  /\ content \in 0 .. Len(turns)
  /\ created \in 0 .. Max0(MaxAttempts)
  /\ ret \in {"none", "contentRequired", "maxAttempts", "ctxErr", "ok", "abort"}
  /\ verifying \in Nat

\* The conversation is coherent: after a refused answer the next turn carries
\* that diagnostic into the session of the refused answer; after a failed turn
\* the next one carries the prompt into a session nobody has used; after an
\* accepted answer or an abort there is none, and the call returns accordingly.
Coherent ==
  /\ \A k \in 2 .. Len(turns) :
       CASE turns[k - 1].out = "refused" ->
              turns[k].sess = turns[k - 1].sess /\ turns[k].content = k - 1
         [] turns[k - 1].out = "error" ->
              /\ turns[k].content = 0
              /\ turns[k].sess # 0 => \A j \in 1 .. k - 1 : turns[j].sess # turns[k].sess
         [] OTHER -> FALSE
  /\ ret = "ok" => turns[Len(turns)].out = "accepted"
  /\ ret = "abort" => turns[Len(turns)].out = "aborted"

\* The deadline computed from the timeouts is long enough: unless the caller
\* is gone or verifications took time of their own, the run ends with an
\* answer, an abort, or after all attempts; and once the last attempt has run,
\* also by a timeout, the error is ErrMaxAttemptsReached.
AttemptsNotCutShort ==
  /\ ret = "maxAttempts" => Len(turns) = Max0(MaxAttempts)
  /\ ret = "ctxErr" /\ ~ctxDone /\ TurnTimeout > 0 =>
       verifying > 0 /\ Len(turns) < MaxAttempts
=============================================================================
