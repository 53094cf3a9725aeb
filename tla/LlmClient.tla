------------------------------ MODULE LlmClient ------------------------------
(***************************************************************************)
(* The client of common/clients/llm as a whole: the feedback loop with its *)
(* turns run event by event.  FeedbackLoop takes a turn in one step; here  *)
(* the turn is AgentTurn, its context ends with the caller's, and the loop *)
(* goes on in the step in which consumeEvents returns.  FeedbackLoop is    *)
(* the abstract specification that this one implements.                    *)
(*                                                                         *)
(* A forwarder left behind by an earlier turn waits for nothing but its    *)
(* own context, which is done, and shares nothing with the next turn, so   *)
(* only the forwarder of the latest turn is kept.                          *)
(***************************************************************************)
EXTENDS FeedbackLoop

CONSTANTS
  MaxEvents   \* bound: the events an agent produces in a turn

ASSUME TurnAssumption == MaxEvents \in Nat

VARIABLES
  expired,    \* the timeout of the turn, or of the loop, has passed
  turnDone, produced, ended, forwarder, item, caller, response, lastPartial,
  usage, delivered,
  turnRet     \* what consumeEvents returned

Turn == INSTANCE AgentTurn WITH ret <- turnRet

turnVars == <<turnDone, produced, ended, forwarder, item, caller, response,
              lastPartial, usage, delivered, turnRet>>

llmVars == <<vars, expired, turnVars>>

\* Before the first turn there is neither a forwarder nor a consumer.
LlmInit ==
  /\ Init
  /\ expired = FALSE
  /\ turnDone = FALSE
  /\ produced = <<>> /\ ended = FALSE
  /\ forwarder = "closed" /\ item = <<>>
  /\ caller = "returned"
  /\ response = <<>> /\ lastPartial = <<>> /\ usage = <<>> /\ delivered = <<>>
  /\ turnRet = "none"

\* The steps of the loop between turns.
LoopStep ==
  /\ Enter \/ LoopHead \/ Wait \/ CreateSession \/ Verify
  /\ UNCHANGED <<expired, turnVars>>

\* runTurn has its session: the agent's runner cannot be made, or the turn's
\* context is made from the loop's and its events are consumed.
StartTurn ==
  /\ pc = "turn"
  /\ caller = "returned"
  /\ \/ /\ TurnFailed(sessionID)
        /\ UNCHANGED <<verifier, ctxDone, now, created, verifying>>
        /\ UNCHANGED <<expired, turnVars>>
     \/ /\ turnDone' = ctxDone
        /\ expired' = FALSE
        /\ produced' = <<>> /\ ended' = FALSE
        /\ forwarder' = "next" /\ item' = <<>>
        /\ caller' = "select"
        /\ response' = <<>> /\ lastPartial' = <<>>
        /\ usage' = <<>> /\ delivered' = <<>>
        /\ turnRet' = "none"
        /\ UNCHANGED vars

\* The turn took the time it took: all of it if the context expired.
Elapsed_WholeTimeout == IF expired THEN {TurnTimeout} ELSE 0 .. TurnTimeout

Elapsed ==
  LET most == MinOf(TurnTimeout, Left) IN
  IF expired THEN {most} ELSE 0 .. most

EndTurn ==
  /\ \E d \in Elapsed : now' = now + d
  /\ IF turnRet' = "ok"
       THEN pc' = "verify" /\ UNCHANGED <<loopVars, ret, turns>>
       ELSE TurnFailed(sessionID)
  /\ UNCHANGED <<verifier, ctxDone, created, verifying>>

\* A step of consumeEvents, which may be its last.
ConsumeEvents ==
  /\ pc = "turn"
  /\ caller # "returned"
  /\ Turn!SelectDone \/ Turn!SelectClosed \/ Turn!SelectItem \/ Turn!CheckContext
  /\ IF caller' = "returned" THEN EndTurn ELSE UNCHANGED vars
  /\ UNCHANGED expired

\* A step of the forwarding goroutine, which may outlive its turn.
ForwardEvents ==
  /\ Turn!Yield \/ Turn!GiveUp
  /\ UNCHANGED <<vars, expired>>

\* The timeout of the turn passes.
ExpireTurn ==
  /\ pc = "turn"
  /\ caller # "returned"
  /\ Turn!Expire
  /\ expired' = TRUE
  /\ UNCHANGED vars

\* The caller's context is done, and with it that of a turn.
CancelAll ==
  /\ Cancel
  /\ turnDone' = (turnDone \/ caller # "returned")
  /\ UNCHANGED <<expired, produced, ended, forwarder, item, caller, response,
                 lastPartial, usage, delivered, turnRet>>

\* The call has returned; its last forwarder may wait for the agent for ever.
Over == pc = "returned" /\ UNCHANGED llmVars

LlmNext ==
  \/ LoopStep
  \/ StartTurn
  \/ ConsumeEvents
  \/ ForwardEvents
  \/ ExpireTurn
  \/ CancelAll
  \/ Over

LlmSpec == LlmInit /\ [][LlmNext]_llmVars

\* The goroutines are scheduled, timers fire and the verifier returns; an
\* agent that stalls is not forced to yield.
LlmFairness ==
  /\ WF_llmVars(LoopStep)
  /\ WF_llmVars(StartTurn)
  /\ WF_llmVars(ConsumeEvents)
  /\ WF_llmVars(ExpireTurn)
  /\ WF_llmVars(Turn!GiveUp /\ UNCHANGED <<vars, expired>>)

LlmFairSpec == LlmSpec /\ LlmFairness

-----------------------------------------------------------------------------
AnswerWhole == Turn!AnswerWhole
UsageExact == Turn!UsageExact

\* What a turn brings, however it ended, is a whole answer or an error, and
\* what it cost is counted once.
TurnExact == AnswerWhole /\ UsageExact

\* The whole call returns although the agent may stall in any turn.
LoopReturns == <>(pc = "returned")

\* A forwarder with an event in hand does not stay blocked on a channel that
\* nobody reads, whichever way its turn ended.
ForwarderFreed == (forwarder = "send") ~> (forwarder # "send")

\* Neither the caller nor a forwarder of a turn that is over blocks for ever.
EverythingEnds == LoopReturns /\ ForwarderFreed

\* With turns run event by event the client still does what the loop with
\* one-step turns does: no interleaving of consumer, forwarder, timeout and
\* caller makes a turn end in a way the loop does not expect.
ImplementsLoop == Spec
=============================================================================
