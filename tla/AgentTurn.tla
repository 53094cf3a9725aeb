------------------------------ MODULE AgentTurn ------------------------------
(***************************************************************************)
(* One turn with the model (runTurn, consumeEvents and forwardEvents of    *)
(* common/clients/llm/turn.go): a goroutine forwards the events of the     *)
(* agent over an unbuffered channel to the caller, which collects the      *)
(* answer and the token usage until the stream ends, an error arrives or   *)
(* the turn's context is done.                                             *)
(*                                                                         *)
(* An event is its position in the stream and its kind.  The agent may     *)
(* stop producing for as long as it likes.                                 *)
(***************************************************************************)
EXTENDS Integers, Sequences, Functions

CONSTANTS
  MaxEvents   \* bound: the events an agent produces in a turn

\* "chunk" is a partial event with usage metadata, "bare" one without it.
Kinds == {"final", "chunk", "bare", "error"}

Events == [pos : Nat \ {0}, kind : Kinds]

VARIABLES
  turnDone,     \* turnCtx is done: timeout, caller gone, or the deferred cancel
  produced,     \* the events the agent has yielded
  ended,        \* the agent's iterator is exhausted
  forwarder,    \* forwardEvents' goroutine: "next", "send", "closed"
  item,         \* the event it is trying to send
  caller,       \* consumeEvents: "select", "check", "returned"
  response,     \* the answer collected so far
  lastPartial,  \* the latest chunk since the last final event, or none
  usage,        \* the events whose usage was added, in order
  ret,          \* what consumeEvents returned
  delivered     \* history: the events the caller has received

streamVars == <<produced, ended, forwarder, item>>
callerVars == <<caller, response, lastPartial, usage, ret>>
vars       == <<turnDone, streamVars, callerVars, delivered>>

None == <<>>

Init ==
  /\ turnDone \in BOOLEAN
  /\ produced = <<>>
  /\ ended = FALSE
  /\ forwarder = "next"
  /\ item = None
  /\ caller = "select"
  /\ response = <<>>
  /\ lastPartial = None
  /\ usage = <<>>
  /\ ret = "none"
  /\ delivered = <<>>

-----------------------------------------------------------------------------
(* The forwarding goroutine.                                               *)

\* The iterator yields an event, or ends: because the agent is done or because
\* it noticed that its context is.
Yield ==
  /\ forwarder = "next"
  /\ \/ /\ Len(produced) < MaxEvents
        /\ \E k \in Kinds :
             LET e == [pos |-> Len(produced) + 1, kind |-> k] IN
             produced' = Append(produced, e) /\ item' = <<e>>
        /\ forwarder' = "send"
        /\ UNCHANGED ended
     \/ /\ forwarder' = "closed"
        /\ ended' = ~turnDone
        /\ UNCHANGED <<produced, item>>
  /\ UNCHANGED <<turnDone, callerVars, delivered>>

\* The select of the forwarder takes ctx.Done(); the channel is closed.
Abandoned_Never == FALSE
Abandoned == turnDone

GiveUp ==
  /\ forwarder = "send"
  /\ Abandoned
  /\ forwarder' = "closed"
  /\ item' = None
  /\ UNCHANGED <<turnDone, produced, ended, callerVars, delivered>>

-----------------------------------------------------------------------------
(* The caller.  Returning runs the deferred functions: the usage of a last *)
(* partial event is added, and cancel() ends the turn's context.           *)

Return(what) ==
  /\ caller' = "returned"
  /\ ret' = what
  /\ usage' = usage \o lastPartial
  /\ turnDone' = TRUE

TimedOut == turnDone

SelectDone ==
  /\ caller = "select"
  /\ TimedOut
  /\ Return("error")
  /\ UNCHANGED <<streamVars, response, lastPartial, delivered>>

\* The channel is closed: the answer is complete only if the turn's context is
\* still alive.
Complete_Always == TRUE
Complete == ~turnDone

SelectClosed ==
  /\ caller = "select"
  /\ forwarder = "closed"
  /\ Return(IF Complete THEN "ok" ELSE "error")
  /\ UNCHANGED <<streamVars, response, lastPartial, delivered>>

\* A partial event is remembered if it has usage metadata; a final one is
\* counted and its text appended.
Account(e) ==
  CASE e.kind = "final" -> /\ lastPartial' = None
                           /\ usage' = Append(usage, e)
                           /\ response' = Append(response, e)
    [] e.kind = "chunk" -> lastPartial' = <<e>> /\ UNCHANGED <<usage, response>>
    [] OTHER            -> UNCHANGED <<lastPartial, usage, response>>

\* Sender and receiver meet on the unbuffered channel.
SelectItem ==
  /\ caller = "select"
  /\ forwarder = "send"
  /\ forwarder' = "next"
  /\ item' = None
  /\ delivered' = Append(delivered, item[1])
  /\ IF item[1].kind = "error"
       THEN Return("error") /\ UNCHANGED <<response, lastPartial>>
       ELSE Account(item[1]) /\ caller' = "check" /\ UNCHANGED <<ret, turnDone>>
  /\ UNCHANGED <<produced, ended>>

\* turnCtx.Err() after an event.
CheckContext ==
  /\ caller = "check"
  /\ IF turnDone
       THEN Return("error") /\ UNCHANGED <<response, lastPartial>>
       ELSE caller' = "select" /\ UNCHANGED <<response, lastPartial, usage, ret, turnDone>>
  /\ UNCHANGED <<streamVars, delivered>>

\* The timeout of the turn passes, or the loop's context is done.
Expire ==
  /\ ~turnDone
  /\ turnDone' = TRUE
  /\ UNCHANGED <<streamVars, callerVars, delivered>>

\* The turn is over for its caller.
Terminated == caller = "returned" /\ UNCHANGED vars

Next ==
  \/ Yield
  \/ GiveUp
  \/ SelectDone
  \/ SelectClosed
  \/ SelectItem
  \/ CheckContext
  \/ Expire
  \/ Terminated

Spec == Init /\ [][Next]_vars

-----------------------------------------------------------------------------
TypeOK ==
  /\ turnDone \in BOOLEAN
  /\ produced \in Seq(Events)
  /\ ended \in BOOLEAN
  /\ forwarder \in {"next", "send", "closed"}
  /\ item \in Seq(Events)
  /\ (forwarder = "send") = (Len(item) = 1)
  /\ caller \in {"select", "check", "returned"}
  /\ response \in Seq(Events)
  /\ lastPartial \in Seq(Events)
  /\ Len(lastPartial) <= 1
  /\ usage \in Seq(Events)
  /\ ret \in {"none", "ok", "error"}
  /\ delivered \in Seq(Events)

\* The final events of a stream, and events in the order the agent yielded them.
Finals(s) == {e \in Range(s) : e.kind = "final"}

InOrder(s) == \A j, k \in DOMAIN s : j < k => s[j].pos < s[k].pos

\* An answer is returned only if it is whole: the agent had finished and each
\* final event it produced is in it, once and in order.  A stream cut off by the
\* turn's context, which looks the same on the channel, is an error.
AnswerWhole ==
  ret = "ok" =>
    /\ ended
    /\ InOrder(response) /\ Range(response) = Finals(produced)
    /\ \A e \in Range(produced) : e.kind # "error"

\* Tokens are counted once: each final event received, and a chunk only if the
\* turn stopped before the final event it belongs to.
LastChunk ==
  {delivered[k] : k \in
     {i \in DOMAIN delivered :
        /\ delivered[i].kind = "chunk"
        /\ \A j \in DOMAIN delivered : j > i => delivered[j].kind \in {"bare", "error"}}}

UsageExact ==
  caller = "returned" =>
    InOrder(usage) /\ Range(usage) = Finals(delivered) \cup LastChunk
=============================================================================
