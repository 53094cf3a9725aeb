--------------------------- MODULE TemplatedEngine ---------------------------
(***************************************************************************)
(* The templated engine (common/templatedengine): a plugin is validated    *)
(* once, then its detector serves calls for several services at a time.    *)
(* A call picks a workflow, runs the actions of one phase, and on its way  *)
(* out runs the cleanups that its successful actions deferred.             *)
(*                                                                         *)
(* Calls come from Detect of a templated detector, and from Fingerprint    *)
(* and TestCredential of a templated weak-credentials handler, whose       *)
(* brute-force detector tests credentials in parallel on a service whose   *)
(* fingerprint matched.  What a template says is not modelled, only how    *)
(* an action can end: the answer of a service matches its expectations and *)
(* extractions, or not, or the client fails.                               *)
(***************************************************************************)
EXTENDS Integers, Sequences, SequencesExt, FiniteSets

CONSTANTS
  Calls,      \* calls of the detector
  Plugins,    \* templated plugins, valid or not
  Mixes       \* what the calls are: functions from Calls to [kind, service]

\* The fields of a plugin and the callers of a detector.
ASSUME EngineAssumption ==
  /\ \A p \in Plugins :
       /\ p.workflows \in Seq([needsCallback : BOOLEAN, acts : Seq(STRING)])
       /\ \A n \in DOMAIN p.actions :
            p.actions[n].phase \in 0 .. 2 /\ p.actions[n].cleanups \in Seq(STRING)
  /\ \A m \in Mixes : \A c \in Calls : m[c].kind \in {"detect", "fingerprint", "test"}

VARIABLES
  plugin,       \* proto: the actions by name, and the workflows
  state,        \* of the detector: "new", "loaded", "refused"
  mix,          \* the kind and the service of each call
  enabled,      \* the callback server is configured
  web,          \* the services that are web services
  vulnerable,   \* the services that call back what they are sent
  scanDone,     \* the scan was cancelled
  call,         \* the state of each call, see NewCall
  planted,      \* secrets that a vulnerable service was sent
  interactions  \* secrets the callback server has recorded

setting    == <<plugin, mix, enabled, web, vulnerable>>
engineVars == <<setting, state, scanDone, call, planted, interactions>>

\* ActionPhase; an action without a phase belongs to the detection.
Undefined   == 0
Fingerprint == 1
Detection   == 2

\* deferred is the stack of cleanups, cleaning the list of the deferred
\* function that is running; ran and cleaned are histories.
NewCall ==
  [pc |-> "idle", workflow |-> 0, todo |-> <<>>, uri |-> 1, deferred |-> <<>>,
   cleaning |-> <<>>, outcome |-> "none", ran |-> <<>>, cleaned |-> <<>>]

EngineInit ==
  /\ plugin \in Plugins
  /\ mix \in Mixes
  /\ enabled \in BOOLEAN
  /\ web \in SUBSET {mix[c].service : c \in Calls}
  /\ vulnerable \in SUBSET web
  /\ state = "new"
  /\ scanDone = FALSE
  /\ call = [c \in Calls |-> NewCall]
  /\ planted = {}
  /\ interactions = {}

-----------------------------------------------------------------------------
(* The plugin.                                                             *)

Names == DOMAIN plugin.actions

ActionPhase(n) ==
  LET p == plugin.actions[n].phase IN IF p = Undefined THEN Detection ELSE p

HasRunner(n) == plugin.actions[n].kind \in {"http", "sleep", "callback"}

\* Each action has a runner, cleanups and workflows name known actions, and
\* phases do not decrease along a workflow.
Validate ==
  /\ \A n \in Names : HasRunner(n) /\ Range(plugin.actions[n].cleanups) \subseteq Names
  /\ \A w \in Range(plugin.workflows) :
       /\ Range(w.acts) \subseteq Names
       /\ \A i, j \in DOMAIN w.acts : i < j => ActionPhase(w.acts[i]) <= ActionPhase(w.acts[j])

New ==
  /\ state = "new"
  /\ state' = IF Validate THEN "loaded" ELSE "refused"
  /\ UNCHANGED <<setting, scanDone, call, planted, interactions>>

-----------------------------------------------------------------------------
(* A call.                                                                 *)

TargetPhase(c) ==
  CASE mix[c].kind = "detect"      -> Undefined
    [] mix[c].kind = "fingerprint" -> Fingerprint
    [] mix[c].kind = "test"        -> Detection

InPhase(c, n) == TargetPhase(c) = Undefined \/ ActionPhase(n) = TargetPhase(c)

\* What the three callers make of how DetectForPhase ended: a failed action
\* means that there is no vulnerability, no match or a wrong credential; a
\* missing workflow is an error only to TestCredential.  A phase that ends
\* before the workflow does leaves no report.
Verdict(c) ==
  LET out == call[c].outcome IN
  CASE out = "failed"     -> "no"
    [] out = "noWorkflow" -> IF mix[c].kind = "test" THEN "error" ELSE "no"
    [] out = "report"     -> "yes"
    [] out = "nil"        -> IF mix[c].kind = "fingerprint" THEN "yes" ELSE "no"
    [] OTHER              -> "error"

\* The brute-force detector tests credentials once Fingerprint has matched.
MayStart(c) ==
  mix[c].kind = "test" =>
    \E f \in Calls : /\ mix[f] = [kind |-> "fingerprint", service |-> mix[c].service]
                     /\ call[f].pc = "returned"
                     /\ Verdict(f) = "yes"

MeetsConditions(w) == w.needsCallback => enabled

\* The function returns with an outcome: its deferred functions run first.
Leave(r, out) == [r EXCEPT !.pc = "unwind", !.outcome = out]

\* DetectForPhase takes the first compatible workflow and makes an environment
\* for it, which fails for an endpoint without a usable address.
Begin(c) ==
  /\ state = "loaded"
  /\ call[c].pc = "idle"
  /\ MayStart(c)
  /\ LET fits == {k \in DOMAIN plugin.workflows : MeetsConditions(plugin.workflows[k])}
         k    == CHOOSE i \in fits : \A j \in fits : i <= j
     IN  \E r \in IF fits = {} THEN {Leave(call[c], "noWorkflow")}
                  ELSE {[call[c] EXCEPT !.pc = "next", !.workflow = k,
                                        !.todo = plugin.workflows[k].acts],
                        Leave(call[c], "initError")} :
           call' = [call EXCEPT ![c] = r]
  /\ UNCHANGED <<setting, state, scanDone, planted, interactions>>

\* The action in hand: of the workflow, or a cleanup once the call unwinds.
Current(r) == IF r.outcome = "none" THEN Head(r.todo) ELSE Head(r.cleaning)

\* An action ended.  In the workflow a success defers the action's cleanups
\* and a failure ends the call; a failing cleanup ends its deferred function.
Ended_DefersFirst(r, res) ==
  LET n == Current(r) IN
  IF r.outcome = "none"
    THEN LET d == [r EXCEPT !.deferred = Append(@, plugin.actions[n].cleanups)] IN
         IF res = "ok"
           THEN [d EXCEPT !.pc = "next", !.todo = Tail(@), !.ran = Append(@, n)]
           ELSE Leave(d, res)
    ELSE [r EXCEPT !.pc = "unwind",
                   !.cleaning = IF res = "ok" THEN Tail(@) ELSE <<>>,
                   !.cleaned = Append(@, [of |-> Len(r.deferred) + 1, name |-> n, res |-> res])]

Ended(r, res) ==
  LET n == Current(r) IN
  IF r.outcome = "none"
    THEN IF res = "ok"
           THEN [r EXCEPT !.pc = "next", !.todo = Tail(@), !.ran = Append(@, n),
                          !.deferred = Append(@, plugin.actions[n].cleanups)]
           ELSE Leave(r, res)
    ELSE [r EXCEPT !.pc = "unwind",
                   !.cleaning = IF res = "ok" THEN Tail(@) ELSE <<>>,
                   !.cleaned = Append(@, [of |-> Len(r.deferred) + 1, name |-> n, res |-> res])]

\* runActionFromName and dispatchAction up to the runner.
Dispatch(c, r) ==
  LET n == Current(r)
      a == plugin.actions[n]
  IN  IF n \notin Names THEN Ended(r, "notFound")
      ELSE IF a.kind = "http" /\ mix[c].service \notin web THEN Ended(r, "failed")
      ELSE IF ~HasRunner(n) THEN Ended(r, "invalid")
      ELSE IF a.kind = "http" /\ a.uris = 0 THEN Ended(r, "invalid")
      ELSE [r EXCEPT !.pc = "act", !.uri = 1]

\* The loop over the workflow's actions.
NextAction(c) ==
  /\ call[c].pc = "next"
  /\ LET r == call[c]
         p == ActionPhase(Head(r.todo))
         t == TargetPhase(c)
     IN  call' = [call EXCEPT ![c] =
           IF r.todo = <<>> THEN Leave(r, "report")
           ELSE IF t # Undefined /\ p < t THEN [r EXCEPT !.todo = Tail(@)]
           ELSE IF t # Undefined /\ p > t THEN Leave(r, "nil")
           ELSE Dispatch(c, r)]
  /\ UNCHANGED <<setting, state, scanDone, planted, interactions>>

\* The deferred functions run last to first, each through its own cleanups;
\* what a cleanup action names as cleanups of its own is not looked at.
Unwind(c) ==
  /\ call[c].pc = "unwind"
  /\ LET r == call[c] IN call' = [call EXCEPT ![c] =
       IF r.cleaning # <<>> THEN Dispatch(c, r)
       ELSE IF r.deferred # <<>>
         THEN [r EXCEPT !.cleaning = Last(r.deferred), !.deferred = Front(@)]
       ELSE [r EXCEPT !.pc = "returned"]]
  /\ UNCHANGED <<setting, state, scanDone, planted, interactions>>

-----------------------------------------------------------------------------
(* The runners.                                                            *)

Acting(c, kind) ==
  /\ call[c].pc = "act"
  /\ plugin.actions[Current(call[c])].kind = kind

\* Each environment has a secret of its own.
Secret_Shared(c) == CHOOSE d \in Calls : TRUE
Secret(c) == c

\* After a URI that failed the next one is tried; an error that is not a failed
\* action is returned at once.
TryURI_Again(r, res) ==
  IF res = "failed" /\ r.uri < plugin.actions[Current(r)].uris THEN r ELSE Ended(r, res)

TryURI(r, res) ==
  IF res = "failed" /\ r.uri < plugin.actions[Current(r)].uris
    THEN [r EXCEPT !.uri = @ + 1]
    ELSE Ended(r, res)

\* runWithURI: the client fails when the context is done, and may fail
\* otherwise, which a lenient action takes for success; an answer matches or
\* not.  A request that carries the callback address may reach a vulnerable
\* service also when its answer does not match or is lost.
RunHTTP(c) ==
  /\ Acting(c, "http")
  /\ LET r == call[c]
         a == plugin.actions[Current(r)]
     IN  \E res \in (IF a.broken THEN {"invalid"} ELSE {}) \union
                    (IF scanDone THEN {"clientError"} ELSE {"ok", "failed", "clientError"}) :
           /\ call' = [call EXCEPT ![c] =
                TryURI(r, IF res # "clientError" THEN res
                          ELSE IF a.lenient THEN "ok" ELSE "failed")]
           /\ \/ UNCHANGED planted
              \/ /\ a.plants /\ enabled /\ ~scanDone
                 /\ mix[c].service \in vulnerable
                 /\ planted' = planted \union {Secret(c)}
  /\ UNCHANGED <<setting, state, scanDone, interactions>>

\* Sleeping does not look at the context.
RunUtility(c) ==
  /\ Acting(c, "sleep")
  /\ call' = [call EXCEPT ![c] =
       Ended(@, IF plugin.actions[Current(@)].broken THEN "invalid" ELSE "ok")]
  /\ UNCHANGED <<setting, state, scanDone, planted, interactions>>

\* The poll may fail, or a status other than the server's may deny what it has
\* recorded (see CallbackServer); an interaction that has not arrived yet is none.
RunCallback(c) ==
  /\ Acting(c, "callback")
  /\ LET a == plugin.actions[Current(call[c])] IN
     \E res \in IF ~enabled THEN {"failed"}
                ELSE IF a.broken THEN {"invalid"}
                ELSE IF ~scanDone /\ Secret(c) \in interactions THEN {"ok", "failed"}
                ELSE {"failed"} :
       call' = [call EXCEPT ![c] = Ended(@, res)]
  /\ UNCHANGED <<setting, state, scanDone, planted, interactions>>

\* A vulnerable service calls back, at some time after it was sent the address.
CallBack(s) ==
  /\ s \in planted
  /\ s \notin interactions
  /\ interactions' = interactions \union {s}
  /\ UNCHANGED <<setting, state, scanDone, call, planted>>

\* The scan is cancelled.
CancelScan ==
  /\ state = "loaded"
  /\ ~scanDone
  /\ scanDone' = TRUE
  /\ UNCHANGED <<setting, state, call, planted, interactions>>

\* No call is under way and none starts.
EngineTerminated ==
  /\ state # "new"
  /\ \A c \in Calls : call[c].pc \in {"idle", "returned"}
  /\ UNCHANGED engineVars

Step(c) ==
  \/ NextAction(c)
  \/ RunHTTP(c)
  \/ RunUtility(c)
  \/ RunCallback(c)
  \/ Unwind(c)

EngineNext ==
  \/ New
  \/ \E c \in Calls : Begin(c) \/ Step(c)
  \/ \E s \in planted : CallBack(s)
  \/ CancelScan
  \/ EngineTerminated

EngineSpec == EngineInit /\ [][EngineNext]_engineVars

\* A call goes on: requests have timeouts and sleeps end.
EngineFairSpec == EngineSpec /\ \A c \in Calls : WF_engineVars(Step(c))

-----------------------------------------------------------------------------
Workflow(c) == plugin.workflows[call[c].workflow]

Returned(c) == call[c].pc = "returned"

\* The part of a sequence that has n elements from the given index on.
Part(first, n) == first .. first + n - 1

\* A call that ends well has run every action of its phase, in order, and no
\* other: they are a part of the workflow, and leaving at the first action of a
\* higher phase skips nothing, because validation has refused workflows in which
\* phases decrease.
PhaseComplete ==
  \A c \in Calls : Returned(c) /\ call[c].outcome \in {"report", "nil"} =>
    LET acts == Workflow(c).acts
        ran  == call[c].ran
    IN  \E first \in 1 .. Len(acts) + 1 :
          /\ {i \in DOMAIN acts : InPhase(c, acts[i])} = Part(first, Len(ran))
          /\ \A j \in DOMAIN ran : ran[j] = acts[first + j - 1]

\* Cleanups are run for the actions that succeeded, and for no other, latest
\* action first; each list once, in its order, up to its first failure, which is
\* never that the plugin has no such action: that would only be logged.
CleanupsExact ==
  \A c \in Calls :
    LET r == call[c] IN
    /\ \A i, j \in DOMAIN r.cleaned : i < j => r.cleaned[i].of >= r.cleaned[j].of
    /\ \A i \in DOMAIN r.cleaned : r.cleaned[i].of \in DOMAIN r.ran /\ r.cleaned[i].res # "notFound"
    /\ Returned(c) =>
         \A k \in DOMAIN r.ran :
           LET want == plugin.actions[r.ran[k]].cleanups IN
           \E first \in 1 .. Len(r.cleaned) + 1, n \in 0 .. Len(want) :
             /\ {i \in DOMAIN r.cleaned : r.cleaned[i].of = k} = Part(first, n)
             /\ \A i \in 1 .. n : r.cleaned[first + i - 1].name = want[i]
             /\ \A i \in 1 .. n - 1 : r.cleaned[first + i - 1].res = "ok"
             /\ n < Len(want) => n > 0 /\ r.cleaned[first + n - 1].res # "ok"

\* The workflow that ran is the one the plugin asks for, with its cleanups.
WorkflowExact == PhaseComplete /\ CleanupsExact

\* A finding that rests on an interaction is about a service that called back:
\* calls in parallel on other services do not confirm each other.
CallbackAttributed ==
  \A c \in Calls : Returned(c) /\ Verdict(c) = "yes" =>
    \A n \in Range(call[c].ran) :
      plugin.actions[n].kind = "callback" => mix[c].service \in vulnerable

\* Each call returns: tries of URIs, cleanups that fail and cancellation all
\* lead on.
CallsReturn == \A c \in Calls : (call[c].pc # "idle") ~> Returned(c)
=============================================================================
