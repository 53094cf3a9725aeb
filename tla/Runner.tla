-------------------------------- MODULE Runner --------------------------------
(***************************************************************************)
(* SimpleRunner (core/runner/simplerunner): modules are registered, then   *)
(* Run scans the ports of a target, sends every service it found through   *)
(* the chain of fingerprinters and every resulting service through all     *)
(* detectors.  Both stages use runConcurrent: an errgroup of bounded size, *)
(* one goroutine per service, results appended under a mutex.              *)
(*                                                                         *)
(* A service is a sequence: <<n>> is the n-th service of the port scan,    *)
(* and a fingerprinter that splits s returns Append(s, 1), Append(s, 2).   *)
(***************************************************************************)
EXTENDS Integers, Sequences, FiniteSets, Functions

CONSTANTS
  MaxServices,        \* bound: services the port scanner may find
  MaxModules,         \* bound: fingerprinters and detectors registered
  MaxSplit,           \* bound: services a fingerprinter may return for one
  Concurrency,        \* GlobalConfig.performance.max_concurrency
  MaxRuns             \* bound: calls of Run on the same runner

ASSUME RunnerAssumption ==
  /\ MaxServices \in Nat
  /\ MaxModules \in Nat
  /\ MaxSplit \in Nat
  /\ Concurrency \in Int
  /\ MaxRuns \in Nat

VARIABLES
  portScanner,     \* whether a port scanner is registered
  fingerprinters,  \* how many fingerprinters are registered
  detectors,       \* how many detectors are registered
  degraded,        \* SimpleRunner.degraded
  runs,            \* how often Run has been called
  phase,           \* "setup", "portscan", "fingerprint", "detect", "returned"
  step,            \* runConcurrent's loop: "check", "go"
  stage,           \* the stage the goroutines in tasks belong to
  ctxDone,         \* the context of the current Run is done
  groupErr,        \* the current errgroup holds an error
  input,           \* the services given to runConcurrent
  tasks,           \* the goroutines it has started
  results,         \* what they have appended
  found,           \* the services of the port scan
  ret,             \* what Run returned
  stale,           \* module calls still in flight from earlier Runs
  failed,          \* history: a module call of this Run returned an error
  dropped,         \* history: services a fingerprinter gave up or removed
  detected,        \* history: <<detector, service>> of the Detect calls
  reported         \* history: the reports Detect calls returned

setupVars == <<portScanner, fingerprinters, detectors>>
history   == <<failed, dropped, detected, reported>>
callVars  == <<runs, phase, step, stage, found, ret, stale>>
vars      == <<setupVars, degraded, callVars, ctxDone, groupErr, input, tasks,
               results, history>>

NoResult == [kind |-> "none", status |-> "none", services |-> <<>>,
             findings |-> {}, alive |-> FALSE]

Init ==
  /\ portScanner = FALSE
  /\ fingerprinters = 0
  /\ detectors = 0
  /\ degraded = FALSE
  /\ runs = 0
  /\ phase = "setup"
  /\ step = "check"
  /\ stage = "fingerprint"
  /\ ctxDone = FALSE
  /\ groupErr = FALSE
  /\ input = <<>>
  /\ tasks = <<>>
  /\ results = <<>>
  /\ found = <<>>
  /\ ret = NoResult
  /\ stale = 0
  /\ failed = FALSE
  /\ dropped = {}
  /\ detected = {}
  /\ reported = {}

-----------------------------------------------------------------------------
(* Registration.  A nil module, and a second port scanner, are refused     *)
(* with an error and change nothing.                                       *)

RegisterPortScanner ==
  /\ phase = "setup"
  /\ ~portScanner
  /\ portScanner' = TRUE
  /\ UNCHANGED <<fingerprinters, detectors>>

RegisterFingerprinter ==
  /\ phase = "setup"
  /\ fingerprinters + detectors < MaxModules
  /\ fingerprinters' = fingerprinters + 1
  /\ UNCHANGED <<portScanner, detectors>>

RegisterDetector ==
  /\ phase = "setup"
  /\ fingerprinters + detectors < MaxModules
  /\ detectors' = detectors + 1
  /\ UNCHANGED <<portScanner, fingerprinters>>

Register ==
  /\ RegisterPortScanner \/ RegisterFingerprinter \/ RegisterDetector
  /\ UNCHANGED <<degraded, callVars, ctxDone, groupErr, input, tasks, results,
                 history>>

-----------------------------------------------------------------------------
(* Run.                                                                    *)

ReturnError ==
  /\ phase' = "returned"
  /\ ret' = [NoResult EXCEPT !.kind = "error"]

InFlight(ts) == Cardinality({k \in 1 .. Len(ts) : ts[k].pc = "call"})

\* Run starts, perhaps again on a runner whose last Run left goroutines behind.
StartRun ==
  /\ phase \in {"setup", "returned"}
  /\ runs < MaxRuns
  /\ runs' = runs + 1
  /\ phase' = "portscan"
  /\ stale' = stale + InFlight(tasks)
  /\ degraded' = FALSE
  /\ ret' = NoResult
  /\ ctxDone' = FALSE
  /\ groupErr' = FALSE
  /\ input' = <<>> /\ tasks' = <<>> /\ results' = <<>> /\ found' = <<>>
  /\ step' = "check" /\ stage' = "fingerprint"
  /\ failed' = FALSE /\ dropped' = {} /\ detected' = {} /\ reported' = {}
  /\ UNCHANGED setupVars

\* The stage begins: runConcurrent over services, or the stage's shortcut when
\* no module is registered for it.
EnterFingerprint(services) ==
  IF fingerprinters = 0
    THEN results' = services /\ input' = <<>>
    ELSE results' = <<>> /\ input' = services

EnterDetect(services) ==
  /\ results' = <<>>
  /\ input' = IF detectors = 0 THEN <<>> ELSE services

\* PortScanStep: no scanner, a failure, or a list of services (none when the
\* host is down).
PortScanStep ==
  /\ phase = "portscan"
  /\ \/ /\ ReturnError
        /\ UNCHANGED <<stage, found, input, results>>
     \/ /\ portScanner
        /\ \E n \in 0 .. MaxServices :
              LET services == [k \in 1 .. n |-> <<k>>]
              IN  found' = services /\ EnterFingerprint(services)
        /\ phase' = "fingerprint"
        /\ stage' = "fingerprint"
        /\ UNCHANGED ret
  /\ UNCHANGED <<setupVars, degraded, runs, step, stale, ctxDone, groupErr,
                 tasks, history>>

-----------------------------------------------------------------------------
(* runConcurrent, on the goroutine of Run.                                 *)

grpctxDone == ctxDone \/ groupErr

Active == {k \in 1 .. Len(tasks) : tasks[k].pc # "exited"}

\* group.Go blocks while the limit is reached; a negative limit is none, and
\* a limit of zero never lets a goroutine start.
SlotFree == Concurrency < 0 \/ Cardinality(Active) < Concurrency

NewTask(s) == [svc |-> s, mod |-> 1, todo |-> <<s>>, acc |-> <<>>, pc |-> "check"]

Running == phase \in {"fingerprint", "detect"}

\* The check of grpctx before a service: an early return that does not wait
\* for the goroutines already started.
LoopCheck ==
  /\ Running
  /\ step = "check"
  /\ Len(tasks) < Len(input)
  /\ IF grpctxDone THEN ReturnError /\ UNCHANGED step
                   ELSE step' = "go" /\ UNCHANGED <<phase, ret>>
  /\ UNCHANGED <<setupVars, degraded, runs, stage, found, stale, ctxDone,
                 groupErr, input, tasks, results, history>>

LoopGo ==
  /\ Running
  /\ step = "go"
  /\ SlotFree
  /\ tasks' = Append(tasks, NewTask(input[Len(tasks) + 1]))
  /\ step' = "check"
  /\ UNCHANGED <<setupVars, degraded, runs, phase, stage, found, ret, stale,
                 ctxDone, groupErr, input, results, history>>

GroupDone ==
  /\ Running
  /\ step = "check"
  /\ Len(tasks) = Len(input)
  /\ Active = {}

\* group.Wait() at the end of the fingerprinting stage.
FingerprintStep ==
  /\ phase = "fingerprint"
  /\ GroupDone
  /\ IF groupErr
       THEN ReturnError /\ UNCHANGED <<stage, input, results, tasks>>
       ELSE /\ phase' = "detect"
            /\ stage' = "detect"
            /\ EnterDetect(results)
            /\ tasks' = <<>>
            /\ ret' = [ret EXCEPT !.services = results]
  /\ UNCHANGED <<setupVars, degraded, runs, step, found, stale, ctxDone,
                 groupErr, history>>

\* group.Wait() at the end of the detection stage, and the scan results: a
\* finding for each report that says present or verified, and the status.
DetectStep ==
  /\ phase = "detect"
  /\ GroupDone
  /\ IF groupErr
       THEN ReturnError
       ELSE /\ phase' = "returned"
            /\ ret' = [kind     |-> "ok",
                       status   |-> IF degraded THEN "partial" ELSE "succeeded",
                       services |-> ret.services,
                       findings |-> {r \in Range(results) : r.good},
                       alive    |-> Len(found) > 0]
  /\ UNCHANGED <<setupVars, degraded, runs, step, stage, found, stale, ctxDone,
                 groupErr, input, tasks, results, history>>

-----------------------------------------------------------------------------
(* The goroutine for one service: fingerprintService or detectService.     *)

NumModules == IF stage = "fingerprint" THEN fingerprinters ELSE detectors

\* Where a goroutine that finds its context done goes: it returns the error.
Interrupted_Swallowed == "append"
Interrupted_Retried == "check"
Interrupted == "fail"

\* A module has seen every service of this goroutine: a fingerprinter hands
\* on what it accumulated, the next detector sees the same service again.
Advance_Reset(t) ==
  IF t.todo # <<>> THEN t
  ELSE IF stage = "fingerprint"
         THEN [t EXCEPT !.mod = @ + 1, !.todo = t.acc, !.acc = <<>>]
         ELSE [t EXCEPT !.mod = @ + 1, !.todo = <<t.svc>>, !.acc = <<>>]

Advance(t) ==
  IF t.todo # <<>> THEN t
  ELSE IF stage = "fingerprint"
         THEN [t EXCEPT !.mod = @ + 1, !.todo = t.acc, !.acc = <<>>]
         ELSE [t EXCEPT !.mod = @ + 1, !.todo = <<t.svc>>]

\* What the goroutine returns once all modules are done.
Output(t) == IF stage = "fingerprint" THEN t.todo ELSE t.acc

SetTask(k, t) == tasks' = [tasks EXCEPT ![k] = t]

\* The ctx.Err() before a module call; after the last module there is none.
Begin(k) ==
  LET t == tasks[k] IN
  /\ t.pc = "check"
  /\ SetTask(k, IF t.mod > NumModules THEN [t EXCEPT !.pc = "append"]
                ELSE IF grpctxDone THEN [t EXCEPT !.pc = Interrupted]
                ELSE IF t.todo = <<>> THEN Advance(t)
                ELSE [t EXCEPT !.pc = "call"])
  /\ detected' = IF stage = "detect" /\ ~grpctxDone /\ t.mod <= NumModules
                 THEN detected \cup {<<t.mod, t.svc>>} ELSE detected
  /\ UNCHANGED <<setupVars, degraded, callVars, ctxDone, groupErr, input,
                 results, failed, dropped, reported>>

Returned(t, out) ==
  Advance([t EXCEPT !.pc = "check", !.todo = Tail(@), !.acc = @ \o out])

Fail == degraded' = TRUE /\ failed' = TRUE

Split(s, n) == IF n = 1 THEN <<s>> ELSE [i \in 1 .. n |-> Append(s, i)]

\* What remains of a service whose fingerprinter failed.
KeepOnFailure(s) == <<s>>

\* fp.Fingerprint returns: a failure keeps the service, unless the service has
\* no address; success replaces it by the services returned.
Fingerprinted(k) ==
  LET t == tasks[k]
      s == Head(t.todo)
  IN  /\ stage = "fingerprint"
      /\ t.pc = "call"
      /\ \/ /\ Fail
            /\ SetTask(k, Returned(t, KeepOnFailure(s)))
            /\ UNCHANGED dropped
         \/ /\ Fail
            /\ SetTask(k, Returned(t, <<>>))
            /\ dropped' = dropped \cup {s}
         \/ /\ \E n \in 0 .. MaxSplit :
                  /\ SetTask(k, Returned(t, Split(s, n)))
                  /\ dropped' = IF n = 0 THEN dropped \cup {s} ELSE dropped
            /\ UNCHANGED <<degraded, failed>>
      /\ UNCHANGED <<setupVars, callVars, ctxDone, groupErr, input, results,
                     detected, reported>>

\* dt.Detect returns: a failure, or a list of reports (none, or one that does
\* or does not assert the vulnerability).
Detected(k) ==
  LET t == tasks[k]
      Report(g) == [svc |-> t.svc, det |-> t.mod, good |-> g]
  IN  /\ stage = "detect"
      /\ t.pc = "call"
      /\ \/ /\ Fail
            /\ SetTask(k, Returned(t, <<>>))
            /\ UNCHANGED reported
         \/ /\ \E out \in {<<>>, <<Report(TRUE)>>, <<Report(FALSE)>>} :
                  /\ SetTask(k, Returned(t, out))
                  /\ reported' = reported \cup Range(out)
            /\ UNCHANGED <<degraded, failed>>
      /\ UNCHANGED <<setupVars, callVars, ctxDone, groupErr, input, results,
                     dropped, detected>>

\* The append under the mutex, and the return of the goroutine.
AppendResults(k) ==
  LET t == tasks[k] IN
  /\ t.pc = "append"
  /\ results' = results \o Output(t)
  /\ SetTask(k, [t EXCEPT !.pc = "exited"])
  /\ UNCHANGED <<setupVars, degraded, callVars, ctxDone, groupErr, input,
                 history>>

\* The goroutine returns ctx.Err() to the group.
ReturnErr(k) ==
  LET t == tasks[k] IN
  /\ t.pc = "fail"
  /\ groupErr' = TRUE
  /\ SetTask(k, [t EXCEPT !.pc = "exited"])
  /\ UNCHANGED <<setupVars, degraded, callVars, ctxDone, input, results,
                 history>>

TaskStep(k) ==
  \/ Begin(k)
  \/ Fingerprinted(k)
  \/ Detected(k)
  \/ AppendResults(k)
  \/ ReturnErr(k)

\* A module call that an earlier Run did not wait for returns; its goroutine
\* then sees its context done.  A failure still marks the runner as degraded.
StaleReturn ==
  /\ stale > 0
  /\ stale' = stale - 1
  /\ degraded' \in {degraded, TRUE}
  /\ UNCHANGED <<setupVars, runs, phase, step, stage, found, ret, ctxDone,
                 groupErr, input, tasks, results, history>>

Cancel ==
  /\ phase \in {"portscan", "fingerprint", "detect"}
  /\ ~ctxDone
  /\ ctxDone' = TRUE
  /\ UNCHANGED <<setupVars, degraded, callVars, groupErr, input, tasks,
                 results, history>>

Terminated ==
  /\ phase = "returned"
  /\ Active = {}
  /\ stale = 0
  /\ UNCHANGED vars

Next ==
  \/ Register
  \/ StartRun
  \/ PortScanStep
  \/ LoopCheck
  \/ LoopGo
  \/ FingerprintStep
  \/ DetectStep
  \/ \E k \in 1 .. Len(tasks) : TaskStep(k)
  \/ StaleReturn
  \/ Cancel
  \/ Terminated

Spec == Init /\ [][Next]_vars

MaxTasks == MaxServices * (MaxSplit + 1)

\* Run proceeds, goroutines are scheduled and every module call returns.
Fairness ==
  /\ WF_vars(PortScanStep) /\ WF_vars(LoopCheck) /\ WF_vars(LoopGo)
  /\ WF_vars(FingerprintStep) /\ WF_vars(DetectStep)
  /\ \A k \in 1 .. MaxTasks : WF_vars(k \in 1 .. Len(tasks) /\ TaskStep(k))

FairSpec == Spec /\ Fairness

-----------------------------------------------------------------------------
Services == Seq(Nat)

Reports == [svc : Services, det : 1 .. MaxModules, good : BOOLEAN]

Outputs == IF stage = "fingerprint" THEN Services ELSE Reports

Tasks == [svc : Services,
          mod : 1 .. (1 + IF stage = "fingerprint" THEN fingerprinters ELSE detectors),
          todo : Seq(Services),
          acc : Seq(Outputs),
          pc : {"check", "call", "append", "fail", "exited"}]

TypeOK ==
  /\ portScanner \in BOOLEAN
  /\ fingerprinters \in 0 .. MaxModules
  /\ detectors \in 0 .. MaxModules
  /\ degraded \in BOOLEAN
  /\ runs \in 0 .. MaxRuns
  /\ phase \in {"setup", "portscan", "fingerprint", "detect", "returned"}
  /\ step \in {"check", "go"}
  /\ stage \in {"fingerprint", "detect"}
  /\ ctxDone \in BOOLEAN
  /\ groupErr \in BOOLEAN
  /\ input \in Seq(Services)
  /\ tasks \in Seq(Tasks)
  /\ results \in Seq(Outputs)
  /\ found \in Seq(Services)
  /\ ret.kind \in {"none", "error", "ok"}
  /\ ret.status \in {"none", "partial", "succeeded"}
  /\ ret.services \in Seq(Services)
  /\ stale \in Nat
  /\ failed \in BOOLEAN
  /\ dropped \subseteq Services
  /\ reported \subseteq Reports

\* A scan that is reported, even one whose context was cancelled on the way,
\* has shown every service in the report to every detector.
EveryServiceDetected ==
  ret.kind = "ok" =>
    \A s \in Range(ret.services), d \in 1 .. detectors : <<d, s>> \in detected

\* The findings are exactly the positive reports the detectors returned: no
\* append of concurrent goroutines or of successive detectors is lost; and a
\* scan in which some module failed, on whichever goroutine and in whichever
\* stage, does not pass for a full success.
FindingsExact ==
  ret.kind = "ok" =>
    /\ ret.findings = {r \in reported : r.good}
    /\ failed => ret.status = "partial"

\* A failing fingerprinter does not lose a service: each service of the port
\* scan reaches the report, itself or split, unless a fingerprinter removed it
\* or found it unusable; and no service is reported twice.
Descends(x, s) == Len(x) >= Len(s) /\ SubSeq(x, 1, Len(s)) = s

ServicesKept ==
  ret.kind = "ok" =>
    /\ \A s \in Range(found) :
          \E x \in Range(ret.services) \cup dropped : Descends(x, s)
    /\ Cardinality(Range(ret.services)) = Len(ret.services)

\* The services of a report are those that were found, all examined.
ServicesExact == EveryServiceDetected /\ ServicesKept

\* What the comment on SimpleRunner.degraded says it reports: that a module
\* failed to run.  (Violated when an earlier Run left module calls behind.)
PartialMeansFailed == ret.kind = "ok" /\ ret.status = "partial" => failed

\* A Run that was started returns, and then its goroutines end.
RunReturns == (phase = "portscan") ~> (phase = "returned" /\ Active = {})
=============================================================================
