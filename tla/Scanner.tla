------------------------------- MODULE Scanner -------------------------------
(***************************************************************************)
(* The program: main.run, entrypoint.New and the metrics of one scan       *)
(* (src/main.go, src/core/entrypoint, src/core/runner/simplerunner).  The  *)
(* modules themselves are reduced to invocations that succeed or fail and  *)
(* send requests; a detector may leave a goroutine behind (a tool call of  *)
(* an agent that stalled) that still records when the scan is over.        *)
(***************************************************************************)
EXTENDS Registry, Metrics

CONSTANTS
    Flags,          \* the command lines; "config" is the set of the file named, if any
    HTTPClients,    \* the registered HTTP clients
    Reachable,      \* what a port scan may find
    Detaching,      \* the modules that may leave a goroutine behind
    Error           \* [module -> the error it fails with]

VARIABLES
    pc, flags, cfg,
    files,          \* [name -> "whole" or "partial"]: what the program left in the file system
    mods,           \* the modules registered with the runner
    initialized,    \* whether the callback client is
    servers,        \* the parts of the callback server that run
    work,           \* [service -> [module, stage]] in the current phase of the scan
    discovered,     \* the services of the port scan
    stray,          \* the goroutine that was left behind
    calls,          \* ghost: the recordings made of each metric
    atReturn,       \* ghost: calls when the runner returned
    result          \* what run() returns: "none" until then

scannerVars == <<pc, flags, cfg, files, mods, initialized, servers, work, discovered, stray, calls,
                 atReturn, result>>
programVars == <<scannerVars, metricsVars>>

NoModules == [portscanner |-> <<>>, fingerprinter |-> <<>>, detector |-> <<>>]
NoCalls == [n \in {Catalog[i].name : i \in DOMAIN Catalog} |-> 0]
ScannerInit ==
    /\ pc = "flags" /\ flags \in Flags /\ cfg = DefaultConfig /\ files = <<>>
    /\ mods = NoModules /\ initialized = FALSE /\ servers = {} /\ work = <<>> /\ discovered = {}
    /\ stray = "none" /\ calls = NoCalls /\ atReturn = NoCalls /\ result = "none"
    /\ MetricsInit

\* The deferred calls run from the last: Shutdown when the server has started,
\* Close when the directories exist; then run() returns.
Leave(r) == result' = r /\ pc' = "exit"
LeaveClosing(r) == result' = r /\ pc' = "close"

\* validateFlags.
FlagsValid ==
    /\ flags.debug \in 0 .. 3
    /\ flags.advisories \/ (flags.target /\ flags.output /\ flags.config # {})
ValidateFlags ==
    /\ pc = "flags"
    /\ IF FlagsValid
       THEN pc' = (IF flags.advisories THEN "advisories" ELSE "config") /\ UNCHANGED result
       ELSE Leave("error")
    /\ UNCHANGED <<flags, cfg, files, mods, initialized, servers, work, discovered, stray, calls,
                   atReturn, metricsVars>>

\* os.WriteFile truncates the file first: a failure may leave a part of it.
WriteFile(name, ok) ==
    IF ok THEN files' = Put(files, name, "whole")
    ELSE files' \in {files, Put(files, name, "partial")}

\* dumpAdvisories, with the default configuration and every detector.
DumpAdvisories ==
    /\ pc = "advisories"
    /\ \E failing \in SUBSET ToSet(Names("detector")), ok \in BOOLEAN :
        IF AllDetectors(failing).ok
        THEN WriteFile("advisories", ok) /\ Leave(IF ok THEN "ok" ELSE "error")
        ELSE Leave("error") /\ UNCHANGED files
    /\ UNCHANGED <<flags, cfg, mods, initialized, servers, work, discovered, stray, calls, atReturn,
                   metricsVars>>

\* FromFile and ApplyOverrides.
LoadConfig ==
    /\ pc = "config"
    /\ \/ /\ \E file \in flags.config :
                LET r == ApplyOverrides(file, flags.overrides)
                IN  /\ cfg' = r.value
                    /\ IF r.ok THEN pc' = "directories" /\ UNCHANGED result ELSE Leave("error")
       \/ Leave("error") /\ UNCHANGED cfg
    /\ UNCHANGED <<flags, files, mods, initialized, servers, work, discovered, stray, calls, atReturn,
                   metricsVars>>

\* CreateDirectories: when the second or third cannot be created, run() leaves
\* before Close is deferred.
Directories == <<"tempfiles", "artifacts", "cache">>
CreateDirectories ==
    /\ pc = "directories"
    /\ \E n \in 0 .. 3 :
        /\ files' = [d \in ToSet(SubSeq(Directories, 1, n)) |-> "whole"]
        /\ IF n = 3 THEN pc' = "entrypoint" /\ UNCHANGED result ELSE Leave("error")
    /\ UNCHANGED <<flags, cfg, mods, initialized, servers, work, discovered, stray, calls, atReturn,
                   metricsVars>>

\* entrypoint.New: the recorder, the HTTP client (which panics), the modules in
\* turn and the callback client.  What is registered before a failure stays.
HTTPClientKnown == Get(cfg, <<"globalcfg", "http_client">>) \in {<<c>> : c \in HTTPClients}
NewEntrypoint ==
    /\ pc = "entrypoint"
    /\ IF flags.metrics THEN SetRecorder ELSE UNCHANGED metricsVars
    /\ \E failing \in SUBSET UNION {ToSet(Names(kind)) : kind \in Kinds}, ok \in BOOLEAN :
        LET ps == GetPortScanner(cfg, failing)
            fps == GetFingerprinters(cfg, failing)
            dts == GetDetectors(cfg, failing)
            got(r, after) == IF r.ok /\ after THEN r.value ELSE <<>>
            all == ps.ok /\ fps.ok /\ dts.ok
        IN  IF ~HTTPClientKnown
            THEN LeaveClosing("panic") /\ UNCHANGED <<mods, initialized>>
            ELSE /\ mods' = [portscanner |-> got(ps, TRUE), fingerprinter |-> got(fps, ps.ok),
                             detector |-> got(dts, ps.ok /\ fps.ok)]
                 /\ initialized' = (all /\ ok)
                 /\ IF all /\ ok THEN pc' = "servers" /\ UNCHANGED result ELSE LeaveClosing("error")
    /\ UNCHANGED <<flags, cfg, files, servers, work, discovered, stray, calls, atReturn>>

\* startCallbackServer: what has started before a failure is not shut down.
ServerParts == <<"polling", "http", "dns">>
StartCallbackServer ==
    /\ pc = "servers"
    /\ \E n \in 0 .. 3 :
        /\ servers' = ToSet(SubSeq(ServerParts, 1, n))
        /\ IF n = 3 THEN pc' = "portscan" /\ UNCHANGED result ELSE LeaveClosing("error")
    /\ UNCHANGED <<flags, cfg, files, mods, initialized, work, discovered, stray, calls, atReturn,
                   metricsVars>>
-----------------------------------------------------------------------------
Count(name) == calls' = [calls EXCEPT ![name] = @ + 1]
ModuleLabel(m) == [key |-> "module", value |-> m]
ErrorLabel(m) == [key |-> "error_class", value |-> ClassifyError(Error[m])]
Elapsed == 1

\* The runner returned: the metrics are written whether it failed or not.
Return(r) == result' = r /\ pc' = "metrics" /\ atReturn' = calls

\* PortScanStep, with recordModuleRun.
PortScan ==
    /\ pc = "portscan"
    /\ LET m == mods.portscanner[1]
       IN  Observe("module/duration", Elapsed, <<ModuleLabel(m)>>)
    /\ Count("module/duration")
    /\ \E failed \in BOOLEAN, s \in SUBSET Reachable :
        /\ failed => s = {}
        /\ discovered' = s
        /\ pc' = IF failed THEN "portscan failed" ELSE "services"
    /\ UNCHANGED <<flags, cfg, files, mods, initialized, servers, work, stray, atReturn, result>>
PortScanFailed ==
    /\ pc = "portscan failed"
    /\ LET m == mods.portscanner[1]
       IN  Add("module/errors", 1, <<ErrorLabel(m), ModuleLabel(m)>>)
    /\ LET now == [calls EXCEPT !["module/errors"] = @ + 1]
       IN  calls' = now /\ atReturn' = now
    /\ result' = "error" /\ pc' = "metrics"
    /\ UNCHANGED <<flags, cfg, files, mods, initialized, servers, work, discovered, stray>>
ServicesDiscovered ==
    /\ pc = "services"
    /\ Add("services/discovered", Cardinality(discovered), <<>>) /\ Count("services/discovered")
    /\ pc' = "fingerprint" /\ work' = [s \in discovered |-> [module |-> 1, stage |-> "running"]]
    /\ UNCHANGED <<flags, cfg, files, mods, initialized, servers, discovered, stray, atReturn, result>>

Kind == IF pc = "fingerprint" THEN "fingerprinter" ELSE "detector"
Stage(s, stage) ==
    /\ pc \in {"fingerprint", "detect"} /\ work[s].module <= Len(mods[Kind])
    /\ work[s].stage \in stage
Module(s) == mods[Kind][work[s].module]
GoTo(s, stage) == work' = [work EXCEPT ![s].stage = stage]
NextModule(s) == work' = [work EXCEPT ![s] = [module |-> @.module + 1, stage |-> "running"]]
workSame == UNCHANGED <<pc, flags, cfg, files, mods, initialized, servers, discovered, atReturn, result>>

\* The requests of a module, recorded by metricsClient.Do when they have ended.
Request(s) ==
    /\ Stage(s, {"running"}) /\ GoTo(s, "requested")
    /\ Add("http/requests", 1, <<>>) /\ Count("http/requests")
    /\ workSame /\ UNCHANGED stray
RequestFailed(s) ==
    /\ Stage(s, {"requested"}) /\ GoTo(s, "asked")
    /\ Add("http/requests/error", 1, <<ErrorLabel(Module(s))>>) /\ Count("http/requests/error")
    /\ workSame /\ UNCHANGED stray

\* recordModuleRun: the duration first, then the error, in two recordings.
ModuleEnds(s) ==
    /\ Stage(s, {"running", "requested", "asked"})
    /\ \E stage \in {"ok", "failed"} : GoTo(s, stage)
    /\ Observe("module/duration", Elapsed, <<ModuleLabel(Module(s))>>) /\ Count("module/duration")
    /\ stray' \in IF stray = "none" /\ Module(s) \in Detaching THEN {"none", "running"} ELSE {stray}
    /\ workSame
ModuleFailed(s) ==
    /\ Stage(s, {"failed"}) /\ NextModule(s)
    /\ Add("module/errors", 1, <<ModuleLabel(Module(s)), ErrorLabel(Module(s))>>)
    /\ Count("module/errors")
    /\ workSame /\ UNCHANGED stray
\* A detector's finding, if it has one.
ModuleDone(s) ==
    /\ Stage(s, {"ok"}) /\ NextModule(s)
    /\ \/ UNCHANGED <<calls, metricsVars>>
       \/ /\ Kind = "detector"
          /\ Add("findings", 1, <<ModuleLabel(Module(s))>>) /\ Count("findings")
    /\ workSame /\ UNCHANGED stray

\* runConcurrent waits for every service.
PhaseOver == \A s \in discovered : work[s].module > Len(mods[Kind])
FingerprintsDone ==
    /\ pc = "fingerprint" /\ PhaseOver
    /\ pc' = "detect" /\ work' = [s \in discovered |-> [module |-> 1, stage |-> "running"]]
    /\ UNCHANGED <<flags, cfg, files, mods, initialized, servers, discovered, stray, calls, atReturn,
                   result, metricsVars>>
DetectionsDone ==
    /\ pc = "detect" /\ PhaseOver
    /\ Observe("scan/duration", Elapsed, <<>>)
    /\ LET now == [calls EXCEPT !["scan/duration"] = @ + 1]
       IN  calls' = now /\ atReturn' = now
    /\ result' = "ok" /\ pc' = "metrics"
    /\ UNCHANGED <<flags, cfg, files, mods, initialized, servers, work, discovered, stray>>

\* The goroutine left behind makes one request more.
StrayRequest ==
    /\ stray = "running" /\ pc # "exit" /\ stray' = "requested"
    /\ Add("http/requests", 1, <<>>) /\ Count("http/requests")
    /\ UNCHANGED <<pc, flags, cfg, files, mods, initialized, servers, work, discovered, atReturn, result>>
StrayFailed ==
    /\ stray = "requested" /\ pc # "exit" /\ stray' = "gone"
    /\ \E m \in Detaching : Add("http/requests/error", 1, <<ErrorLabel(m)>>)
    /\ Count("http/requests/error")
    /\ UNCHANGED <<pc, flags, cfg, files, mods, initialized, servers, work, discovered, atReturn, result>>
-----------------------------------------------------------------------------
\* Metrics only of a scan that succeeded.
MetricsDone_OnError == ~flags.metrics \/ result = "error"
\* writeMetrics: a failure is only logged.
MetricsDone == ~flags.metrics
WriteMetrics ==
    /\ pc = "metrics"
    /\ IF MetricsDone THEN pc' = "results" /\ UNCHANGED <<files, metricsVars>>
       ELSE \/ Exporting /\ UNCHANGED <<pc, files>>
            \/ /\ export.state = "done" /\ pc' = "results" /\ UNCHANGED metricsVars
               /\ \E ok \in BOOLEAN : WriteFile("metrics", ok)
    /\ UNCHANGED <<flags, cfg, mods, initialized, servers, work, discovered, stray, calls, atReturn, result>>

\* The results of a scan that succeeded; then Shutdown is the first deferred call.
WriteResults ==
    /\ pc = "results" /\ pc' = "close" /\ servers' = {}
    /\ IF result = "error" THEN UNCHANGED <<files, result>>
       ELSE \E ok \in BOOLEAN :
                WriteFile("results", ok) /\ result' = IF ok THEN "ok" ELSE "error"
    /\ UNCHANGED <<flags, cfg, mods, initialized, work, discovered, stray, calls, atReturn, metricsVars>>

\* cfg.Close.
Close ==
    /\ pc = "close" /\ pc' = "exit"
    /\ files' = [f \in DOMAIN files \ {"tempfiles"} |-> files[f]]
    /\ UNCHANGED <<flags, cfg, mods, initialized, servers, work, discovered, stray, calls, atReturn,
                   result, metricsVars>>

Scan == PortScan \/ PortScanFailed \/ ServicesDiscovered \/ FingerprintsDone \/ DetectionsDone
        \/ \E s \in discovered : \/ Request(s) \/ RequestFailed(s) \/ ModuleEnds(s)
                            \/ ModuleFailed(s) \/ ModuleDone(s)
ScannerNext == \/ ValidateFlags \/ DumpAdvisories \/ LoadConfig \/ CreateDirectories \/ NewEntrypoint
        \/ StartCallbackServer \/ Scan \/ WriteMetrics \/ WriteResults \/ Close
        \/ StrayRequest \/ StrayFailed
ScannerSpec == ScannerInit /\ [][ScannerNext]_programVars
-----------------------------------------------------------------------------
Scanning == pc \in {"portscan", "services", "fingerprint", "detect", "metrics", "results"}

\* What an override or else the file says of a field; a filter that either mentions.
Effective(path) ==
    LET set == {i \in DOMAIN flags.overrides : Resolve(flags.overrides[i].key) = path}
    IN  IF set # {} THEN flags.overrides[Max(set)].parts
        ELSE Get(CHOOSE file \in flags.config : TRUE, path)
Wanted(filter) ==
    LET require == Effective(Append(filter, "require")) ignore == Effective(Append(filter, "ignore"))
        by(n) == {i \in DOMAIN require : n \in Accepts[require[i]]}
    IN  [names |-> {n \in UNION {ToSet(Names(kind)) : kind \in Kinds} :
                        by(n) # {} /\ \A i \in DOMAIN ignore : n \notin Accepts[ignore[i]]},
         first |-> [n \in UNION {ToSet(Names(kind)) : kind \in Kinds} |->
                        IF by(n) = {} THEN 0 ELSE Min(by(n))]]
SelectedExactly(kind, filter) ==
    LET list == mods[kind] w == Wanted(filter)
        at(n) == CHOOSE i \in DOMAIN Names(kind) : Names(kind)[i] = n
    IN  /\ ToSet(list) = w.names \cap ToSet(Names(kind))
        /\ \A i, j \in DOMAIN list : i < j =>
                \/ w.first[list[i]] < w.first[list[j]]
                \/ w.first[list[i]] = w.first[list[j]] /\ at(list[i]) < at(list[j])

\* A scan runs the modules that the last word on each filter, be it the file's
\* or an override's, requires and does not ignore: each of them once, in the
\* order of the patterns and then of registration (setField, resolveModules).
SelectionExact ==
    Scanning =>
        /\ mods.portscanner = <<Effective(<<"workflowcfg", "portscan">>)[1]>>
        /\ SelectedExactly("fingerprinter", <<"workflowcfg", "fingerprinters">>)
        /\ SelectedExactly("detector", <<"workflowcfg", "detectors">>)

\* However run() ends: whole results exactly when it reports success, metrics
\* of every scan that ran, no temporary files unless a directory could not be
\* created, no server unless another part of it did not start.
ExitClean ==
    pc = "exit" =>
        /\ result = "ok" <=> At(files, IF flags.advisories THEN "advisories" ELSE "results", "") = "whole"
        /\ atReturn # NoCalls /\ flags.metrics => export.state = "done"
        /\ "tempfiles" \in DOMAIN files => "cache" \notin DOMAIN files
        /\ servers # {} => servers # ToSet(ServerParts)

Exported(name) == {k \in DOMAIN export.series : k.metric = name}
Total(name) ==
    MapThenSumSet(LAMBDA k : IF Metric(name).kind = "counter" THEN export.series[k]
                             ELSE export.series[k].count, Exported(name))
OfModule(name, m) ==
    MapThenSumSet(LAMBDA k : IF k.labels["module"] # m THEN 0
                             ELSE IF Metric(name).kind = "counter" THEN export.series[k]
                             ELSE export.series[k].count, Exported(name))
Late == IF stray = "none" THEN 0 ELSE 1

\* An export accounts for every recording made until the runner returned: it
\* is in a series or among the dropped ones; of those made while it is written
\* a part may be missing.  A module has no more errors than invocations
\* (recordModuleRun), unless the cap is reported for the invocations, and the
\* requests that failed exceed the requests by late ones at most.
ExportExact ==
    export.state = "done" =>
        /\ \A name \in DOMAIN calls \ {"services/discovered"} :
            Total(name) + At(export.dropped, name, 0) \in atReturn[name] .. calls[name]
        /\ Total("services/discovered") = Cardinality(discovered)
        /\ \A m \in ToSet(mods.fingerprinter) \cup ToSet(mods.detector) :
            \/ OfModule("module/errors", m) <= OfModule("module/duration", m)
            \/ At(export.dropped, "module/duration", 0) > 0
        /\ Total("http/requests/error") <= Total("http/requests") + Late
=============================================================================
