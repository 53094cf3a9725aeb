------------------------------ MODULE Registry ------------------------------
(***************************************************************************)
(* The registry of modules (src/core/module/registry.go): packages         *)
(* register their modules at initialisation, and the workflow              *)
(* configuration selects from them with patterns.  A pattern stands for    *)
(* the names that the expression "^" + pattern + "$" matches; one that     *)
(* does not compile is not in the domain of Accepts.                       *)
(***************************************************************************)
EXTENDS Config

CONSTANTS
    Registrations,  \* [kind -> sequence of names], in the order of the packages
    Accepts         \* [pattern -> the names it matches]

Kinds == {"portscanner", "fingerprinter", "detector"}

\* RegisterX panics when a name comes twice, before main runs.
RegisterModule(names, name) == IF Contains(names, name) THEN Failed(names) ELSE Ok(Append(names, name))
ASSUME RegistrationAssumption ==
    \A kind \in Kinds : \A i \in DOMAIN Registrations[kind] :
        RegisterModule(SubSeq(Registrations[kind], 1, i - 1), Registrations[kind][i]).ok
Names(kind) == Registrations[kind]

\* Modules that two patterns match are selected twice.
Require_Again(names, selected, pattern) ==
    selected \o SelectSeq(names, LAMBDA n : n \in Accepts[pattern])
\* One require pattern: the matching modules that are not selected yet, in the
\* order of registration.
Require(names, selected, pattern) ==
    selected \o SelectSeq(names, LAMBDA n : n \in Accepts[pattern] /\ ~Contains(selected, n))
Expands(names, pattern) == \E i \in DOMAIN names : names[i] \in Accepts[pattern]

ResolveModules(names, require, ignore) ==
    IF \/ ~(ToSet(ignore) \cup ToSet(require) \subseteq DOMAIN Accepts)
       \/ \E i \in DOMAIN require : ~Expands(names, require[i])
    THEN Failed(<<>>)
    ELSE Ok(SelectSeq(FoldLeft(LAMBDA acc, p : Require(names, acc, p), <<>>, require),
                      LAMBDA n : \A i \in DOMAIN ignore : n \notin Accepts[ignore[i]]))

\* The modules of a list are initialised in turn; the first failure is
\* returned.  "failing" are the modules whose initialisation would fail.
Initialized(r, failing) ==
    IF r.ok /\ ToSet(r.value) \cap failing = {} THEN r ELSE Failed(<<>>)

GetPortScanner(cfg, failing) ==
    LET name == Get(cfg, <<"workflowcfg", "portscan">>)
    IN  IF name # <<>> /\ Contains(Names("portscanner"), name[1])
        THEN Initialized(Ok(<<name[1]>>), failing) ELSE Failed(<<>>)

\* A workflow without the filter message selects no module.
Filtered(cfg, kind, filter, failing) ==
    IF ~Has(cfg, filter) THEN Ok(<<>>)
    ELSE Initialized(ResolveModules(Names(kind), Get(cfg, Append(filter, "require")),
                                    Get(cfg, Append(filter, "ignore"))), failing)
GetFingerprinters(cfg, failing) ==
    Filtered(cfg, "fingerprinter", <<"workflowcfg", "fingerprinters">>, failing)
GetDetectors(cfg, failing) ==
    Filtered(cfg, "detector", <<"workflowcfg", "detectors">>, failing)
AllDetectors(failing) == Initialized(Ok(Names("detector")), failing)
=============================================================================
