------------------------------- MODULE Config -------------------------------
(***************************************************************************)
(* The configuration of the scanner (src/core/config): a tree of protobuf  *)
(* messages, and the overrides of the command line.  A field is named by   *)
(* its path, the sequence of field names from the root.  A configuration   *)
(* is the set of messages that are present and the values of the fields    *)
(* that are set; a value is the sequence of its comma-separated parts.     *)
(***************************************************************************)
EXTENDS SequencesExt

CONSTANTS
    Schema,     \* [path -> "message", "messages" (repeated), "list" or "scalar"]
    Parses(_, _) \* whether parseValue accepts a text for the field at a path

\* A call that failed: config.go and registry.go return a nil result and an error.
Failed(x) == [ok |-> FALSE, value |-> x]
Ok(x) == [ok |-> TRUE, value |-> x]

DefaultConfig == [messages |-> {}, fields |-> <<>>]

\* The short names of overrides.go.
Aliases == [fingerprintersRequire |-> <<"workflowcfg", "fingerprinters", "require">>,
            fingerprintersIgnore |-> <<"workflowcfg", "fingerprinters", "ignore">>,
            detectorsRequire |-> <<"workflowcfg", "detectors", "require">>,
            detectorsIgnore |-> <<"workflowcfg", "detectors", "ignore">>,
            portscan |-> <<"workflowcfg", "portscan">>,
            http_client |-> <<"globalcfg", "http_client">>,
            ports |-> <<"globalcfg", "ports_to_scan">>]
Resolve(key) == IF Len(key) = 1 /\ key[1] \in DOMAIN Aliases THEN Aliases[key[1]] ELSE key

Prefix(path, n) == SubSeq(path, 1, n)
\* Whether setField can go through the first n fields of a path: every one of
\* them is a message and not repeated.
Passable(path, n) ==
    \A i \in 1 .. n : Prefix(path, i) \in DOMAIN Schema /\ Schema[Prefix(path, i)] = "message"
\* The messages that processMiddleNode has created when setField gets to the
\* leaf, or to the field it cannot go through.
Created(path) == {Prefix(path, n) : n \in {i \in 1 .. Len(path) - 1 : Passable(path, i)}}

Set(fields, path, v) == [p \in DOMAIN fields \cup {path} |-> IF p = path THEN v ELSE fields[p]]

\* A list is truncated first and then filled until a part does not parse.
ListPrefix(path, parts) ==
    LET bad == {i \in DOMAIN parts : ~Parses(path, parts[i])}
    IN  IF bad = {} THEN parts ELSE SubSeq(parts, 1, Min(bad) - 1)

ProcessLeaf(fields, path, parts) ==
    CASE Schema[path] \in {"list", "messages"} ->
            LET kept == ListPrefix(path, parts)
            IN  [ok |-> kept = parts, value |-> Set(fields, path, kept)]
      [] Schema[path] = "scalar" ->
            IF \A i \in DOMAIN parts : Parses(path, parts[i])
            THEN Ok(Set(fields, path, parts)) ELSE Failed(fields)
      [] OTHER -> Failed(fields)

SetField(cfg, path, parts) ==
    LET messages == cfg.messages \cup Created(path)
    IN  IF ~Passable(path, Len(path) - 1) \/ path \notin DOMAIN Schema
        THEN Failed([cfg EXCEPT !.messages = messages])
        ELSE LET leaf == ProcessLeaf(cfg.fields, path, parts)
             IN  [ok |-> leaf.ok, value |-> [messages |-> messages, fields |-> leaf.value]]

\* An override is [key, parts], or has no "=" when its key is empty.
ApplyOverride(cfg, override) ==
    IF override.key = <<>> THEN Failed(cfg)
    ELSE SetField(cfg, Resolve(override.key), override.parts)

ApplyOverrides(cfg, overrides) ==
    FoldLeft(LAMBDA r, override : IF r.ok THEN ApplyOverride(r.value, override) ELSE r,
             Ok(cfg), overrides)

\* The getters: a field that is not set is empty.
Get(cfg, path) == IF path \in DOMAIN cfg.fields THEN cfg.fields[path] ELSE <<>>
Has(cfg, path) == path \in cfg.messages
=============================================================================
