----------------------------- MODULE MCScanner -----------------------------
(***************************************************************************)
(* Two fingerprinters and two detectors behind four patterns, a            *)
(* configuration that selects some of them, command lines with and without *)
(* overrides (valid, conflicting, misspelled) and faulty flags, two        *)
(* services and a cap of two series per metric.                            *)
(***************************************************************************)
EXTENDS Scanner

MCRegistrations == [portscanner |-> <<"nmap">>, fingerprinter |-> <<"iswebservice", "webidentity">>,
                    detector |-> <<"adkweakcreds", "sshweakcreds">>]
MCAccepts == [all |-> {"iswebservice", "webidentity", "adkweakcreds", "sshweakcreds"},
              weakcreds |-> {"adkweakcreds", "sshweakcreds"}, ssh |-> {"sshweakcreds"},
              web |-> {"iswebservice", "webidentity"}, nothing |-> {}]
W(f) == <<"workflowcfg">> \o f
MCSchema ==
    [p \in {W(<<>>), W(<<"fingerprinters">>), W(<<"detectors">>), <<"globalcfg">>} |-> "message"] @@
    [p \in {W(<<x, y>>) : x \in {"fingerprinters", "detectors"}, y \in {"require", "ignore"}} |-> "list"] @@
    [p \in {W(<<"portscan">>), <<"globalcfg", "http_client">>, <<"globalcfg", "ports_to_scan">>} |-> "scalar"]
MCParses(path, text) == path = <<"globalcfg", "ports_to_scan">> => text # "many"
File == [messages |-> {W(<<>>), W(<<"fingerprinters">>), <<"globalcfg">>},
         fields |-> (W(<<"portscan">>) :> <<"nmap">>) @@ (<<"globalcfg", "http_client">> :> <<"simple">>)
                    @@ (W(<<"fingerprinters", "require">>) :> <<"web">>)]
O(key, parts) == [key |-> key, parts |-> parts]
NoFingerprints == O(<<"fingerprintersRequire">>, <<>>)
MCOverrides ==
    {<<>>,
     <<NoFingerprints, O(<<"detectorsRequire">>, <<"ssh", "weakcreds">>)>>,
     <<O(<<"fingerprintersIgnore">>, <<"all">>), O(<<"detectorsRequire">>, <<"ssh">>),
       O(W(<<"detectors", "require">>), <<"weakcreds">>), O(<<"detectorsIgnore">>, <<"ssh">>)>>,
     <<O(<<"detectorsRequire">>, <<"nothing">>)>>,
     <<NoFingerprints, O(<<"portscan">>, <<"masscan">>)>>,
     <<O(<<"ports">>, <<"80", "many">>)>>,
     <<O(W(<<"detector">>), <<"ssh">>)>>,
     <<O(<<"workflowcfg", "portscan", "name">>, <<"x">>)>>,
     <<O(<<"workflowcfg">>, <<"x">>)>>,
     <<O(<<"globalcfg", "http_client">>, <<"curl">>)>>,
     <<O(<<>>, <<>>)>>}
Line == [advisories |-> FALSE, debug |-> 0, target |-> TRUE, output |-> TRUE, config |-> {File},
         metrics |-> TRUE, overrides |-> <<>>]
MCFlags ==
    {[Line EXCEPT !.overrides = o] : o \in MCOverrides}
    \cup {[Line EXCEPT !.debug = 4], [Line EXCEPT !.target = FALSE], [Line EXCEPT !.output = FALSE],
          [Line EXCEPT !.config = {}], [Line EXCEPT !.metrics = FALSE],
          [Line EXCEPT !.advisories = TRUE, !.target = FALSE]}
M(name, kind, keys) == [name |-> name, kind |-> kind, keys |-> keys]
MCCatalog == <<M("findings", "counter", {"module"}), M("http/requests", "counter", {}),
               M("http/requests/error", "counter", {"error_class"}),
               M("module/duration", "distribution", {"module"}),
               M("module/errors", "counter", {"module", "error_class"}),
               M("scan/duration", "distribution", {}), M("services/discovered", "counter", {})>>
MCError == [m \in {"nmap", "iswebservice", "webidentity", "adkweakcreds", "sshweakcreds"} |->
                CASE m = "adkweakcreds" -> {"deadline", "net_timeout"}
                  [] m = "sshweakcreds" -> {"net", "eof"} [] OTHER -> {"refused"}]
MCHTTPClients == {"simple"}
MCReachable == {"s1", "s2"}
MCDetaching == {"adkweakcreds"}
=============================================================================
