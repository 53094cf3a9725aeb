-------------------------- MODULE MCAgenticDetector --------------------------
(* Small instances of AgenticDetector for TLC. *)
EXTENDS AgenticDetector, TLC

\* Calls are told apart only by what they do.
CallSymmetry == Permutations(Calls)

\* Integers of 7 bits, and the doublings of three attempts.
MCLimit == 2 ^ (7 - 1)
MCPowers == [n \in 1 .. 3 |-> 2 ^ (n - 1)]

MCService ==
  [endpoint |-> [type |-> "HOSTNAME_PORT", ip |-> "", host |-> "name", port |-> 80],
   transport |-> "tcp", name |-> "http", methods |-> <<"GET">>, tls |-> <<>>]

Url(scheme, host, port, path) ==
  [scheme |-> scheme, host |-> host, port |-> port, path |-> path]

\* In scope with the port and without it; the port, the host or the scheme of
\* another service; a forbidden page.
MCUrls ==
  {Url("http", "name", 80, "page"), Url("http", "name", 0, "page"),
   Url("http", "name", 81, "page"), Url("http", "other", 80, "page"),
   Url("https", "name", 0, "page"), Url("http", "name", 0, "kill")}

\* A user whose password is empty and one, known by an address, whose password
\* has nothing that can be rotated.
Cred1 == [username |-> <<"a">>, password |-> <<>>]
Cred2 == [username |-> <<"b", "@", "c", ".", "c">>, password |-> <<"!">>]

Request_(regex, marks, b) ==
  {[path |-> TRUE, regex |-> regex, marks |-> marks, body |-> b]}

Strategy_(login, csrf) ==
  [supports |-> TRUE, details |-> TRUE, creds |-> <<Cred1, Cred2>>,
   login |-> login, csrf |-> csrf]

MCStrategies ==
  {Strategy_(Request_("denial", {"password", "csrftoken"}, TRUE),
             Request_("token", {}, FALSE)),
   Strategy_(Request_("none", {"password"}, TRUE), {}),
   Strategy_(Request_("all", {"basic_auth"}, FALSE), {}),
   Strategy_(Request_("denial", {}, TRUE), {}),
   [Strategy_({}, {}) EXCEPT !.supports = FALSE]}

MCSites ==
  {[all |-> FALSE, accepts |-> {Cred1, Cred2}, denies |-> "message"],
   [all |-> FALSE, accepts |-> {Cred1, Cred2}, denies |-> "status"],
   [all |-> FALSE, accepts |-> {Cred2}, denies |-> "message"],
   [all |-> FALSE, accepts |-> {}, denies |-> "status"],
   [all |-> TRUE, accepts |-> {}, denies |-> "message"]}
=============================================================================
