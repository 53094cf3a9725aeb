------------------------------ MODULE Netservice ------------------------------
(***************************************************************************)
(* Network endpoints and services (core/net/netendpoint and                *)
(* core/net/netservice) as records, and the operators that every module of *)
(* the scanner uses on them.                                               *)
(*                                                                         *)
(* An address is "" or a model of one: "v4", "v6"; a hostname is "" or     *)
(* "name", the one a target was given by, or "ptr", the one its address    *)
(* resolves back to; a port is a number, 0 for none.  An authority is the  *)
(* record of what a URL or a dialer is given, and a web root adds the      *)
(* scheme.                                                                 *)
(***************************************************************************)
EXTENDS Integers, Sequences, SequencesExt

IsIP(target) == target \in {"v4", "v6"}

\* An IP address or, failing that, a hostname; never with a port.
FromString(target) ==
  IF IsIP(target)
    THEN [type |-> "IP", ip |-> target, host |-> "", port |-> 0]
    ELSE [type |-> "HOSTNAME", ip |-> "", host |-> target, port |-> 0]

PortType == [IP |-> "IP_PORT", HOSTNAME |-> "HOSTNAME_PORT",
             IP_HOSTNAME |-> "IP_HOSTNAME_PORT"]

\* The endpoint of a port: its type is promoted.
WithPort(e, p) == [e EXCEPT !.type = PortType[@], !.port = p]

\* The hostname comes first, so that virtual hosts are matched.
ToURIAuthorities(e) ==
  LET Authority(a) == [addr |-> a, port |-> e.port,
                       brackets |-> a = e.ip /\ e.ip = "v6"] IN
  (IF e.host # "" THEN <<Authority(e.host)>> ELSE <<>>)
    \o (IF e.ip # "" THEN <<Authority(e.ip)>> ELSE <<>>)

ToURIAuthority(e) == Head(ToURIAuthorities(e))

-----------------------------------------------------------------------------
\* A service as a port scanner first knows it.
NewService(e, transport, name) ==
  [endpoint |-> e, transport |-> transport, name |-> name,
   methods |-> <<>>, tls |-> <<>>]

HasTLS(s) == s.tls # <<>>

IsWebService(s) == s.methods # <<>>

BuildAllWebRoots(s) ==
  [k \in 1 .. Len(ToURIAuthorities(s.endpoint)) |->
     [scheme |-> IF HasTLS(s) THEN "https" ELSE "http",
      at |-> ToURIAuthorities(s.endpoint)[k]]]

BuildWebRoot(s) == Head(BuildAllWebRoots(s))

\* The transports over which the SSH detectors and the TLS probe can dial.
OverTCP(s) == s.transport \in {"unspecified", "tcp"}
=============================================================================
