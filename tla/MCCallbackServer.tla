--------------------------- MODULE MCCallbackServer ---------------------------
(* Small instances of CallbackServer for TLC. *)
EXTENDS CallbackServer, TLC

\* Identifiers are hashes that are only compared, so they can be exchanged.
IdSymmetry == Permutations(Ids)

Uris(poll, http, dns) == [poll |-> poll, http |-> http, dns |-> dns]
Domain == Uri(<<"cb", "example">>)

Config(local, standalone, uris) ==
  [local |-> local, standalone |-> standalone, uris |-> uris]

\* The scanner's own server, with a URI that ends in a slash.
OwnServer == Config({"poll", "http", "dns"}, FALSE, Uris(Uri(<<>>), Uri(<<"">>), Domain))

\* A server of its own, also asked to record DNS, a scanner that only polls one
\* that is elsewhere, a URI with a path, and a client that lacks a URI.
MCConfigs ==
  {OwnServer,
   Config({"poll", "http", "dns"}, TRUE, Uris(Uri(<<>>), Uri(<<>>), Domain)),
   Config({"poll"}, FALSE, Uris(Uri(<<>>), Uri(<<>>), Domain)),
   Config({"poll", "http"}, TRUE, Uris(Uri(<<>>), Uri(<<"cb">>), Domain)),
   Config({"poll", "http", "dns"}, FALSE, Uris(Uri(<<>>), Uri(<<>>), NoUri))}

OwnConfig == {OwnServer}
=============================================================================
