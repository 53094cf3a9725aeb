---------------------------- MODULE CallbackNames ----------------------------
(***************************************************************************)
(* How a callback identifier travels: the scanner puts it into a URL or a  *)
(* domain name (common/clients/callbackserver), the callback server takes  *)
(* it out again (common/callbackserver/netutils).                          *)
(*                                                                         *)
(* A secret and the identifier that cbid.Generate makes of it are the same *)
(* model value.  The path of a URL is the sequence of its segments, a      *)
(* domain name that of its labels; a public URI is its path, or a domain,  *)
(* and unset when it is not in the configuration.                          *)
(***************************************************************************)
EXTENDS Integers, Sequences, FiniteSets, SequencesExt

CONSTANTS
  Ids,              \* callback identifiers
  Other             \* what carries no identifier

Uri(path) == [set |-> TRUE, path |-> path]
NoUri == [set |-> FALSE, path |-> <<>>]

\* cbid.Validate
ValidId(s) == s \in Ids

\* The client needs the public URIs of all three endpoints.
IsCallbackServerEnabled(uris) == uris.poll.set /\ uris.http.set /\ uris.dns.set

\* A URI may end in a slash, which makes its last segment empty.
TrimSlash_Not(path) == path
TrimSlash(path) == IF path # <<>> /\ Last(path) = "" THEN Front(path) ELSE path

CallbackURL(uri, id) == TrimSlash(uri.path) \o <<id>>

CallbackDomain(uri, id) == <<id>> \o uri.path

\* The addresses given to a plugin; without the configuration there is none.
GetHTTPCallbackURI(uris, id) ==
  IF IsCallbackServerEnabled(uris) THEN {CallbackURL(uris.http, id)} ELSE {}

GetDNSCallbackDomain(uris, id) ==
  IF IsCallbackServerEnabled(uris) THEN {CallbackDomain(uris.dns, id)} ELSE {}

IdentifierFromURL(path) ==
  IF Len(path) = 1 /\ ValidId(path[1]) THEN path[1] ELSE Other

\* shouldAnswer: the name is the domain or ends in it.
ShouldAnswer(labels, uri) == IsSuffix(uri.path, labels)

IdentifierFromDomain(labels) ==
  IF Len(labels) >= 2 /\ ValidId(labels[1]) THEN labels[1] ELSE Other

\* What HandleDNS makes of the name it is asked for.
IdentifierOfQuery(labels, uri) ==
  IF ShouldAnswer(labels, uri) THEN IdentifierFromDomain(labels) ELSE Other
=============================================================================
