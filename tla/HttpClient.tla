------------------------------ MODULE HttpClient ------------------------------
(***************************************************************************)
(* The HTTP client of the scanner (core/net/http): what a client is made   *)
(* from its options, which redirects it follows, and how much of an answer *)
(* is read.  A request is one Do; the redirects it follows are part of it. *)
(*                                                                         *)
(* A URL is a record of its scheme, host, port (0 when it has none) and    *)
(* path, which is a model value: a path and its encodings are the same     *)
(* value, and a forbidden pattern is the set of the paths it matches.      *)
(***************************************************************************)
EXTENDS Netservice

DefaultClientOptions(forbidden) ==
  [StoreCookies |-> FALSE, DisableFollowRedirects |-> FALSE,
   AllowedAuthorities |-> <<>>, ForbiddenPaths |-> forbidden,
   Refused |-> {},              \* the URLs for which AllowRedirect is false
   RetryOnRateLimit |-> FALSE]

\* LoadAuthorities fails for an endpoint without an address.
HasAuthorities(service) == ToURIAuthorities(service.endpoint) # <<>>

LoadAuthorities(options, service) ==
  [options EXCEPT !.AllowedAuthorities = ToURIAuthorities(service.endpoint)]

\* NewClient and newClient: each client has its own jar, and only a client that
\* asks for it repeats requests that are rate limited.
NewClient(options) ==
  [jar |-> options.StoreCookies, retries |-> options.RetryOnRateLimit,
   options |-> options]

-----------------------------------------------------------------------------
DefaultPort == [https |-> 443, http |-> 80]

TargetPort(u) ==
  IF u.port = 0 /\ u.scheme \in DOMAIN DefaultPort THEN DefaultPort[u.scheme] ELSE u.port

\* An authority without a port allows all of them.
IsAuthorityAllowed_HostOnly(u, options) ==
  \/ options.AllowedAuthorities = <<>>
  \/ \E k \in DOMAIN options.AllowedAuthorities :
       u.host = options.AllowedAuthorities[k].addr

IsAuthorityAllowed(u, options) ==
  \/ options.AllowedAuthorities = <<>>
  \/ \E k \in DOMAIN options.AllowedAuthorities :
       LET auth == options.AllowedAuthorities[k] IN
       /\ u.host = auth.addr
       /\ auth.port \in {0, TargetPort(u)}

IsURLPathForbidden(u, options) == u.path \in options.ForbiddenPaths

IsRedirectAllowed(u, options) ==
  /\ ~options.DisableFollowRedirects
  /\ IsAuthorityAllowed(u, options)
  /\ ~IsURLPathForbidden(u, options)
  /\ u \notin options.Refused

\* CheckRedirect, after via requests: the redirect is followed, its answer is
\* the last, or the request fails.
CheckRedirect(u, via, options, maxRedirects) ==
  IF ~IsRedirectAllowed(u, options) THEN "last"
  ELSE IF via >= maxRedirects THEN "tooMany"
  ELSE "follow"

-----------------------------------------------------------------------------
\* ReadBody of a body of n bytes: one of the maximum size counts as too big,
\* and of an empty one the first read is the end of file, which is an error.
ReadBody(n, maxsize) ==
  IF n >= maxsize THEN "tooBig" ELSE IF n = 0 THEN "EOF" ELSE "read"
=============================================================================
