------------------------------- MODULE HttpTool -------------------------------
(***************************************************************************)
(* The HTTP tool an agent is given (common/clients/llm/tools/httpclient):  *)
(* one Tool per service, whose Do may be called by several tool calls of   *)
(* the model at once.  The request counter and the session client are      *)
(* guarded by a mutex that is taken anew for each access, so each access   *)
(* is an action.                                                           *)
(*                                                                         *)
(* A session client is known by the number of its cookie jar; jar 0 is     *)
(* the stateless client.  Both follow the redirects that HttpClient allows  *)
(* to the service, which belong to the call that made the request.         *)
(***************************************************************************)
EXTENDS HttpClient, FiniteSets

CONSTANTS
  Calls,          \* the tool calls of a run
  Parallel,       \* bound: how many the agent has in flight at once
  MaxRequests,    \* HttpClientConfig.max_requests_per_service
  MaxAnswer,      \* HttpClientConfig.max_answer_size_bytes
  Forbidden,      \* HttpClientConfig.forbidden_paths: the paths they match
  MaxRedirects,   \* max_http_redirects of the global configuration
  Service,        \* the service the tool was made for
  Urls            \* where the pages of the service lead, in scope and out of it

\* The service is one for which a web root and its authorities are known, and
\* has the port on which a scanner found it.
ToolParameters ==
  /\ IsFiniteSet(Calls)
  /\ Parallel \in Nat \ {0}
  /\ MaxRequests \in Int
  /\ MaxAnswer \in Nat
  /\ MaxRedirects \in Nat
  /\ HasAuthorities(Service) /\ IsWebService(Service)
  /\ Service.endpoint.port # 0

VARIABLES
  countRequests,  \* Tool.countRequests
  client,         \* Tool.client: the jar of the current session
  jars,           \* the number of session clients made so far
  cookies,        \* cookies[j]: the calls whose answer set a cookie in jar j
  pc, req,        \* step and arguments of each call
  jar,            \* jar[c]: the jar of the client that call c got
  ret,            \* what each call returned
  hops,           \* hops[c]: the redirects that call c has followed
  wiped,          \* history: the cookies known when call c cleared the session
  sent,           \* history: the calls whose request went out
  asked           \* history: the URLs that were let through or followed

callVars == <<pc, req, jar, ret, hops>>
vars     == <<countRequests, client, jars, cookies, callVars, wiped, sent, asked>>

InFlight == {c \in Calls : pc[c] \notin {"idle", "returned"}}

NoRequest == [maintain |-> FALSE, clear |-> FALSE]

\* The options of both clients, but for the jar.
Options == LoadAuthorities(DefaultClientOptions(Forbidden), Service)

Paths == {u.path : u \in Urls}

\* The web root of the service and the path that the agent asks for.
Requested(path) ==
  LET root == BuildWebRoot(Service) IN
  [scheme |-> root.scheme, host |-> root.at.addr, port |-> root.at.port, path |-> path]

\* newTool makes the first session client.
Init ==
  /\ countRequests = 0
  /\ client = 1
  /\ jars = 1
  /\ cookies = [j \in 0 .. Cardinality(Calls) + 1 |-> {}]
  /\ pc = [c \in Calls |-> "idle"]
  /\ req = [c \in Calls |-> NoRequest]
  /\ jar = [c \in Calls |-> 0]
  /\ ret = [c \in Calls |-> "none"]
  /\ hops = [c \in Calls |-> 0]
  /\ wiped = [c \in Calls |-> {}]
  /\ sent = {}
  /\ asked = {}

\* newTool, again for the next agent.
NewTool ==
  /\ countRequests' = 0
  /\ client' = 1
  /\ jars' = 1
  /\ cookies' = [j \in 0 .. Cardinality(Calls) + 1 |-> {}]
  /\ pc' = [c \in Calls |-> "idle"]
  /\ req' = [c \in Calls |-> NoRequest]
  /\ jar' = [c \in Calls |-> 0]
  /\ ret' = [c \in Calls |-> "none"]
  /\ hops' = [c \in Calls |-> 0]
  /\ wiped' = [c \in Calls |-> {}]
  /\ sent' = {}
  /\ asked' = {}

Goto(c, l) == pc' = [pc EXCEPT ![c] = l]

\* Do returns, and what it knew is gone.
Return(c, what) ==
  /\ Goto(c, "returned")
  /\ ret' = [ret EXCEPT ![c] = what]
  /\ req' = [req EXCEPT ![c] = NoRequest]
  /\ jar' = [jar EXCEPT ![c] = 0]
  /\ hops' = [hops EXCEPT ![c] = 0]
  /\ wiped' = [wiped EXCEPT ![c] = {}]

Continue(c, l) == Goto(c, l) /\ UNCHANGED ret

\* Do is called; a done context, a bad URI or a bad method are refused.
Call(c) ==
  /\ pc[c] = "idle"
  /\ Cardinality(InFlight) < Parallel
  /\ \/ Return(c, "error")
     \/ /\ Continue(c, "check")
        /\ \E m, w \in BOOLEAN : req' = [req EXCEPT ![c] = [maintain |-> m, clear |-> w]]
        /\ UNCHANGED <<jar, hops, wiped>>
  /\ UNCHANGED <<countRequests, client, jars, cookies, sent, asked>>

LimitReached == countRequests >= MaxRequests

\* numberOfRequests() against the limit, and the URL of a request that is
\* within it against the forbidden paths.
CheckLimit(c) ==
  /\ pc[c] = "check"
  /\ IF LimitReached
       THEN Return(c, "error") /\ UNCHANGED asked
       ELSE \E p \in Paths :
              IF IsURLPathForbidden(Requested(p), Options)
                THEN Return(c, "error") /\ UNCHANGED asked
                ELSE /\ Continue(c, "count")
                     /\ asked' = asked \cup {Requested(p)}
                     /\ UNCHANGED <<req, jar, hops, wiped>>
  /\ UNCHANGED <<countRequests, client, jars, cookies, sent>>

Counted(c) == countRequests + 1

IncreaseRequestCount(c) ==
  /\ pc[c] = "count"
  /\ countRequests' = Counted(c)
  /\ Continue(c, IF req[c].clear THEN "clear" ELSE "client")
  /\ UNCHANGED <<client, jars, cookies, req, jar, hops, wiped, sent, asked>>

\* clearSession swaps in a client with an empty jar, or fails to make one.
ClearSession(c) == jars' = jars + 1 /\ client' = jars'

Clear(c) ==
  /\ pc[c] = "clear"
  /\ \/ /\ ClearSession(c)
        /\ Continue(c, "client")
        /\ wiped' = [wiped EXCEPT ![c] = UNION {cookies[j] : j \in 1 .. jars}]
        /\ UNCHANGED <<req, jar, hops>>
     \/ Return(c, "error") /\ UNCHANGED <<client, jars>>
  /\ UNCHANGED <<countRequests, cookies, sent, asked>>

GetClient(c) == IF req[c].maintain THEN client ELSE 0

\* getClient, and the request is sent with the cookies of its jar.
SendRequest(c) ==
  /\ pc[c] = "client"
  /\ jar' = [jar EXCEPT ![c] = GetClient(c)]
  /\ sent' = sent \cup {c}
  /\ Continue(c, "wait")
  /\ UNCHANGED <<countRequests, client, jars, cookies, req, hops, wiped, asked>>

\* An answer may set a cookie, which goes to the jar the request used.
SetCookie(c) ==
  \/ UNCHANGED cookies
  \/ cookies' = [cookies EXCEPT ![jar[c]] = IF jar[c] = 0 THEN @ ELSE @ \cup {c}]

\* A redirect that is followed is a request of its own for the server only: it
\* is not counted.
Redirect(c) ==
  /\ pc[c] = "wait"
  /\ \E u \in Urls :
       /\ CheckRedirect(u, hops[c] + 1, Options, MaxRedirects) = "follow"
       /\ asked' = asked \cup {u}
  /\ hops' = [hops EXCEPT ![c] = @ + 1]
  /\ SetCookie(c)
  /\ UNCHANGED <<countRequests, client, jars, pc, req, jar, ret, wiped, sent>>

\* The last answer, of which the body is read, or the failure of the request:
\* of the connection, or for one redirect too many.
Answer(c) ==
  /\ pc[c] = "wait"
  /\ \/ Return(c, "error") /\ UNCHANGED cookies
     \/ /\ \E u \in Urls : CheckRedirect(u, hops[c] + 1, Options, MaxRedirects) = "tooMany"
        /\ Return(c, "error")
        /\ SetCookie(c)
     \/ /\ \E n \in 0 .. MaxAnswer :
             Return(c, IF ReadBody(n, MaxAnswer) = "read" THEN "ok" ELSE "error")
        /\ SetCookie(c)
  /\ UNCHANGED <<countRequests, client, jars, sent, asked>>

CallStep(c) ==
  \/ Call(c)
  \/ CheckLimit(c)
  \/ IncreaseRequestCount(c)
  \/ Clear(c)
  \/ SendRequest(c)
  \/ Redirect(c)
  \/ Answer(c)

Terminated == InFlight = {} /\ UNCHANGED vars

Next == (\E c \in Calls : CallStep(c)) \/ Terminated

Spec == Init /\ [][Next]_vars

-----------------------------------------------------------------------------
TypeOK ==
  /\ countRequests \in 0 .. Cardinality(Calls)
  /\ client \in 1 .. jars
  /\ jars \in 1 .. Cardinality(Calls) + 1
  /\ cookies \in [0 .. Cardinality(Calls) + 1 -> SUBSET Calls]
  /\ pc \in [Calls -> {"idle", "check", "count", "clear", "client", "wait", "returned"}]
  /\ req \in [Calls -> [maintain : BOOLEAN, clear : BOOLEAN]]
  /\ jar \in [Calls -> 0 .. jars]
  /\ ret \in [Calls -> {"none", "ok", "error"}]
  /\ hops \in [Calls -> 0 .. MaxRedirects]
  /\ wiped \in [Calls -> SUBSET Calls]
  /\ sent \subseteq Calls

\* The check and the increment are two critical sections: the limit can be
\* passed, but only by the calls that were in flight with the last one allowed.
OvershootBounded ==
  /\ Cardinality(sent) <= countRequests
  /\ MaxRequests >= 0 => Cardinality(sent) <= MaxRequests + Parallel - 1

\* A call that clears the session never sends a cookie that was set before it
\* did, even one that an older request is about to store; and a call that does
\* not maintain the session neither sends nor stores any.
SessionWiped ==
  \A c \in Calls : pc[c] = "wait" =>
    /\ req[c].clear => cookies[jar[c]] \cap wiped[c] = {}
    /\ ~req[c].maintain => cookies[jar[c]] = {}

\* Nothing is asked of anyone but the service: every URL that a call requests
\* or is redirected to has a host of its endpoint and its port, which may be the
\* default one of the scheme, and no forbidden path; and no call makes more
\* requests, with those it is redirected to, than the configuration allows
\* redirects.
ScopeKept ==
  /\ \A u \in asked :
       /\ u.host \in {Service.endpoint.host, Service.endpoint.ip}
       /\ \/ u.port = Service.endpoint.port
          \/ u.port = 0 /\ <<u.scheme, Service.endpoint.port>> \in {<<"http", 80>>, <<"https", 443>>}
       /\ u.path \notin Forbidden
  /\ \A c \in Calls : hops[c] = 0 \/ hops[c] + 1 <= MaxRedirects

\* What the tool promises for the agent that holds it.
ToolKept == OvershootBounded /\ SessionWiped /\ ScopeKept
=============================================================================
