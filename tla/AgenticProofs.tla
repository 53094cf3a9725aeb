----------------------------- MODULE AgenticProofs -----------------------------
(***************************************************************************)
(* The agentic weak-credentials detector (plugins/detectors/adkweakcreds)  *)
(* and the HTTP tool of its agent (common/clients/llm/tools/httpclient).   *)
(***************************************************************************)
EXTENDS AgenticDetector, FiniteSetTheorems, SequenceTheorems, TLAPS

-----------------------------------------------------------------------------
(* The tool: its calls, which share a counter and a session client.        *)

Steps == {"idle", "check", "count", "clear", "client", "wait", "returned"}

At(S) == {c \in Calls : tpc[c] \in S}

JarNumbers == 0 .. Cardinality(Calls) + 1

ToolType ==
  /\ countRequests \in Nat
  /\ jars \in Nat \ {0}
  /\ client = jars
  /\ cookies \in [JarNumbers -> SUBSET Calls]
  /\ tpc \in [Calls -> Steps]
  /\ req \in [Calls -> [maintain : BOOLEAN, clear : BOOLEAN]]
  /\ jar \in [Calls -> Nat]
  /\ hops \in [Calls -> Nat]
  /\ wiped \in [Calls -> SUBSET Calls]
  /\ tsent \subseteq Calls

\* Every request that was sent, or is about to be, was counted; the calls that
\* have been let through but are not counted yet are in flight.
RequestsCounted ==
  /\ \A c \in tsent : tpc[c] \in {"wait", "returned"}
  /\ Cardinality(tsent) + Cardinality(At({"clear", "client"})) <= countRequests
  /\ Cardinality(T!InFlight) <= Parallel
  /\ MaxRequests >= 0 =>
       countRequests + Cardinality(At({"count"})) <= MaxRequests + Parallel - 1

\* A jar is made by a call that clears the session, and a call stores cookies
\* in one jar only.
JarsKept ==
  /\ jars <= 1 + Cardinality(At({"client", "wait", "returned"}))
  /\ \A c \in Calls : jar[c] <= jars
  /\ cookies[0] = {}
  /\ \A j \in JarNumbers : \A c \in cookies[j] :
       tpc[c] = "returned" \/ (tpc[c] = "wait" /\ jar[c] = j)
  /\ \A i, j \in JarNumbers : i # j => cookies[i] \cap cookies[j] = {}

\* What a call has wiped is in jars older than the one it uses.
OlderWiped ==
  \A c \in Calls :
    /\ req[c].clear /\ tpc[c] = "client" =>
         \A d \in wiped[c] : \E j \in 1 .. jars - 1 : d \in cookies[j]
    /\ req[c].clear /\ tpc[c] = "wait" /\ jar[c] # 0 =>
         \A d \in wiped[c] : \E j \in 1 .. jar[c] - 1 : d \in cookies[j]
    /\ tpc[c] = "wait" /\ ~req[c].maintain => jar[c] = 0

ToolInv == ToolType /\ RequestsCounted /\ JarsKept /\ OlderWiped /\ T!ScopeKept

LEMMA SameCardinality == \A S : T!Cardinality(S) = Cardinality(S)
BY Zenon DEF T!Cardinality, Cardinality

LEMMA CallsFinite == IsFiniteSet(Calls) /\ Cardinality(Calls) \in Nat
<1>1. IsFiniteSet(Calls)
  BY Zenon, AgenticAssumption DEF AgenticAssumption, T!ToolParameters, T!IsFiniteSet, IsFiniteSet
<1> QED
  BY <1>1, FS_CardinalityType

\* How many calls are at given steps when one of them moves.
LEMMA Moved ==
  ASSUME ToolType, NEW c \in Calls, NEW l \in Steps, tpc' = [tpc EXCEPT ![c] = l],
         NEW S
  PROVE  /\ Cardinality(At(S)) \in Nat /\ Cardinality(At(S)') \in Nat
         /\ tpc[c] \in S /\ l \in S => Cardinality(At(S)') = Cardinality(At(S))
         /\ tpc[c] \notin S /\ l \notin S => Cardinality(At(S)') = Cardinality(At(S))
         /\ tpc[c] \notin S /\ l \in S => Cardinality(At(S)') = Cardinality(At(S)) + 1
         /\ tpc[c] \in S /\ l \notin S => Cardinality(At(S)') = Cardinality(At(S)) - 1
<1>1. IsFiniteSet(At(S)) /\ IsFiniteSet(At(S)')
  <2>1. At(S) \subseteq Calls /\ At(S)' \subseteq Calls
    BY DEF At
  <2> QED
    BY <2>1, CallsFinite, FS_Subset
<1>2. Cardinality(At(S)) \in Nat /\ Cardinality(At(S)') \in Nat
  BY <1>1, FS_CardinalityType
<1>3. tpc \in [Calls -> Steps]
  BY DEF ToolType
<1>4. (tpc[c] \in S <=> l \in S) => At(S)' = At(S)
  BY <1>3 DEF At
<1>5. tpc[c] \notin S /\ l \in S => At(S)' = At(S) \cup {c} /\ c \notin At(S)
  BY <1>3 DEF At
<1>6. tpc[c] \in S /\ l \notin S => At(S)' = At(S) \ {c} /\ c \in At(S)
  BY <1>3 DEF At
<1>7. c \notin At(S) => Cardinality(At(S) \cup {c}) = Cardinality(At(S)) + 1
  BY <1>1, FS_AddElement
<1>8. c \in At(S) => Cardinality(At(S) \ {c}) = Cardinality(At(S)) - 1
  BY <1>1, FS_RemoveElement
<1> HIDE DEF At
<1> QED
  BY <1>2, <1>4, <1>5, <1>6, <1>7, <1>8
\* The calls in flight and the number of jars, in terms of steps.
LEMMA ToolTerms ==
  ASSUME ToolType
  PROVE  /\ T!InFlight = At({"check", "count", "clear", "client", "wait"})
         /\ DOMAIN cookies = JarNumbers
<1>1. tpc \in [Calls -> Steps]
  BY DEF ToolType
<1>2. T!InFlight = At({"check", "count", "clear", "client", "wait"})
  BY <1>1 DEF T!InFlight, At, Steps
<1> QED
  BY <1>2 DEF ToolType

LEMMA ToolStart ==
  ASSUME T!Init
  PROVE  ToolInv
<1> USE DEF T!Init
<1>1. /\ countRequests = 0 /\ client = 1 /\ jars = 1
      /\ tsent = {} /\ asked = {}
      /\ tpc = [c \in Calls |-> "idle"]
      /\ req = [c \in Calls |-> T!NoRequest]
      /\ jar = [c \in Calls |-> 0]
      /\ hops = [c \in Calls |-> 0]
      /\ wiped = [c \in Calls |-> {}]
      /\ cookies = [j \in JarNumbers |-> {}]
  BY SameCardinality DEF JarNumbers
<1> HIDE DEF T!Init
<1>2. ToolType
  BY <1>1 DEF ToolType, Steps, T!NoRequest
<1>3. \A S : "idle" \notin S => At(S) = {}
  BY <1>1 DEF At
<1>4. Cardinality({}) = 0
  BY FS_EmptySet
<1>5. RequestsCounted
  <2>1. T!InFlight = {} /\ At({"clear", "client"}) = {} /\ At({"count"}) = {}
    BY <1>2, <1>3, ToolTerms
  <2>2. T!Cardinality(T!InFlight) = 0 /\ Cardinality(T!InFlight) = 0
    BY <2>1, <1>4, SameCardinality
  <2>3. Parallel \in Nat \ {0} /\ MaxRequests \in Int
    BY AgenticAssumption DEF AgenticAssumption, T!ToolParameters
  <2>4. Cardinality(tsent) = 0 /\ Cardinality(At({"clear", "client"})) = 0
        /\ Cardinality(At({"count"})) = 0
    BY <2>1, <1>1, <1>4
  <2>5. \A c \in tsent : tpc[c] \in {"wait", "returned"}
    BY <1>1
  <2> QED
    BY <2>2, <2>3, <2>4, <2>5, <1>1 DEF RequestsCounted
<1>6. JarsKept
  <2>1. At({"client", "wait", "returned"}) = {}
    BY <1>3
  <2>2. 0 \in JarNumbers
    BY CallsFinite DEF JarNumbers
  <2> QED
    BY <2>1, <2>2, <1>1, <1>4 DEF JarsKept
<1>7. OlderWiped
  BY <1>1 DEF OlderWiped, T!NoRequest
<1>8. T!ScopeKept
  BY <1>1 DEF T!ScopeKept
<1> QED
  BY <1>2, <1>5, <1>6, <1>7, <1>8 DEF ToolInv

LEMMA ToolRenewed ==
  ASSUME T!NewTool
  PROVE  ToolInv'
<1> USE DEF T!NewTool
<1>1. /\ countRequests' = 0 /\ client' = 1 /\ jars' = 1
      /\ tsent' = {} /\ asked' = {}
      /\ tpc' = [c \in Calls |-> "idle"]
      /\ req' = [c \in Calls |-> T!NoRequest]
      /\ jar' = [c \in Calls |-> 0]
      /\ hops' = [c \in Calls |-> 0]
      /\ wiped' = [c \in Calls |-> {}]
      /\ cookies' = [j \in JarNumbers |-> {}]
  BY SameCardinality DEF JarNumbers
<1> HIDE DEF T!NewTool
<1>2. ToolType'
  BY <1>1 DEF ToolType, Steps, T!NoRequest, JarNumbers
<1>3. \A S : "idle" \notin S => {c \in Calls : tpc'[c] \in S} = {}
  BY <1>1
<1>4. Cardinality({}) = 0
  BY FS_EmptySet
<1>5. RequestsCounted'
  <2>1. T!InFlight' = {} /\ At({"clear", "client"})' = {} /\ At({"count"})' = {}
    BY <1>1, <1>3 DEF T!InFlight, At
  <2>2. Parallel \in Nat \ {0} /\ MaxRequests \in Int
    BY AgenticAssumption DEF AgenticAssumption, T!ToolParameters
  <2>3. /\ Cardinality(tsent)' = 0 /\ Cardinality(At({"clear", "client"}))' = 0
        /\ Cardinality(At({"count"}))' = 0 /\ Cardinality(T!InFlight)' = 0
    BY <2>1, <1>1, <1>4
  <2>4. \A c \in tsent' : tpc'[c] \in {"wait", "returned"}
    BY <1>1
  <2> QED
    BY <2>2, <2>3, <2>4, <1>1 DEF RequestsCounted
<1>6. JarsKept'
  <2>1. At({"client", "wait", "returned"})' = {}
    BY <1>3 DEF At
  <2>2. 0 \in JarNumbers /\ JarNumbers' = JarNumbers
    BY CallsFinite DEF JarNumbers
  <2>3. Cardinality(At({"client", "wait", "returned"}))' = 0
    BY <2>1, <1>4
  <2>4. \A j \in JarNumbers : cookies'[j] = {}
    BY <1>1
  <2>5. \A c \in Calls : jar'[c] = 0
    BY <1>1
  <2> QED
    BY <2>2, <2>3, <2>4, <2>5, <1>1 DEF JarsKept
<1>7. OlderWiped'
  BY <1>1 DEF OlderWiped, T!NoRequest
<1>8. T!ScopeKept'
  BY <1>1 DEF T!ScopeKept
<1> QED
  BY <1>2, <1>5, <1>6, <1>7, <1>8 DEF ToolInv

\* Only what a request may be made to is let through or followed.
LEMMA InScope ==
  LET Fits(u) ==
        /\ u.host \in {Service.endpoint.host, Service.endpoint.ip}
        /\ \/ u.port = Service.endpoint.port
           \/ u.port = 0 /\ <<u.scheme, Service.endpoint.port>> \in {<<"http", 80>>, <<"https", 443>>}
        /\ u.path \notin Forbidden
  IN  /\ \A p : ~T!IsURLPathForbidden(T!Requested(p), T!Options) => Fits(T!Requested(p))
      /\ \A u, n : T!CheckRedirect(u, n, T!Options, MaxRedirects) = "follow" => Fits(u) /\ ~(n >= MaxRedirects)
<1> DEFINE e == Service.endpoint
           auths == T!ToURIAuthorities(e)
           Fits(u) ==
             /\ u.host \in {e.host, e.ip}
             /\ \/ u.port = e.port
                \/ u.port = 0 /\ <<u.scheme, e.port>> \in {<<"http", 80>>, <<"https", 443>>}
             /\ u.path \notin Forbidden
<1>1. auths # <<>> /\ e.port # 0
  BY AgenticAssumption DEF AgenticAssumption, T!ToolParameters, T!HasAuthorities
<1>2. /\ \A i \in DOMAIN auths : auths[i].addr \in {e.host, e.ip} /\ auths[i].port = e.port
      /\ Len(auths) \in Nat /\ DOMAIN auths = 1 .. Len(auths) /\ Len(auths) > 0
  <2> DEFINE a(x) == [addr |-> x, port |-> e.port, brackets |-> x = e.ip /\ e.ip = "v6"]
  <2>1. \A x, y : /\ <<>> \o <<>> = <<>> /\ <<x>> \o <<>> = <<x>>
                   /\ <<>> \o <<y>> = <<y>> /\ <<x>> \o <<y>> = <<x, y>>
    <3> TAKE x, y
    <3> <<x>> \in Seq({x}) /\ <<y>> \in Seq({y})
      OBVIOUS
    <3>1. <<>> \o <<>> = <<>>
      OBVIOUS
    <3>2. <<x>> \o <<>> = <<x>>
      OBVIOUS
    <3>3. <<>> \o <<y>> = <<y>>
      OBVIOUS
    <3>4. <<x>> \o <<y>> = <<x, y>>
      <4> DEFINE s == <<x>> \o <<y>>
      <4>1. s \in Seq({x, y}) /\ Len(s) = 2 /\ s[1] = x /\ s[2] = y
        OBVIOUS
      <4>2. <<x, y>> \in Seq({x, y}) /\ Len(<<x, y>>) = 2
        OBVIOUS
      <4> HIDE DEF s
      <4>3. \A i \in 1 .. Len(s) : s[i] = <<x, y>>[i]
        BY <4>1
      <4>4. s = <<x, y>>
        BY <4>1, <4>2, <4>3, SeqEqual
      <4> QED
        BY <4>4 DEF s
    <3> QED
      BY <3>1, <3>2, <3>3, <3>4
  <2>2. auths = (IF e.host # "" THEN <<a(e.host)>> ELSE <<>>)
                  \o (IF e.ip # "" THEN <<a(e.ip)>> ELSE <<>>)
    BY Zenon DEF T!ToURIAuthorities
  <2>3. \A x : a(x).addr = x /\ a(x).port = e.port
    OBVIOUS
  <2> HIDE DEF auths, a
  <2>4. auths \in {<<>>, <<a(e.host)>>, <<a(e.ip)>>, <<a(e.host), a(e.ip)>>}
    BY <2>1, <2>2
  <2> QED
    BY <1>1, <2>3, <2>4
<1>4. T!Options.AllowedAuthorities = auths /\ T!Options.ForbiddenPaths = Forbidden
  BY DEF T!Options, T!LoadAuthorities, T!DefaultClientOptions
<1>5. ASSUME NEW p, ~T!IsURLPathForbidden(T!Requested(p), T!Options)
      PROVE  Fits(T!Requested(p))
  <2>1. p \notin Forbidden
    BY <1>4, <1>5 DEF T!IsURLPathForbidden, T!Requested
  <2>2. T!BuildWebRoot(Service).at = auths[1]
    BY <1>2 DEF T!BuildWebRoot, T!BuildAllWebRoots
  <2> QED
    BY <1>2, <2>1, <2>2 DEF T!Requested
<1>6. ASSUME NEW u, NEW n, T!CheckRedirect(u, n, T!Options, MaxRedirects) = "follow"
      PROVE  Fits(u) /\ ~(n >= MaxRedirects)
  <2>1. T!IsRedirectAllowed(u, T!Options) /\ ~(n >= MaxRedirects)
    BY <1>6 DEF T!CheckRedirect
  <2>2. u.path \notin Forbidden
    BY <1>4, <2>1 DEF T!IsRedirectAllowed, T!IsURLPathForbidden
  <2>3. PICK i \in DOMAIN auths : u.host = auths[i].addr /\ auths[i].port \in {0, T!TargetPort(u)}
    BY <1>1, <1>4, <2>1 DEF T!IsRedirectAllowed, T!IsAuthorityAllowed
  <2>4. u.host \in {e.host, e.ip} /\ e.port = T!TargetPort(u)
    BY <1>1, <1>2, <2>3
  <2>5. u.port = e.port \/ (u.port = 0 /\ <<u.scheme, e.port>> \in {<<"http", 80>>, <<"https", 443>>})
    BY <1>1, <2>4 DEF T!TargetPort, T!DefaultPort
  <2> QED
    BY <2>1, <2>2, <2>4, <2>5
<1> QED
  BY <1>5, <1>6

LEMMA JarsBounded ==
  ASSUME ToolInv
  PROVE  \A j \in 0 .. jars : j \in JarNumbers
<1>1. At({"client", "wait", "returned"}) \subseteq Calls
  BY DEF At
<1>2. /\ Cardinality(At({"client", "wait", "returned"})) \in Nat
      /\ Cardinality(At({"client", "wait", "returned"})) <= Cardinality(Calls)
  BY <1>1, CallsFinite, FS_Subset, FS_CardinalityType
<1> QED
  BY <1>2, CallsFinite DEF ToolInv, ToolType, JarsKept, JarNumbers

\* An answer stores its cookie, if any, in the jar that its request used.
LEMMA CookieSet ==
  ASSUME ToolInv, NEW c \in Calls, tpc[c] = "wait", T!SetCookie(c)
  PROVE  /\ cookies' \in [JarNumbers -> SUBSET Calls]
         /\ cookies'[0] = {}
         /\ \A j \in JarNumbers :
              cookies[j] \subseteq cookies'[j]
              /\ \A d \in cookies'[j] : d \in cookies[j] \/ (d = c /\ j = jar[c])
         /\ \A i, j \in JarNumbers : i # j => cookies'[i] \cap cookies'[j] = {}
<1>1. /\ cookies \in [JarNumbers -> SUBSET Calls] /\ jar[c] \in JarNumbers
      /\ cookies[0] = {}
      /\ \A i, j \in JarNumbers : i # j => cookies[i] \cap cookies[j] = {}
      /\ \A j \in JarNumbers : c \in cookies[j] => j = jar[c]
  <2>1. jar[c] \in 0 .. jars
    BY DEF ToolInv, ToolType, JarsKept
  <2> QED
    BY <2>1, JarsBounded DEF ToolInv, ToolType, JarsKept
<1>2. CASE cookies' = cookies
  BY <1>1, <1>2
<1>3. CASE cookies' = [cookies EXCEPT ![jar[c]] = IF jar[c] = 0 THEN @ ELSE @ \cup {c}]
  <2>1. CASE jar[c] = 0
    BY <1>1, <1>3, <2>1
  <2>2. CASE jar[c] # 0
    <3>1. /\ cookies' = [cookies EXCEPT ![jar[c]] = cookies[jar[c]] \cup {c}]
          /\ \A j \in JarNumbers : j # jar[c] => cookies'[j] = cookies[j]
          /\ cookies'[jar[c]] = cookies[jar[c]] \cup {c}
      BY <1>1, <1>3, <2>2
    <3>2. cookies' \in [JarNumbers -> SUBSET Calls]
      BY <1>1, <3>1
    <3>3. cookies'[0] = {}
      BY <1>1, <2>2, <3>1, CallsFinite DEF JarNumbers
    <3>4. \A j \in JarNumbers :
            cookies[j] \subseteq cookies'[j]
            /\ \A d \in cookies'[j] : d \in cookies[j] \/ (d = c /\ j = jar[c])
      BY <3>1
    <3>5. \A i, j \in JarNumbers : i # j => cookies'[i] \cap cookies'[j] = {}
      BY <1>1, <3>4
    <3> QED
      BY <3>2, <3>3, <3>4, <3>5
  <2> QED
    BY <2>1, <2>2
<1> QED
  BY <1>2, <1>3 DEF T!SetCookie

LEMMA ToolReturns ==
  ASSUME ToolInv, NEW c \in Calls, NEW what, T!Return(c, what),
         tpc[c] \in {"idle", "check", "clear", "wait"},
         cookies' = cookies \/ (tpc[c] = "wait" /\ T!SetCookie(c)),
         UNCHANGED <<countRequests, client, jars, tsent, asked>>
  PROVE  ToolInv'
<1>1. /\ tpc' = [tpc EXCEPT ![c] = "returned"]
      /\ req' = [req EXCEPT ![c] = T!NoRequest]
      /\ jar' = [jar EXCEPT ![c] = 0]
      /\ hops' = [hops EXCEPT ![c] = 0]
      /\ wiped' = [wiped EXCEPT ![c] = {}]
  BY DEF T!Return, T!Goto
<1>2. ToolType /\ RequestsCounted /\ JarsKept /\ OlderWiped /\ T!ScopeKept
  BY DEF ToolInv
<1>3. /\ cookies' \in [JarNumbers -> SUBSET Calls]
      /\ cookies'[0] = {}
      /\ \A j \in JarNumbers :
           cookies[j] \subseteq cookies'[j]
           /\ \A d \in cookies'[j] : d \in cookies[j] \/ (tpc[c] = "wait" /\ d = c /\ j = jar[c])
      /\ \A i, j \in JarNumbers : i # j => cookies'[i] \cap cookies'[j] = {}
  BY <1>2, CookieSet DEF ToolType, JarsKept
<1>4. JarNumbers' = JarNumbers
  BY DEF JarNumbers
<1>5. ToolType'
  BY <1>1, <1>2, <1>3, <1>4 DEF ToolType, Steps, T!NoRequest
<1>6. \A d \in Calls : /\ d = c => tpc'[d] = "returned" /\ jar'[d] = 0 /\ req'[d] = T!NoRequest
                       /\ d # c => /\ tpc'[d] = tpc[d] /\ jar'[d] = jar[d]
                                   /\ req'[d] = req[d] /\ wiped'[d] = wiped[d]
  BY <1>1, <1>2 DEF ToolType
<1>7. RequestsCounted'
  <2>1. \A d \in tsent' : tpc'[d] \in {"wait", "returned"}
    BY <1>2, <1>6 DEF RequestsCounted, ToolType
  <2>2. /\ Cardinality(At({"clear", "client"})') <= Cardinality(At({"clear", "client"}))
        /\ Cardinality(At({"count"})') = Cardinality(At({"count"}))
        /\ Cardinality(T!InFlight') <= Cardinality(T!InFlight)
        /\ Cardinality(At({"clear", "client"})) \in Nat /\ Cardinality(At({"clear", "client"})') \in Nat
        /\ Cardinality(T!InFlight) \in Nat /\ Cardinality(T!InFlight') \in Nat
    <3>1. \A S : "returned" \notin S =>
            /\ Cardinality(At(S)') <= Cardinality(At(S))
            /\ Cardinality(At(S)) \in Nat /\ Cardinality(At(S)') \in Nat
            /\ tpc[c] \notin S => Cardinality(At(S)') = Cardinality(At(S))
      <4>1. "returned" \in Steps
        BY DEF Steps
      <4> TAKE S
      <4>2. /\ Cardinality(At(S)) \in Nat /\ Cardinality(At(S)') \in Nat
            /\ tpc[c] \notin S /\ "returned" \notin S => Cardinality(At(S)') = Cardinality(At(S))
            /\ tpc[c] \in S /\ "returned" \notin S => Cardinality(At(S)') = Cardinality(At(S)) - 1
        BY <1>1, <1>2, <4>1, Moved, Zenon
      <4> QED
        BY <4>2
    <3>2. /\ Cardinality(At({"clear", "client"})') <= Cardinality(At({"clear", "client"}))
          /\ Cardinality(At({"clear", "client"})) \in Nat /\ Cardinality(At({"clear", "client"})') \in Nat
      <4> "returned" \notin {"clear", "client"}
        OBVIOUS
      <4> QED
        BY <3>1
    <3>3. Cardinality(At({"count"})') = Cardinality(At({"count"}))
      <4> "returned" \notin {"count"} /\ tpc[c] \notin {"count"}
        OBVIOUS
      <4> QED
        BY <3>1
    <3>4. LET F == At({"check", "count", "clear", "client", "wait"})
          IN  Cardinality(F') <= Cardinality(F) /\ Cardinality(F) \in Nat /\ Cardinality(F') \in Nat
      <4> "returned" \notin {"check", "count", "clear", "client", "wait"}
        OBVIOUS
      <4> QED
        BY <3>1
    <3>5. /\ T!InFlight = At({"check", "count", "clear", "client", "wait"})
          /\ T!InFlight' = At({"check", "count", "clear", "client", "wait"})'
      <4> tpc \in [Calls -> Steps] /\ tpc' \in [Calls -> Steps]
        BY <1>2, <1>5 DEF ToolType
      <4> QED
        BY DEF T!InFlight, At, Steps
    <3> QED
      BY <3>2, <3>3, <3>4, <3>5
  <2>3. /\ Cardinality(tsent) \in Nat /\ countRequests \in Nat
        /\ Parallel \in Nat \ {0} /\ MaxRequests \in Int
    BY <1>2, CallsFinite, FS_Subset, FS_CardinalityType, AgenticAssumption
       DEF ToolType, AgenticAssumption, T!ToolParameters
  <2>4. /\ Cardinality(tsent) + Cardinality(At({"clear", "client"})') <= countRequests
        /\ Cardinality(T!InFlight') <= Parallel
        /\ MaxRequests >= 0 =>
             countRequests + Cardinality(At({"count"})') <= MaxRequests + Parallel - 1
    BY <1>2, <2>2, <2>3 DEF RequestsCounted
  <2> QED
    BY <2>1, <2>4 DEF RequestsCounted
<1>8. JarsKept'
  <2>1. jars <= 1 + Cardinality(At({"client", "wait", "returned"})')
    <3> DEFINE S == {"client", "wait", "returned"}
    <3>1. "returned" \in Steps /\ "returned" \in S
      BY DEF Steps
    <3> HIDE DEF S
    <3>2. /\ Cardinality(At(S)) \in Nat /\ Cardinality(At(S)') \in Nat
          /\ tpc[c] \in S => Cardinality(At(S)') = Cardinality(At(S))
          /\ tpc[c] \notin S => Cardinality(At(S)') = Cardinality(At(S)) + 1
      BY <1>1, <1>2, <3>1, Moved, Zenon
    <3>3. jars \in Nat /\ jars <= 1 + Cardinality(At(S))
      BY <1>2 DEF S, JarsKept, ToolType
    <3>4. jars <= 1 + Cardinality(At(S)')
      BY <3>2, <3>3
    <3> QED
      BY <3>4 DEF S
  <2>2. \A d \in Calls : jar'[d] <= jars
    BY <1>2, <1>6 DEF JarsKept, ToolType
  <2>3. \A j \in JarNumbers : \A d \in cookies'[j] :
          tpc'[d] = "returned" \/ (tpc'[d] = "wait" /\ jar'[d] = j)
    BY <1>2, <1>3, <1>6 DEF JarsKept, ToolType
  <2> QED
    BY <1>3, <1>4, <2>1, <2>2, <2>3 DEF JarsKept
<1>9. OlderWiped'
  <2> SUFFICES ASSUME NEW d \in Calls
               PROVE  /\ req'[d].clear /\ tpc'[d] = "client" =>
                           \A x \in wiped'[d] : \E j \in 1 .. jars' - 1 : x \in cookies'[j]
                      /\ req'[d].clear /\ tpc'[d] = "wait" /\ jar'[d] # 0 =>
                           \A x \in wiped'[d] : \E j \in 1 .. jar'[d] - 1 : x \in cookies'[j]
                      /\ tpc'[d] = "wait" /\ ~req'[d].maintain => jar'[d] = 0
    BY DEF OlderWiped
  <2>1. CASE d = c
    BY <1>6, <2>1
  <2>2. CASE d # c
    <3>1. jars \in Nat /\ jar[d] \in Nat /\ jar[d] <= jars /\ jars' = jars
      BY <1>2 DEF ToolType, JarsKept
    <3>2. \A j \in 1 .. jars - 1 : cookies[j] \subseteq cookies'[j]
      BY <1>3, <3>1, JarsBounded
    <3>3. \A j \in 1 .. jar[d] - 1 : cookies[j] \subseteq cookies'[j]
      BY <3>1, <3>2
    <3> QED
      BY <1>2, <1>6, <2>2, <3>1, <3>2, <3>3 DEF OlderWiped
  <2> QED
    BY <2>1, <2>2
<1>10. T!ScopeKept'
  BY <1>1, <1>2 DEF T!ScopeKept, ToolType
<1> QED
  BY <1>5, <1>7, <1>8, <1>9, <1>10 DEF ToolInv

\* Before a call takes a client, its steps touch neither jars nor cookies.
LEMMA ToolAdvances ==
  ASSUME ToolInv, NEW c \in Calls, NEW l \in {"check", "count", "clear", "client"},
         tpc[c] \in {"idle", "check", "count"}, tpc' = [tpc EXCEPT ![c] = l],
         req' \in [Calls -> [maintain : BOOLEAN, clear : BOOLEAN]],
         \A d \in Calls : d # c => req'[d] = req[d],
         l = "client" => ~req'[c].clear,
         tsent' = tsent, countRequests' \in Nat,
         UNCHANGED <<client, jars, cookies, jar, hops, wiped>>
  PROVE  ToolType' /\ JarsKept' /\ OlderWiped'
<1>1. ToolType /\ JarsKept /\ OlderWiped
  BY DEF ToolInv
<1>2. JarNumbers' = JarNumbers /\ l \in Steps
  BY DEF JarNumbers, Steps
<1>3. ToolType'
  BY <1>1, <1>2 DEF ToolType
<1>4. \A d \in Calls : /\ d = c => tpc'[d] = l
                       /\ d # c => tpc'[d] = tpc[d]
  BY <1>1 DEF ToolType
<1>5. JarsKept'
  <2>1. jars <= 1 + Cardinality(At({"client", "wait", "returned"})')
    <3> DEFINE S == {"client", "wait", "returned"}
    <3>1. tpc[c] \notin S
      OBVIOUS
    <3> HIDE DEF S
    <3>2. /\ Cardinality(At(S)) \in Nat /\ Cardinality(At(S)') \in Nat
          /\ l \notin S => Cardinality(At(S)') = Cardinality(At(S))
          /\ l \in S => Cardinality(At(S)') = Cardinality(At(S)) + 1
      BY <1>1, <1>2, <3>1, Moved, Zenon
    <3>3. jars \in Nat /\ jars <= 1 + Cardinality(At(S))
      BY <1>1 DEF S, JarsKept, ToolType
    <3>4. jars <= 1 + Cardinality(At(S)')
      BY <3>2, <3>3
    <3> QED
      BY <3>4 DEF S
  <2>2. \A j \in JarNumbers : \A d \in cookies[j] :
          tpc'[d] = "returned" \/ (tpc'[d] = "wait" /\ jar[d] = j)
    BY <1>1, <1>4 DEF JarsKept, ToolType
  <2> QED
    BY <1>1, <1>2, <2>1, <2>2 DEF JarsKept
<1>6. OlderWiped'
  <2> SUFFICES ASSUME NEW d \in Calls
               PROVE  /\ req'[d].clear /\ tpc'[d] = "client" =>
                           \A x \in wiped[d] : \E j \in 1 .. jars - 1 : x \in cookies[j]
                      /\ req'[d].clear /\ tpc'[d] = "wait" /\ jar[d] # 0 =>
                           \A x \in wiped[d] : \E j \in 1 .. jar[d] - 1 : x \in cookies[j]
                      /\ tpc'[d] = "wait" /\ ~req'[d].maintain => jar[d] = 0
    BY DEF OlderWiped
  <2>1. CASE d = c
    BY <1>4, <2>1
  <2>2. CASE d # c
    BY <1>1, <1>4, <2>2 DEF OlderWiped
  <2> QED
    BY <2>1, <2>2
<1> QED
  BY <1>3, <1>5, <1>6

\* What the counts of RequestsCounted become when one call moves.
LEMMA CountsMoved ==
  ASSUME ToolInv, NEW c \in Calls, NEW l \in Steps, tpc' = [tpc EXCEPT ![c] = l],
         NEW S \in {{"clear", "client"}, {"count"}, {"check", "count", "clear", "client", "wait"}}
  PROVE  /\ Cardinality(At(S)) \in Nat /\ Cardinality(At(S)') \in Nat
         /\ tpc[c] \in S /\ l \in S => Cardinality(At(S)') = Cardinality(At(S))
         /\ tpc[c] \notin S /\ l \notin S => Cardinality(At(S)') = Cardinality(At(S))
         /\ tpc[c] \notin S /\ l \in S => Cardinality(At(S)') = Cardinality(At(S)) + 1
         /\ tpc[c] \in S /\ l \notin S => Cardinality(At(S)') = Cardinality(At(S)) - 1
<1>1. ToolType
  BY DEF ToolInv
<1> QED
  BY <1>1, Moved, Zenon

LEMMA CountFacts ==
  ASSUME ToolInv
  PROVE  /\ Cardinality(tsent) \in Nat /\ IsFiniteSet(tsent) /\ countRequests \in Nat
         /\ Parallel \in Nat \ {0} /\ MaxRequests \in Int
         /\ T!InFlight = At({"check", "count", "clear", "client", "wait"})
         /\ T!Cardinality(T!InFlight) = Cardinality(T!InFlight)
<1>1. tsent \subseteq Calls /\ countRequests \in Nat /\ ToolType
  BY DEF ToolInv, ToolType
<1>2. Cardinality(tsent) \in Nat /\ IsFiniteSet(tsent)
  BY <1>1, CallsFinite, FS_Subset, FS_CardinalityType
<1>3. Parallel \in Nat \ {0} /\ MaxRequests \in Int
  BY AgenticAssumption DEF AgenticAssumption, T!ToolParameters
<1> QED
  BY <1>1, <1>2, <1>3, ToolTerms, SameCardinality

LEMMA CallKept ==
  ASSUME ToolInv, NEW c \in Calls, T!Call(c)
  PROVE  ToolInv'
<1>1. CASE T!Return(c, "error")
  BY <1>1, ToolReturns DEF T!Call
<1>2. CASE /\ T!Continue(c, "check")
           /\ \E m, w \in BOOLEAN : req' = [req EXCEPT ![c] = [maintain |-> m, clear |-> w]]
           /\ UNCHANGED <<jar, hops, wiped>>
  <2>1. /\ tpc' = [tpc EXCEPT ![c] = "check"] /\ tpc[c] = "idle"
        /\ T!Cardinality(T!InFlight) < Parallel
        /\ UNCHANGED <<countRequests, client, jars, cookies, jar, hops, wiped, tsent, asked>>
    BY <1>2 DEF T!Call, T!Continue, T!Goto
  <2>2. ToolType
    BY DEF ToolInv
  <2>3. /\ req' \in [Calls -> [maintain : BOOLEAN, clear : BOOLEAN]]
        /\ \A d \in Calls : d # c => req'[d] = req[d]
    BY <1>2, <2>2 DEF ToolType
  <2>4. ToolType' /\ JarsKept' /\ OlderWiped'
    BY <2>1, <2>2, <2>3, ToolAdvances DEF ToolType
  <2>5. RequestsCounted'
    <3> DEFINE A == At({"clear", "client"})
               B == At({"count"})
               F == At({"check", "count", "clear", "client", "wait"})
    <3>1. /\ Cardinality(A') = Cardinality(A) /\ Cardinality(B') = Cardinality(B)
          /\ Cardinality(F') = Cardinality(F) + 1 /\ Cardinality(F) \in Nat
      <4>1. "check" \in Steps
        BY DEF Steps
      <4>2. Cardinality(A') = Cardinality(A)
        BY <2>1, <4>1, CountsMoved
      <4>3. Cardinality(B') = Cardinality(B)
        BY <2>1, <4>1, CountsMoved
      <4>4. Cardinality(F') = Cardinality(F) + 1 /\ Cardinality(F) \in Nat
        BY <2>1, <4>1, CountsMoved
      <4> QED
        BY <4>2, <4>3, <4>4
    <3>2. T!InFlight = F /\ T!InFlight' = F'
      BY <2>2, <2>4 DEF T!InFlight, At, ToolType, Steps
    <3>3. \A d \in tsent : tpc'[d] \in {"wait", "returned"}
      BY <2>1, <2>2 DEF ToolInv, RequestsCounted, ToolType
    <3> HIDE DEF A, B, F
    <3>4. Cardinality(F') <= Parallel
      BY <2>1, <3>1, <3>2, CountFacts
    <3>5. RequestsCounted
      BY DEF ToolInv
    <3> QED
      BY <2>1, <3>1, <3>2, <3>3, <3>4, <3>5 DEF RequestsCounted, A, B
  <2>6. T!ScopeKept'
    BY <2>1 DEF ToolInv, T!ScopeKept
  <2> QED
    BY <2>4, <2>5, <2>6 DEF ToolInv
<1> QED
  BY <1>1, <1>2 DEF T!Call

LEMMA CheckKept ==
  ASSUME ToolInv, NEW c \in Calls, T!CheckLimit(c)
  PROVE  ToolInv'
<1>1. CASE T!Return(c, "error") /\ asked' = asked
  BY <1>1, ToolReturns DEF T!CheckLimit
<1>2. CASE /\ ~T!LimitReached
           /\ \E p \in T!Paths :
                /\ ~T!IsURLPathForbidden(T!Requested(p), T!Options)
                /\ T!Continue(c, "count")
                /\ asked' = asked \cup {T!Requested(p)}
                /\ UNCHANGED <<req, jar, hops, wiped>>
  <2>1. /\ tpc' = [tpc EXCEPT ![c] = "count"] /\ tpc[c] = "check"
        /\ ~(countRequests >= MaxRequests)
        /\ UNCHANGED <<countRequests, client, jars, cookies, req, jar, hops, wiped, tsent>>
    BY <1>2 DEF T!CheckLimit, T!Continue, T!Goto, T!LimitReached
  <2>2. ToolType
    BY DEF ToolInv
  <2>3. ToolType' /\ JarsKept' /\ OlderWiped'
    BY <2>1, <2>2, ToolAdvances DEF ToolType
  <2>4. RequestsCounted'
    <3> DEFINE A == At({"clear", "client"})
               B == At({"count"})
               F == At({"check", "count", "clear", "client", "wait"})
    <3>1. /\ Cardinality(A') = Cardinality(A) /\ Cardinality(F') = Cardinality(F)
          /\ Cardinality(B') \in Nat /\ Cardinality(F') \in Nat
      <4>1. "count" \in Steps
        BY DEF Steps
      <4>2. Cardinality(A') = Cardinality(A)
        BY <2>1, <4>1, CountsMoved
      <4>3. Cardinality(B') \in Nat
        BY <2>1, <4>1, CountsMoved
      <4>4. Cardinality(F') = Cardinality(F) /\ Cardinality(F') \in Nat
        BY <2>1, <4>1, CountsMoved
      <4> QED
        BY <4>2, <4>3, <4>4
    <3>2. T!InFlight = F /\ T!InFlight' = F'
      BY <2>2, <2>3 DEF T!InFlight, At, ToolType, Steps
    <3>3. \A d \in tsent : tpc'[d] \in {"wait", "returned"}
      BY <2>1, <2>2 DEF ToolInv, RequestsCounted, ToolType
    <3>4. Cardinality(B') <= Cardinality(F')
      <4>1. B' \subseteq F' /\ F' \subseteq Calls
        BY DEF At
      <4> QED
        BY <4>1, CallsFinite, FS_Subset
    <3> HIDE DEF A, B, F
    <3>5. RequestsCounted
      BY DEF ToolInv
    <3>6. Cardinality(F') <= Parallel
      BY <3>1, <3>2, <3>5 DEF RequestsCounted
    <3>7. countRequests + Cardinality(B') <= MaxRequests + Parallel - 1
      BY <2>1, <3>1, <3>4, <3>6, CountFacts
    <3> QED
      BY <2>1, <3>1, <3>2, <3>3, <3>5, <3>6, <3>7 DEF RequestsCounted, A, B
  <2>5. T!ScopeKept'
    <3>1. PICK p \in T!Paths : /\ ~T!IsURLPathForbidden(T!Requested(p), T!Options)
                               /\ asked' = asked \cup {T!Requested(p)}
      BY <1>2
    <3> QED
      BY <2>1, <3>1, InScope DEF ToolInv, T!ScopeKept
  <2> QED
    BY <2>3, <2>4, <2>5 DEF ToolInv
<1> QED
  BY <1>1, <1>2 DEF T!CheckLimit

LEMMA CountKept ==
  ASSUME ToolInv, NEW c \in Calls, T!IncreaseRequestCount(c)
  PROVE  ToolInv'
<1>1. PICK l \in {"clear", "client"} :
        /\ tpc' = [tpc EXCEPT ![c] = l]
        /\ l = "client" => ~req[c].clear
  BY DEF T!IncreaseRequestCount, T!Continue, T!Goto
<1>2. /\ tpc[c] = "count" /\ countRequests' = countRequests + 1
      /\ UNCHANGED <<client, jars, cookies, req, jar, hops, wiped, tsent, asked>>
  BY DEF T!IncreaseRequestCount, T!Counted
<1>3. ToolType /\ RequestsCounted
  BY DEF ToolInv
<1>4. ToolType' /\ JarsKept' /\ OlderWiped'
  <2>1. /\ l \in {"check", "count", "clear", "client"} /\ tpc[c] \in {"idle", "check", "count"}
        /\ l = "client" => ~req'[c].clear
        /\ countRequests' \in Nat /\ req' \in [Calls -> [maintain : BOOLEAN, clear : BOOLEAN]]
        /\ \A d \in Calls : d # c => req'[d] = req[d]
    BY <1>1, <1>2, <1>3 DEF ToolType
  <2> QED
    BY <1>1, <1>2, <2>1, ToolAdvances, Zenon
<1>5. RequestsCounted'
  <2> DEFINE A == At({"clear", "client"})
             B == At({"count"})
             F == At({"check", "count", "clear", "client", "wait"})
  <2>1. /\ Cardinality(A') = Cardinality(A) + 1 /\ Cardinality(A) \in Nat
        /\ Cardinality(B') = Cardinality(B) - 1 /\ Cardinality(B) \in Nat
        /\ Cardinality(F') = Cardinality(F)
    <3>1. l \in Steps
      BY DEF Steps
    <3>2. Cardinality(A') = Cardinality(A) + 1 /\ Cardinality(A) \in Nat
      BY <1>1, <1>2, <3>1, CountsMoved
    <3>3. Cardinality(B') = Cardinality(B) - 1 /\ Cardinality(B) \in Nat
      BY <1>1, <1>2, <3>1, CountsMoved
    <3>4. Cardinality(F') = Cardinality(F)
      BY <1>1, <1>2, <3>1, CountsMoved
    <3> QED
      BY <3>2, <3>3, <3>4
  <2>2. T!InFlight = F /\ T!InFlight' = F'
    BY <1>3, <1>4 DEF T!InFlight, At, ToolType, Steps
  <2>3. \A d \in tsent : tpc'[d] \in {"wait", "returned"}
    BY <1>1, <1>2, <1>3 DEF RequestsCounted, ToolType
  <2> HIDE DEF A, B, F
  <2>4. /\ Cardinality(tsent) + Cardinality(A') <= countRequests'
        /\ MaxRequests >= 0 => countRequests' + Cardinality(B') <= MaxRequests + Parallel - 1
    <3>1. /\ Cardinality(tsent) + Cardinality(A) <= countRequests
          /\ MaxRequests >= 0 => countRequests + Cardinality(B) <= MaxRequests + Parallel - 1
      BY <1>3 DEF RequestsCounted, A, B
    <3> QED
      BY <1>2, <2>1, <3>1, CountFacts
  <2>5. Cardinality(F') <= Parallel
    BY <1>3, <2>1, <2>2 DEF RequestsCounted
  <2> QED
    BY <1>2, <2>2, <2>3, <2>4, <2>5 DEF RequestsCounted, A, B
<1>6. T!ScopeKept'
  BY <1>2 DEF ToolInv, T!ScopeKept
<1> QED
  BY <1>4, <1>5, <1>6 DEF ToolInv

\* The new jar is empty, and everything set so far is in older ones.
LEMMA ClearKept ==
  ASSUME ToolInv, NEW c \in Calls, T!Clear(c)
  PROVE  ToolInv'
<1>1. CASE T!Return(c, "error") /\ UNCHANGED <<client, jars>>
  BY <1>1, ToolReturns DEF T!Clear
<1>2. CASE /\ T!ClearSession(c)
           /\ T!Continue(c, "client")
           /\ wiped' = [wiped EXCEPT ![c] = UNION {cookies[j] : j \in 1 .. jars}]
           /\ UNCHANGED <<req, jar, hops>>
  <2>1. /\ tpc' = [tpc EXCEPT ![c] = "client"] /\ tpc[c] = "clear"
        /\ jars' = jars + 1 /\ client' = jars + 1
        /\ UNCHANGED <<countRequests, cookies, req, jar, hops, tsent, asked>>
    BY <1>2 DEF T!Clear, T!Continue, T!Goto, T!ClearSession
  <2>2. ToolType /\ RequestsCounted /\ JarsKept /\ OlderWiped
    BY DEF ToolInv
  <2>3. \A d \in Calls : /\ d = c => tpc'[d] = "client" /\ wiped'[d] = UNION {cookies[j] : j \in 1 .. jars}
                         /\ d # c => tpc'[d] = tpc[d] /\ wiped'[d] = wiped[d]
    BY <1>2, <2>1, <2>2 DEF ToolType
  <2>4. jars \in Nat /\ \A j \in 1 .. jars : j \in JarNumbers
    BY <2>2, JarsBounded DEF ToolType
  <2>5. JarNumbers' = JarNumbers
    BY DEF JarNumbers
  <2>6. ToolType'
    <3>1. UNION {cookies[j] : j \in 1 .. jars} \subseteq Calls
      BY <2>2, <2>4 DEF ToolType
    <3>2. wiped' \in [Calls -> SUBSET Calls]
      BY <1>2, <2>2, <3>1 DEF ToolType
    <3> QED
      BY <2>1, <2>2, <2>5, <3>2 DEF ToolType, Steps
  <2>7. RequestsCounted'
    <3> DEFINE A == At({"clear", "client"})
               B == At({"count"})
               F == At({"check", "count", "clear", "client", "wait"})
    <3>1. /\ Cardinality(A') = Cardinality(A) /\ Cardinality(B') = Cardinality(B)
          /\ Cardinality(F') = Cardinality(F)
      <4>1. "client" \in Steps
        BY DEF Steps
      <4>2. Cardinality(A') = Cardinality(A)
        BY <2>1, <4>1, CountsMoved
      <4>3. Cardinality(B') = Cardinality(B)
        BY <2>1, <4>1, CountsMoved
      <4>4. Cardinality(F') = Cardinality(F)
        BY <2>1, <4>1, CountsMoved
      <4> QED
        BY <4>2, <4>3, <4>4
    <3>2. T!InFlight = F /\ T!InFlight' = F'
      BY <2>2, <2>6 DEF T!InFlight, At, ToolType, Steps
    <3>3. \A d \in tsent : tpc'[d] \in {"wait", "returned"}
      BY <2>1, <2>2 DEF RequestsCounted, ToolType
    <3> HIDE DEF A, B, F
    <3> QED
      BY <2>1, <2>2, <3>1, <3>2, <3>3 DEF RequestsCounted, A, B
  <2>8. JarsKept'
    <3>1. jars' <= 1 + Cardinality(At({"client", "wait", "returned"})')
      <4> DEFINE S == {"client", "wait", "returned"}
      <4>1. "client" \in Steps /\ "client" \in S /\ tpc[c] \notin S
        BY <2>1 DEF Steps
      <4> HIDE DEF S
      <4>2. Cardinality(At(S)) \in Nat /\ Cardinality(At(S)') = Cardinality(At(S)) + 1
        BY <2>1, <2>2, <4>1, Moved, Zenon
      <4>3. jars <= 1 + Cardinality(At(S))
        BY <2>2 DEF S, JarsKept
      <4>4. jars' <= 1 + Cardinality(At(S)')
        BY <2>1, <2>4, <4>2, <4>3
      <4> QED
        BY <4>4 DEF S
    <3>2. \A d \in Calls : jar[d] <= jars'
      BY <2>1, <2>2, <2>4 DEF JarsKept, ToolType
    <3>3. \A j \in JarNumbers : \A d \in cookies[j] :
            tpc'[d] = "returned" \/ (tpc'[d] = "wait" /\ jar[d] = j)
      BY <2>1, <2>2, <2>3 DEF JarsKept, ToolType
    <3> QED
      BY <2>1, <2>2, <2>5, <3>1, <3>2, <3>3 DEF JarsKept
  <2>9. OlderWiped'
    <3> SUFFICES ASSUME NEW d \in Calls
                 PROVE  /\ req[d].clear /\ tpc'[d] = "client" =>
                             \A x \in wiped'[d] : \E j \in 1 .. jars' - 1 : x \in cookies[j]
                        /\ req[d].clear /\ tpc'[d] = "wait" /\ jar[d] # 0 =>
                             \A x \in wiped'[d] : \E j \in 1 .. jar[d] - 1 : x \in cookies[j]
                        /\ tpc'[d] = "wait" /\ ~req[d].maintain => jar[d] = 0
      BY <2>1 DEF OlderWiped
    <3>1. jars' - 1 = jars
      BY <2>1, <2>4
    <3>2. CASE d = c
      <4>1. \A x \in wiped'[d] : \E j \in 1 .. jars : x \in cookies[j]
        BY <2>3, <3>2
      <4> QED
        BY <2>3, <3>1, <3>2, <4>1
    <3>3. CASE d # c
      <4>1. \A j \in 1 .. jars - 1 : j \in 1 .. jars
        BY <2>4
      <4>2. req[d].clear /\ tpc[d] = "client" =>
              \A x \in wiped[d] : \E j \in 1 .. jars : x \in cookies[j]
        BY <2>2, <4>1 DEF OlderWiped
      <4>3. /\ req[d].clear /\ tpc[d] = "wait" /\ jar[d] # 0 =>
                 \A x \in wiped[d] : \E j \in 1 .. jar[d] - 1 : x \in cookies[j]
            /\ tpc[d] = "wait" /\ ~req[d].maintain => jar[d] = 0
        BY <2>2 DEF OlderWiped
      <4> QED
        BY <2>3, <3>1, <3>3, <4>2, <4>3
    <3> QED
      BY <3>2, <3>3
  <2>10. T!ScopeKept'
    BY <2>1 DEF ToolInv, T!ScopeKept
  <2> QED
    BY <2>6, <2>7, <2>8, <2>9, <2>10 DEF ToolInv
<1> QED
  BY <1>1, <1>2 DEF T!Clear

LEMMA SendKept ==
  ASSUME ToolInv, NEW c \in Calls, T!SendRequest(c)
  PROVE  ToolInv'
<1>1. /\ tpc' = [tpc EXCEPT ![c] = "wait"] /\ tpc[c] = "client"
      /\ jar' = [jar EXCEPT ![c] = T!GetClient(c)]
      /\ tsent' = tsent \cup {c}
      /\ UNCHANGED <<countRequests, client, jars, cookies, req, hops, wiped, asked>>
  BY DEF T!SendRequest, T!Continue, T!Goto
<1>2. ToolType /\ RequestsCounted /\ JarsKept /\ OlderWiped
  BY DEF ToolInv
<1>3. /\ T!GetClient(c) \in Nat /\ T!GetClient(c) <= jars
      /\ req[c].maintain => T!GetClient(c) = jars
      /\ ~req[c].maintain => T!GetClient(c) = 0
  <2>1. CASE req[c].maintain
    BY <1>2, <2>1 DEF T!GetClient, ToolType
  <2>2. CASE ~req[c].maintain
    BY <1>2, <2>2 DEF T!GetClient, ToolType
  <2> QED
    BY <2>1, <2>2
<1>4. \A d \in Calls : /\ d = c => tpc'[d] = "wait" /\ jar'[d] = T!GetClient(c)
                       /\ d # c => tpc'[d] = tpc[d] /\ jar'[d] = jar[d]
  BY <1>1, <1>2 DEF ToolType
<1>5. JarNumbers' = JarNumbers
  BY DEF JarNumbers
<1>6. ToolType'
  BY <1>1, <1>2, <1>3, <1>5 DEF ToolType, Steps
<1>7. RequestsCounted'
  <2> DEFINE A == At({"clear", "client"})
             B == At({"count"})
             F == At({"check", "count", "clear", "client", "wait"})
  <2>1. /\ Cardinality(A') = Cardinality(A) - 1 /\ Cardinality(A) \in Nat
        /\ Cardinality(B') = Cardinality(B) /\ Cardinality(F') = Cardinality(F)
    <3>1. "wait" \in Steps
      BY DEF Steps
    <3>2. Cardinality(A') = Cardinality(A) - 1 /\ Cardinality(A) \in Nat
      BY <1>1, <3>1, CountsMoved
    <3>3. Cardinality(B') = Cardinality(B)
      BY <1>1, <3>1, CountsMoved
    <3>4. Cardinality(F') = Cardinality(F)
      BY <1>1, <3>1, CountsMoved
    <3> QED
      BY <3>2, <3>3, <3>4
  <2>2. T!InFlight = F /\ T!InFlight' = F'
    BY <1>2, <1>6 DEF T!InFlight, At, ToolType, Steps
  <2>3. \A d \in tsent' : tpc'[d] \in {"wait", "returned"}
    BY <1>1, <1>2, <1>4 DEF RequestsCounted, ToolType
  <2>4. Cardinality(tsent') = Cardinality(tsent) + 1
    <3>1. c \notin tsent
      BY <1>1, <1>2 DEF RequestsCounted
    <3> QED
      BY <1>1, <3>1, CountFacts, FS_AddElement
  <2> HIDE DEF A, B, F
  <2>5. Cardinality(tsent') + Cardinality(A') <= countRequests
    <3>1. Cardinality(tsent) + Cardinality(A) <= countRequests
      BY <1>2 DEF RequestsCounted, A
    <3> QED
      BY <2>1, <2>4, <3>1, CountFacts
  <2> QED
    BY <1>1, <1>2, <2>1, <2>2, <2>3, <2>5 DEF RequestsCounted, A, B
<1>8. JarsKept'
  <2>1. jars <= 1 + Cardinality(At({"client", "wait", "returned"})')
    <3> DEFINE S == {"client", "wait", "returned"}
    <3>1. "wait" \in Steps /\ "wait" \in S /\ tpc[c] \in S
      BY <1>1 DEF Steps
    <3> HIDE DEF S
    <3>2. Cardinality(At(S)') = Cardinality(At(S))
      BY <1>1, <1>2, <3>1, Moved, Zenon
    <3> QED
      BY <1>2, <3>2 DEF S, JarsKept
  <2>2. \A d \in Calls : jar'[d] <= jars
    BY <1>2, <1>3, <1>4 DEF JarsKept
  <2>3. \A j \in JarNumbers : \A d \in cookies[j] :
          tpc'[d] = "returned" \/ (tpc'[d] = "wait" /\ jar'[d] = j)
    BY <1>1, <1>2, <1>4 DEF JarsKept, ToolType
  <2> QED
    BY <1>1, <1>2, <1>5, <2>1, <2>2, <2>3 DEF JarsKept
<1>9. OlderWiped'
  <2> SUFFICES ASSUME NEW d \in Calls
               PROVE  /\ req[d].clear /\ tpc'[d] = "client" =>
                           \A x \in wiped[d] : \E j \in 1 .. jars - 1 : x \in cookies[j]
                      /\ req[d].clear /\ tpc'[d] = "wait" /\ jar'[d] # 0 =>
                           \A x \in wiped[d] : \E j \in 1 .. jar'[d] - 1 : x \in cookies[j]
                      /\ tpc'[d] = "wait" /\ ~req[d].maintain => jar'[d] = 0
    BY <1>1 DEF OlderWiped
  <2>1. CASE d = c
    <3>1. jar'[d] # 0 => jar'[d] = jars
      BY <1>2, <1>3, <1>4, <2>1 DEF ToolType
    <3>2. req[d].clear => \A x \in wiped[d] : \E j \in 1 .. jars - 1 : x \in cookies[j]
      BY <1>1, <1>2, <2>1 DEF OlderWiped
    <3> QED
      BY <1>3, <1>4, <2>1, <3>1, <3>2
  <2>2. CASE d # c
    BY <1>2, <1>4, <2>2 DEF OlderWiped
  <2> QED
    BY <2>1, <2>2
<1>10. T!ScopeKept'
  BY <1>1 DEF ToolInv, T!ScopeKept
<1> QED
  BY <1>6, <1>7, <1>8, <1>9, <1>10 DEF ToolInv

LEMMA RedirectKept ==
  ASSUME ToolInv, NEW c \in Calls, T!Redirect(c)
  PROVE  ToolInv'
<1>1. /\ tpc[c] = "wait" /\ T!SetCookie(c)
      /\ hops' = [hops EXCEPT ![c] = @ + 1]
      /\ UNCHANGED <<countRequests, client, jars, tpc, req, jar, wiped, tsent>>
  BY DEF T!Redirect
<1>2. ToolType /\ RequestsCounted /\ JarsKept /\ OlderWiped
  BY DEF ToolInv
<1>3. /\ cookies' \in [JarNumbers -> SUBSET Calls]
      /\ cookies'[0] = {}
      /\ \A j \in JarNumbers :
           cookies[j] \subseteq cookies'[j]
           /\ \A d \in cookies'[j] : d \in cookies[j] \/ (d = c /\ j = jar[c])
      /\ \A i, j \in JarNumbers : i # j => cookies'[i] \cap cookies'[j] = {}
  BY <1>1, CookieSet
<1>4. JarNumbers' = JarNumbers
  BY DEF JarNumbers
<1>5. ToolType'
  BY <1>1, <1>2, <1>3, <1>4 DEF ToolType
<1>6. RequestsCounted'
  <2>1. \A S : At(S)' = At(S)
    BY <1>1 DEF At
  <2>2. T!InFlight' = T!InFlight
    BY <1>1 DEF T!InFlight
  <2> QED
    BY <1>1, <1>2, <2>1, <2>2 DEF RequestsCounted
<1>7. JarsKept'
  <2>1. jars <= 1 + Cardinality(At({"client", "wait", "returned"})')
    <3>1. At({"client", "wait", "returned"})' = At({"client", "wait", "returned"})
      BY <1>1 DEF At
    <3> QED
      BY <1>2, <3>1 DEF JarsKept
  <2>2. \A j \in JarNumbers : \A d \in cookies'[j] :
          tpc[d] = "returned" \/ (tpc[d] = "wait" /\ jar[d] = j)
    BY <1>1, <1>2, <1>3 DEF JarsKept
  <2> QED
    BY <1>1, <1>2, <1>3, <1>4, <2>1, <2>2 DEF JarsKept
<1>8. OlderWiped'
  <2> SUFFICES ASSUME NEW d \in Calls
               PROVE  /\ req[d].clear /\ tpc[d] = "client" =>
                           \A x \in wiped[d] : \E j \in 1 .. jars - 1 : x \in cookies'[j]
                      /\ req[d].clear /\ tpc[d] = "wait" /\ jar[d] # 0 =>
                           \A x \in wiped[d] : \E j \in 1 .. jar[d] - 1 : x \in cookies'[j]
                      /\ tpc[d] = "wait" /\ ~req[d].maintain => jar[d] = 0
    BY <1>1 DEF OlderWiped
  <2>1. jars \in Nat /\ jar[d] \in Nat /\ jar[d] <= jars
    BY <1>2 DEF ToolType, JarsKept
  <2>2. \A j \in 1 .. jars - 1 : cookies[j] \subseteq cookies'[j]
    BY <1>3, <2>1, JarsBounded
  <2>3. \A j \in 1 .. jar[d] - 1 : cookies[j] \subseteq cookies'[j]
    BY <2>1, <2>2
  <2> QED
    BY <1>2, <2>2, <2>3 DEF OlderWiped
<1>9. T!ScopeKept'
  <2>1. PICK u \in Urls : /\ T!CheckRedirect(u, hops[c] + 1, T!Options, MaxRedirects) = "follow"
                          /\ asked' = asked \cup {u}
    BY DEF T!Redirect
  <2>2. ~(hops[c] + 1 >= MaxRedirects) /\ MaxRedirects \in Nat
    BY <2>1, InScope, AgenticAssumption DEF AgenticAssumption, T!ToolParameters
  <2>3. \A d \in Calls : hops'[d] = 0 \/ hops'[d] + 1 <= MaxRedirects
    <3> SUFFICES ASSUME NEW d \in Calls PROVE hops'[d] = 0 \/ hops'[d] + 1 <= MaxRedirects
      OBVIOUS
    <3>1. CASE d = c
      BY <1>1, <1>2, <2>2, <3>1 DEF ToolType
    <3>2. CASE d # c
      BY <1>1, <1>2, <3>2 DEF ToolType, ToolInv, T!ScopeKept
    <3> QED
      BY <3>1, <3>2
  <2>4. \A v \in asked' : v \in asked \/ v = u
    BY <2>1
  <2> QED
    BY <2>1, <2>3, <2>4, InScope DEF ToolInv, T!ScopeKept
<1> QED
  BY <1>5, <1>6, <1>7, <1>8, <1>9 DEF ToolInv

LEMMA AnswerKept ==
  ASSUME ToolInv, NEW c \in Calls, T!Answer(c)
  PROVE  ToolInv'
<1>1. PICK what : T!Return(c, what)
  BY DEF T!Answer
<1>2. cookies' = cookies \/ (tpc[c] = "wait" /\ T!SetCookie(c))
  BY DEF T!Answer
<1> QED
  BY <1>1, <1>2, ToolReturns DEF T!Answer

LEMMA ToolStep ==
  ASSUME ToolInv, NEW c \in Calls, T!CallStep(c)
  PROVE  ToolInv'
BY CallKept, CheckKept, CountKept, ClearKept, SendKept, RedirectKept, AnswerKept
   DEF T!CallStep

LEMMA ToolStays ==
  ASSUME ToolInv, UNCHANGED toolVars
  PROVE  ToolInv'
<1>1. /\ \A S : At(S)' = At(S)
      /\ T!InFlight' = T!InFlight
      /\ JarNumbers' = JarNumbers
  BY DEF toolVars, At, T!InFlight, JarNumbers
<1>2. ToolType' /\ OlderWiped' /\ T!ScopeKept'
  BY <1>1 DEF toolVars, ToolInv, ToolType, OlderWiped, T!ScopeKept
<1>3. RequestsCounted'
  BY <1>1 DEF toolVars, ToolInv, RequestsCounted
<1>4. JarsKept'
  BY <1>1 DEF toolVars, ToolInv, JarsKept
<1> QED
  BY <1>2, <1>3, <1>4 DEF ToolInv

LEMMA ToolKeeps ==
  ASSUME ToolInv
  PROVE  T!ToolKept
<1>1. ToolType /\ RequestsCounted /\ JarsKept /\ OlderWiped /\ T!ScopeKept
  BY DEF ToolInv
<1>2. T!OvershootBounded
  <2> DEFINE A == Cardinality(At({"clear", "client"}))
             B == Cardinality(At({"count"}))
  <2>1. A \in Nat /\ B \in Nat
    <3>1. At({"clear", "client"}) \subseteq Calls /\ At({"count"}) \subseteq Calls
      BY DEF At
    <3> QED
      BY <3>1, CallsFinite, FS_Subset, FS_CardinalityType
  <2>2. /\ Cardinality(tsent) + A <= countRequests
        /\ MaxRequests >= 0 => countRequests + B <= MaxRequests + Parallel - 1
    BY <1>1 DEF RequestsCounted
  <2> HIDE DEF A, B
  <2>3. /\ Cardinality(tsent) <= countRequests
        /\ MaxRequests >= 0 => Cardinality(tsent) <= MaxRequests + Parallel - 1
    BY <2>1, <2>2, CountFacts
  <2> QED
    BY <2>3, SameCardinality DEF T!OvershootBounded
<1>3. T!SessionWiped
  <2> SUFFICES ASSUME NEW c \in Calls, tpc[c] = "wait"
               PROVE  /\ req[c].clear => cookies[jar[c]] \cap wiped[c] = {}
                      /\ ~req[c].maintain => cookies[jar[c]] = {}
    BY DEF T!SessionWiped
  <2>1. ~req[c].maintain => cookies[jar[c]] = {}
    BY <1>1 DEF OlderWiped, JarsKept
  <2>2. ASSUME req[c].clear, jar[c] # 0, NEW d \in cookies[jar[c]] \cap wiped[c]
        PROVE  FALSE
    <3>1. PICK j \in 1 .. jar[c] - 1 : d \in cookies[j]
      BY <1>1, <2>2 DEF OlderWiped
    <3>2. jar[c] \in 0 .. jars /\ j \in 0 .. jars /\ j # jar[c]
      BY <1>1, <3>1 DEF ToolType, JarsKept
    <3>3. jar[c] \in JarNumbers /\ j \in JarNumbers
      BY <3>2, JarsBounded
    <3> QED
      BY <1>1, <2>2, <3>1, <3>2, <3>3 DEF JarsKept
  <2>3. jar[c] = 0 => cookies[jar[c]] = {}
    BY <1>1 DEF JarsKept
  <2> QED
    BY <2>1, <2>2, <2>3
<1> QED
  BY <1>1, <1>2, <1>3 DEF T!ToolKept

\* The detector only starts, uses and replaces the tool.
LEMMA ToolUsed ==
  ASSUME Next
  PROVE  UNCHANGED toolVars \/ T!NewTool \/ \E c \in Calls : T!CallStep(c)
<1>1. CASE Detect
  BY <1>1 DEF Detect
<1>2. CASE \E c \in Calls : Agent(c)
  BY <1>2 DEF Agent
<1>3. CASE EndTurn
  BY <1>3 DEF EndTurn, Refuse
<1>4. CASE Request
  BY <1>4 DEF Request
<1>5. CASE LoginFails
  BY <1>5 DEF LoginFails, Refuse
<1>6. CASE Token
  BY <1>6 DEF Token
<1>7. CASE Verified
  BY <1>7 DEF Verified, Refuse
<1>8. CASE Candidate
  BY <1>8 DEF Candidate
<1>9. CASE Baseline
  BY <1>9 DEF Baseline
<1>10. CASE Judge
  BY <1>10 DEF Judge
<1>11. CASE Terminated
  BY <1>11 DEF Terminated, vars, toolVars
<1> QED
  BY <1>1, <1>2, <1>3, <1>4, <1>5, <1>6, <1>7, <1>8, <1>9, <1>10, <1>11 DEF Next

\* Whatever an agent does with its tool, in whatever order its parallel calls
\* take the mutex: requests pass the limit by fewer than run in parallel, no
\* cookie outlives the clearing of its session, and nothing but the service and
\* its allowed paths is asked.
THEOREM ToolIsKept == Spec => []ToolKept
<1>1. Init => ToolInv
  BY ToolStart DEF Init
<1>2. ToolInv /\ [Next]_vars => ToolInv'
  <2> SUFFICES ASSUME ToolInv, [Next]_vars PROVE ToolInv'
    OBVIOUS
  <2>1. CASE Next
    BY <2>1, ToolUsed, ToolStays, ToolRenewed, ToolStep
  <2>2. CASE UNCHANGED vars
    BY <2>2, ToolStays DEF vars, toolVars
  <2> QED
    BY <2>1, <2>2
<1>3. ToolInv => ToolKept
  BY ToolKeeps DEF ToolKept
<1> QED
  BY <1>1, <1>2, <1>3, PTL DEF Spec

-----------------------------------------------------------------------------
(* The retries of a request.                                               *)

\* The initial backoff, doubled before the n-th attempt.
Base(n) == Backoff * Second * Powers[n]

\* How often the loop has sent, was limited and has waited, by its step.
RetryCounts ==
  /\ rpc \in {"send", "limited", "wait", "returned"}
  /\ attempt \in 1 .. R!maxAttempts
  /\ body \in {"none", "fresh", "used"}
  /\ answers \in Seq(R!Asks)
  /\ waits \in Seq(Int)
  /\ rsent \in Seq({"none", "fresh"})
  /\ rpc = "send" =>
       /\ Len(rsent) = attempt - 1 /\ Len(answers) = attempt - 1 /\ Len(waits) = attempt - 1
       /\ body # "used"
  /\ rpc = "limited" =>
       Len(rsent) = attempt /\ Len(answers) = attempt /\ Len(waits) = attempt - 1
  /\ rpc = "wait" =>
       /\ Len(rsent) = attempt /\ Len(answers) = attempt /\ Len(waits) = attempt
       /\ body # "used" /\ attempt < R!maxAttempts
  /\ rpc = "returned" =>
       Len(answers) >= Len(rsent) - 1 /\ Len(waits) <= Len(answers) /\ Len(waits) < R!maxAttempts

\* The backoff is right as long as it has not wrapped around.
BackoffDoubles ==
  /\ backoff \in Int
  /\ Base(attempt) < Limit => backoff = Base(attempt)

DelayRight(n) ==
  /\ R!Asked(answers[n]) < Limit => R!Asked(answers[n]) <= R!maxRetryAfter
  /\ answers[n].kind = "none" /\ Base(n) < Limit => waits[n] = R!Min({Base(n), R!maxRetryAfter})
  /\ answers[n].kind # "none" /\ R!Asked(answers[n]) < Limit => waits[n] = R!Asked(answers[n])

DelaysRight == \A n \in 1 .. Len(waits) : DelayRight(n)

GaveUp ==
  rret = "rateLimited" =>
    \/ Len(rsent) = R!maxAttempts
    \/ R!Asked(answers[Len(answers)]) > R!maxRetryAfter

RetryInv ==
  RetryCounts /\ BackoffDoubles /\ DelaysRight /\ GaveUp /\ (rpc # "returned" => rret = "none")

LEMMA RetrySettings ==
  /\ Limit \in Nat \ {0} /\ Second \in Nat \ {0} /\ Attempts \in Int
  /\ R!maxAttempts \in Nat \ {0}
  /\ R!maxRetryAfter \in Nat /\ R!maxRetryAfter < Limit
  /\ Backoff * Second \in Nat /\ Backoff * Second < Limit
  /\ Seconds \subseteq Nat /\ Dates \subseteq 0 .. Limit - 1
  /\ Powers \in [1 .. R!maxAttempts -> Nat]
  /\ \A n \in 1 .. R!maxAttempts : Powers[n] = IF n = 1 THEN 1 ELSE 2 * Powers[n - 1]
<1>1. R!RetryParameters
  BY AgenticAssumption DEF AgenticAssumption
<1>2. R!maxAttempts \in Nat \ {0}
  <2>1. Attempts \in Int
    BY <1>1 DEF R!RetryParameters
  <2>2. \E x \in {Attempts, 1} : \A y \in {Attempts, 1} : x >= y
    BY <2>1
  <2> QED
    BY <2>1, <2>2 DEF R!maxAttempts, R!Max
<1>3. R!maxRetryAfter \in Nat /\ R!maxRetryAfter < Limit
  BY <1>1 DEF R!RetryParameters, R!maxRetryAfter
<1> QED
  BY <1>1, <1>2, <1>3 DEF R!RetryParameters

LEMMA Wrapped ==
  /\ \A x \in Int : R!Wrap(x) \in Int
  /\ \A x \in Nat : R!Wrap(x) <= x
  /\ \A x \in Nat : x < Limit => R!Wrap(x) = x
<1>1. Limit \in Nat \ {0}
  BY RetrySettings
<1>2. \A x \in Int : (x + Limit) % (2 * Limit) \in Nat
  BY <1>1
<1>3. \A x \in Nat : (x + Limit) % (2 * Limit) <= x + Limit
  BY <1>1
<1>4. \A x \in Nat : x < Limit => (x + Limit) % (2 * Limit) = x + Limit
  BY <1>1
<1> QED
  BY <1>1, <1>2, <1>3, <1>4 DEF R!Wrap

\* A delay that the server asks for is never too long by being longer than asked.
LEMMA DelayAsked ==
  ASSUME NEW ask \in R!Asks
  PROVE  /\ R!Asked(ask) \in Nat
         /\ R!Parsed(ask) => /\ ask.kind # "none"
                             /\ R!Delay(ask) \in Int /\ R!Delay(ask) <= R!Asked(ask)
                             /\ R!Asked(ask) < Limit => R!Delay(ask) = R!Asked(ask)
         /\ ~R!Parsed(ask) /\ R!Asked(ask) < Limit => ask.kind = "none" /\ R!Asked(ask) = 0
<1>4. /\ Limit \in Nat \ {0} /\ Second \in Nat \ {0}
      /\ Seconds \subseteq Nat /\ Dates \subseteq 0 .. Limit - 1
  BY RetrySettings
<1>1. CASE ask.kind = "none" /\ ask.n = 0
  BY <1>1, <1>4 DEF R!Asked, R!Parsed
<1>2. CASE ask.kind = "date" /\ ask.n \in Dates
  <2>1. ask.n \in 0 .. Limit - 1
    BY <1>2, <1>4
  <2>2. ask.n \in Nat
    BY <1>4, <2>1
  <2> QED
    BY <1>2, <2>2 DEF R!Asked, R!Parsed, R!Delay
<1>3. CASE ask.kind = "seconds" /\ ask.n \in Seconds
  <2>1. ask.n \in Nat
    BY <1>3, <1>4
  <2>2. \A x, y \in Nat : y # 0 => x * y \in Nat /\ x * y >= x
    OBVIOUS
  <2>3. R!Asked(ask) = ask.n * Second /\ R!Delay(ask) = R!Wrap(ask.n * Second)
    BY <1>3 DEF R!Asked, R!Delay
  <2> QED
    BY <1>3, <1>4, <2>1, <2>2, <2>3, Wrapped DEF R!Parsed
<1> QED
  BY <1>1, <1>2, <1>3 DEF R!Asks

LEMMA FirstBase ==
  Base(1) = Backoff * Second /\ 1 \in 1 .. R!maxAttempts /\ Base(1) \in Nat
<1>1. R!maxAttempts \in Nat \ {0} /\ Backoff * Second \in Nat
  BY RetrySettings
<1>2. 1 \in 1 .. R!maxAttempts
  BY <1>1
<1>3. Powers[1] = 1
  BY <1>2, RetrySettings
<1> QED
  BY <1>1, <1>2, <1>3 DEF Base

LEMMA RetryStart ==
  ASSUME R!Init
  PROVE  RetryInv
<1>1. /\ rpc = "send" /\ attempt = 1 /\ backoff = Backoff * Second
      /\ body \in {"none", "fresh"} /\ rret = "none"
      /\ answers = <<>> /\ waits = <<>> /\ rsent = <<>>
  BY DEF R!Init
<1>2. RetryCounts
  BY <1>1, FirstBase DEF RetryCounts
<1>3. BackoffDoubles
  BY <1>1, FirstBase DEF BackoffDoubles
<1> QED
  BY <1>1, <1>2, <1>3 DEF RetryInv, DelaysRight, GaveUp

LEMMA RequestRenewed ==
  ASSUME NEW b \in {"none", "fresh"}, R!NewRequest(b)
  PROVE  RetryInv'
<1>1. /\ rpc' = "send" /\ attempt' = 1 /\ backoff' = Backoff * Second
      /\ body' \in {"none", "fresh"} /\ rret' = "none"
      /\ answers' = <<>> /\ waits' = <<>> /\ rsent' = <<>>
  BY DEF R!NewRequest
<1>2. RetryCounts'
  BY <1>1, FirstBase DEF RetryCounts
<1>3. BackoffDoubles'
  BY <1>1, FirstBase DEF BackoffDoubles, Base
<1> QED
  BY <1>1, <1>2, <1>3 DEF RetryInv, DelaysRight, GaveUp

\* What was waited stays right while answers are only added.
LEMMA DelaysStay ==
  ASSUME RetryInv, waits' = waits,
         \A n \in 1 .. Len(waits) : answers'[n] = answers[n]
  PROVE  DelaysRight'
<1> SUFFICES ASSUME NEW n \in 1 .. Len(waits) PROVE DelayRight(n)'
  BY DEF DelaysRight
<1>1. DelayRight(n)
  BY DEF RetryInv, DelaysRight
<1> QED
  BY <1>1 DEF DelayRight, R!Asked, Base, R!maxRetryAfter

LEMMA SendRetries ==
  ASSUME RetryInv, R!Send
  PROVE  RetryInv'
<1>1. /\ rpc = "send" /\ rret = "none"
      /\ UNCHANGED <<attempt, backoff, waits>>
  BY DEF R!Send, RetryInv
<1>2. RetryCounts /\ BackoffDoubles
  BY DEF RetryInv
<1>3. BackoffDoubles'
  BY <1>1, <1>2 DEF BackoffDoubles, Base
<1>4. CASE /\ rpc' = "returned" /\ rret' = "answer" /\ answers' = answers
           /\ \/ rsent' = rsent /\ body' = body
              \/ /\ rsent' = Append(rsent, body)
                 /\ body' = IF body = "none" THEN "none" ELSE "used"
  <2>1. RetryCounts'
    <3>1. /\ body \in {"none", "fresh"} /\ body' \in {"none", "fresh", "used"}
          /\ attempt \in Nat /\ attempt <= R!maxAttempts /\ R!maxAttempts \in Nat
      <4>1. R!maxAttempts \in Nat
        BY RetrySettings
      <4>2. body \in {"none", "fresh"} /\ attempt \in 1 .. R!maxAttempts
        BY <1>1, <1>2 DEF RetryCounts
      <4>3. body' \in {"none", "fresh", "used"}
        BY <1>4, <4>2
      <4> QED
        BY <4>1, <4>2, <4>3
    <3>2. rsent' \in Seq({"none", "fresh"}) /\ Len(rsent') <= Len(rsent) + 1
      <4>1. rsent \in Seq({"none", "fresh"})
        BY <1>2 DEF RetryCounts
      <4>2. rsent' = rsent \/ rsent' = Append(rsent, body)
        BY <1>4
      <4> QED
        BY <3>1, <4>1, <4>2
    <3>3. Len(waits) = attempt - 1 /\ Len(answers) = attempt - 1 /\ Len(rsent) = attempt - 1
      BY <1>1, <1>2 DEF RetryCounts
    <3> QED
      BY <1>1, <1>2, <1>4, <3>1, <3>2, <3>3 DEF RetryCounts
  <2>2. DelaysRight'
    BY <1>1, <1>4, DelaysStay
  <2> QED
    BY <1>3, <1>4, <2>1, <2>2 DEF RetryInv, GaveUp
<1>5. CASE /\ rpc' = "limited" /\ rret' = rret
           /\ rsent' = Append(rsent, body)
           /\ body' = IF body = "none" THEN "none" ELSE "used"
           /\ \E ask \in R!Asks : answers' = Append(answers, ask)
  <2>1. PICK ask \in R!Asks : answers' = Append(answers, ask)
    BY <1>5
  <2>2. RetryCounts'
    BY <1>1, <1>2, <1>5, <2>1 DEF RetryCounts
  <2>3. DelaysRight'
    <3>1. \A n \in 1 .. Len(waits) : answers'[n] = answers[n]
      BY <1>1, <1>2, <2>1 DEF RetryCounts
    <3> QED
      BY <1>1, <3>1, DelaysStay
  <2> QED
    BY <1>1, <1>3, <1>5, <2>2, <2>3 DEF RetryInv, GaveUp
<1> QED
  BY <1>4, <1>5 DEF R!Send, R!Return

LEMMA LimitedRetries ==
  ASSUME RetryInv, R!Limited
  PROVE  RetryInv'
<1> DEFINE ask == answers[Len(answers)]
<1>1. /\ rpc = "limited" /\ rret = "none"
      /\ UNCHANGED <<attempt, backoff, answers, rsent>>
  BY DEF R!Limited, RetryInv
<1>2. RetryCounts /\ BackoffDoubles
  BY DEF RetryInv
<1>3. BackoffDoubles'
  BY <1>1, <1>2 DEF BackoffDoubles, Base
<1>4. /\ ask \in R!Asks /\ ask = answers[attempt] /\ attempt \in Nat \ {0}
      /\ Len(waits) = attempt - 1
  BY <1>1, <1>2 DEF RetryCounts
<1>5. ASSUME rpc' = "returned", waits' = waits, body' \in {"none", "fresh", "used"},
             rret' = "rateLimited" => \/ Len(rsent) = R!maxAttempts
                                      \/ R!Asked(ask) > R!maxRetryAfter
      PROVE  RetryInv'
  <2>1. RetryCounts'
    <3>1. R!maxAttempts \in Nat /\ attempt <= R!maxAttempts
      BY <1>2, RetrySettings DEF RetryCounts
    <3> QED
      BY <1>1, <1>2, <1>4, <1>5, <3>1 DEF RetryCounts
  <2>2. DelaysRight'
    BY <1>1, <1>5, DelaysStay
  <2> QED
    BY <1>1, <1>3, <1>5, <2>1, <2>2 DEF RetryInv, GaveUp, R!Asked, R!maxRetryAfter
<1>6. CASE R!Last /\ R!Return("rateLimited") /\ UNCHANGED <<body, waits>>
  <2>1. Len(rsent) = R!maxAttempts
    BY <1>1, <1>2, <1>6 DEF RetryCounts, R!Last
  <2> QED
    BY <1>2, <1>5, <1>6, <2>1 DEF RetryCounts, R!Return
<1>7. CASE ~R!Last /\ body # "none" /\ R!Return("bodyError") /\ UNCHANGED <<body, waits>>
  BY <1>2, <1>5, <1>7 DEF RetryCounts, R!Return
<1>8. body' = R!resetRequestBody => body' \in {"none", "fresh"}
  BY DEF R!resetRequestBody
<1>9. CASE /\ body' = R!resetRequestBody
           /\ R!Parsed(ask) /\ R!TooLong(R!Delay(ask))
           /\ R!Return("rateLimited") /\ waits' = waits
  <2>1. R!Asked(ask) > R!maxRetryAfter
    BY <1>4, <1>9, DelayAsked, RetrySettings DEF R!TooLong
  <2> QED
    BY <1>5, <1>8, <1>9, <2>1 DEF R!Return
<1>10. CASE /\ ~R!Last
            /\ body' = R!resetRequestBody
            /\ ~(R!Parsed(ask) /\ R!TooLong(R!Delay(ask)))
            /\ waits' = Append(waits, R!retryDelay(ask))
            /\ rpc' = "wait" /\ rret' = rret
  <2>1. R!retryDelay(ask) \in Int
    <3>1. CASE R!Parsed(ask)
      BY <1>4, <3>1, DelayAsked DEF R!retryDelay
    <3>2. CASE ~R!Parsed(ask)
      <4>1. backoff \in Int /\ R!maxRetryAfter \in Int
        BY <1>2, RetrySettings DEF BackoffDoubles
      <4>2. \E x \in {backoff, R!maxRetryAfter} : \A y \in {backoff, R!maxRetryAfter} : x =< y
        BY <4>1
      <4>3. R!Min({backoff, R!maxRetryAfter}) \in {backoff, R!maxRetryAfter}
        BY <4>2 DEF R!Min
      <4> QED
        BY <3>2, <4>1, <4>3 DEF R!retryDelay
    <3> QED
      BY <3>1, <3>2
  <2>2. attempt < R!maxAttempts
    BY <1>2, <1>10, RetrySettings DEF RetryCounts, R!Last
  <2>3. RetryCounts'
    BY <1>1, <1>2, <1>8, <1>10, <2>1, <2>2 DEF RetryCounts
  <2>4. /\ waits' \in Seq(Int) /\ Len(waits') = attempt /\ waits'[attempt] = R!retryDelay(ask)
        /\ \A n \in 1 .. attempt - 1 : waits'[n] = waits[n]
    BY <1>2, <1>4, <1>10, <2>1 DEF RetryCounts
  <2>5. DelayRight(attempt)'
    <3>1. R!Asked(ask) < Limit => R!Asked(ask) <= R!maxRetryAfter
      <4>1. CASE R!Parsed(ask)
        BY <1>4, <1>10, <4>1, DelayAsked, RetrySettings DEF R!TooLong
      <4>2. CASE ~R!Parsed(ask)
        BY <1>4, <4>2, DelayAsked, RetrySettings
      <4> QED
        BY <4>1, <4>2
    <3>2. ask.kind = "none" /\ Base(attempt) < Limit =>
            R!retryDelay(ask) = R!Min({Base(attempt), R!maxRetryAfter})
      BY <1>2, <1>4, DelayAsked DEF R!retryDelay, BackoffDoubles
    <3>3. ask.kind # "none" /\ R!Asked(ask) < Limit => R!retryDelay(ask) = R!Asked(ask)
      BY <1>4, DelayAsked DEF R!retryDelay
    <3>4. answers'[attempt'] = ask /\ attempt' = attempt
      BY <1>1, <1>4
    <3> HIDE DEF ask
    <3> QED
      BY <2>4, <3>1, <3>2, <3>3, <3>4 DEF DelayRight, Base, R!Asked, R!maxRetryAfter
  <2>6. DelaysRight'
    <3> SUFFICES ASSUME NEW n \in 1 .. attempt PROVE DelayRight(n)'
      BY <2>4 DEF DelaysRight
    <3>1. CASE n = attempt
      BY <1>1, <2>5, <3>1
    <3>2. CASE n # attempt
      <4>1. n \in 1 .. attempt - 1 /\ n \in 1 .. Len(waits)
        BY <1>4, <3>2
      <4>2. DelayRight(n)
        BY <4>1 DEF RetryInv, DelaysRight
      <4> QED
        BY <1>1, <2>4, <4>1, <4>2 DEF DelayRight, Base, R!Asked, R!maxRetryAfter
    <3> QED
      BY <3>1, <3>2
  <2> QED
    BY <1>1, <1>3, <1>10, <2>3, <2>6 DEF RetryInv, GaveUp
<1> QED
  BY <1>6, <1>7, <1>9, <1>10 DEF R!Limited

LEMMA WakeRetries ==
  ASSUME RetryInv, R!Wake
  PROVE  RetryInv'
<1>1. /\ rpc = "wait" /\ rpc' = "send" /\ attempt' = attempt + 1
      /\ backoff' = R!Wrap(2 * backoff)
      /\ UNCHANGED <<body, rret, answers, waits, rsent>>
  BY DEF R!Wake, R!Doubled
<1>2. RetryCounts /\ BackoffDoubles /\ rret = "none"
  BY <1>1 DEF RetryInv
<1>3. /\ attempt \in 1 .. R!maxAttempts /\ attempt + 1 \in 1 .. R!maxAttempts
      /\ attempt \in Nat \ {0}
  BY <1>1, <1>2, RetrySettings DEF RetryCounts
<1>4. RetryCounts'
  BY <1>1, <1>2, <1>3 DEF RetryCounts
<1>5. BackoffDoubles'
  <2>1. backoff \in Int /\ backoff' \in Int
    BY <1>1, <1>2, Wrapped DEF BackoffDoubles
  <2>2. Powers[attempt + 1] = 2 * Powers[attempt]
    <3>1. attempt + 1 # 1 /\ attempt + 1 - 1 = attempt
      BY <1>3
    <3> QED
      BY <1>3, <3>1, RetrySettings
  <2>3. Powers[attempt] \in Nat
    BY <1>3, RetrySettings
  <2>4. Base(attempt + 1) = 2 * Base(attempt) /\ Base(attempt) \in Nat
    <3>1. \A a, b \in Nat : a * (2 * b) = 2 * (a * b) /\ a * b \in Nat
      OBVIOUS
    <3>2. Backoff * Second \in Nat
      BY RetrySettings
    <3> QED
      BY <2>2, <2>3, <3>1, <3>2 DEF Base
  <2>5. ASSUME Base(attempt + 1) < Limit
        PROVE  backoff' = Base(attempt + 1)
    <3>1. Base(attempt) < Limit /\ Limit \in Nat
      BY <2>4, <2>5, RetrySettings
    <3>2. backoff = Base(attempt)
      BY <1>2, <3>1 DEF BackoffDoubles
    <3>3. 2 * backoff \in Nat /\ 2 * backoff < Limit
      BY <2>4, <2>5, <3>2
    <3> QED
      BY <1>1, <2>4, <3>2, <3>3, Wrapped
  <2> QED
    BY <1>1, <2>1, <2>5 DEF BackoffDoubles, Base
<1>6. DelaysRight'
  BY <1>1, DelaysStay
<1> QED
  BY <1>1, <1>2, <1>4, <1>5, <1>6 DEF RetryInv, GaveUp

LEMMA RetryStep ==
  ASSUME RetryInv, R!Step
  PROVE  RetryInv'
<1>1. CASE R!Gone
  <2>1. /\ rpc = "wait" /\ rpc' = "returned" /\ rret' = "ctxErr"
        /\ UNCHANGED <<attempt, backoff, body, answers, waits, rsent>>
    BY <1>1 DEF R!Gone, R!Return
  <2>2. RetryCounts /\ BackoffDoubles
    BY DEF RetryInv
  <2>3. RetryCounts'
    BY <2>1, <2>2 DEF RetryCounts
  <2>4. BackoffDoubles' /\ DelaysRight'
    BY <2>1, <2>2, DelaysStay DEF BackoffDoubles, Base
  <2> QED
    BY <2>1, <2>3, <2>4 DEF RetryInv, GaveUp
<1>2. CASE R!Cancel
  <2>1. UNCHANGED <<rpc, attempt, backoff, body, rret, answers, waits, rsent>>
    BY <1>2 DEF R!Cancel
  <2>2. RetryCounts' /\ BackoffDoubles' /\ DelaysRight'
    BY <2>1, DelaysStay DEF RetryInv, RetryCounts, BackoffDoubles, Base
  <2> QED
    BY <2>1, <2>2 DEF RetryInv, GaveUp, R!Asked, R!maxRetryAfter
<1> QED
  BY <1>1, <1>2, SendRetries, LimitedRetries, WakeRetries DEF R!Step

LEMMA RetriesStay ==
  ASSUME RetryInv, UNCHANGED retryVars
  PROVE  RetryInv'
<1>1. RetryCounts' /\ BackoffDoubles' /\ DelaysRight'
  BY DelaysStay DEF retryVars, RetryInv, RetryCounts, BackoffDoubles, Base
<1> QED
  BY <1>1 DEF retryVars, RetryInv, GaveUp, R!Asked, R!maxRetryAfter

LEMMA RetriesRight ==
  ASSUME RetryInv
  PROVE  R!RetriesExact
<1>1. RetryCounts /\ DelaysRight /\ GaveUp
  BY DEF RetryInv
<1>2. R!OutcomeExact
  <2>1. \A ask \in R!Asks : R!Asked(ask) < Limit => R!NoRetryAfter(ask)
    <3> SUFFICES ASSUME NEW ask \in R!Asks, R!Asked(ask) < Limit,
                        R!Asked(ask) > R!maxRetryAfter,
                        NEW n \in 1 .. Len(waits), answers[n] = ask
                 PROVE  FALSE
      BY DEF R!NoRetryAfter
    <3>1. R!Asked(ask) <= R!maxRetryAfter
      BY <1>1 DEF DelaysRight, DelayRight
    <3> QED
      BY <3>1, DelayAsked, RetrySettings
  <2>2. Len(answers) >= Len(rsent) - 1
    BY <1>1 DEF RetryCounts
  <2>3. "used" \notin {rsent[n] : n \in 1 .. Len(rsent)}
    BY <1>1 DEF RetryCounts
  <2> QED
    BY <1>1, <2>1, <2>2, <2>3 DEF R!OutcomeExact, GaveUp
<1>3. R!WaitsExact
  BY <1>1 DEF R!WaitsExact, DelaysRight, DelayRight, Base
<1> QED
  BY <1>2, <1>3 DEF R!RetriesExact

\* A request to log in has a body or none, that was not used yet.
LEMMA BodyFresh == \A r : buildHTTPRequest(r) \in {"none", "fresh"}
BY DEF buildHTTPRequest

LEMMA EndsRequest ==
  ASSUME NEW r, End(r)
  PROVE  \E b \in {"none", "fresh"} : R!NewRequest(b)
BY DEF End

LEMMA StartsRequest ==
  ASSUME NEW s, NEW t, NEW i, StartLogin(s, t, i)
  PROVE  \E b \in {"none", "fresh"} : R!NewRequest(b)
BY BodyFresh DEF StartLogin

\* Each login is a new request, of which the client then takes its steps.
LEMMA RequestsMade ==
  ASSUME Next
  PROVE  UNCHANGED retryVars \/ R!Step \/ \E b \in {"none", "fresh"} : R!NewRequest(b)
<1>1. CASE Detect
  BY <1>1, EndsRequest, StartsRequest DEF Detect
<1>2. CASE \E c \in Calls : Agent(c)
  BY <1>2 DEF Agent
<1>3. CASE EndTurn
  BY <1>3, EndsRequest, StartsRequest DEF EndTurn, Refuse
<1>4. CASE Request
  BY <1>4 DEF Request
<1>5. CASE LoginFails
  BY <1>5, EndsRequest, StartsRequest DEF LoginFails, Refuse, Stop
<1>6. CASE Token
  BY <1>6, BodyFresh DEF Token
<1>7. CASE Verified
  BY <1>7, EndsRequest, StartsRequest DEF Verified, Refuse
<1>8. CASE Candidate
  BY <1>8, EndsRequest, StartsRequest DEF Candidate, NextCredential
<1>9. CASE Baseline
  BY <1>9, EndsRequest, StartsRequest DEF Baseline, NextCredential
<1>10. CASE Judge
  BY <1>10, EndsRequest, StartsRequest DEF Judge, Stop, NextCredential
<1>11. CASE Terminated
  BY <1>11 DEF Terminated, vars, retryVars
<1> QED
  BY <1>1, <1>2, <1>3, <1>4, <1>5, <1>6, <1>7, <1>8, <1>9, <1>10, <1>11 DEF Next

\* For integers of any width, and whatever a server asks for: a rate limit ends
\* a request only when it should, each attempt sends the whole body, and each
\* delay that fits is the one asked for, or the backoff that the settings give.
THEOREM RetriesAreExact == Spec => []RetriesExact
<1>1. Init => RetryInv
  BY RetryStart DEF Init
<1>2. RetryInv /\ [Next]_vars => RetryInv'
  <2> SUFFICES ASSUME RetryInv, [Next]_vars PROVE RetryInv'
    OBVIOUS
  <2>1. CASE Next
    BY <2>1, RequestsMade, RetriesStay, RetryStep, RequestRenewed
  <2>2. CASE UNCHANGED vars
    BY <2>2, RetriesStay DEF vars, retryVars
  <2> QED
    BY <2>1, <2>2
<1>3. RetryInv => RetriesExact
  BY RetriesRight DEF RetriesExact
<1> QED
  BY <1>1, <1>2, <1>3, PTL DEF Spec

-----------------------------------------------------------------------------
(* The findings: what is known of each credential that was tried.          *)

Active == stage \in {"csrf", "login", "judge"}

Stages ==
  /\ stage \in {"detect", "agent", "csrf", "login", "judge", "ended"}
  /\ task \in {"verify", "try", "negative"}
  /\ k \in Nat \ {0}
  /\ strategy = {} \/ \E s \in Strategies : strategy = {s}
  /\ valid \in Seq(Nat)
  /\ stage # "ended" => result = "none"
  /\ Active => /\ strategy # {} /\ ValidStrategy(Strategy) /\ Strategy.supports
               /\ k <= Len(Creds)
  /\ stage \in {"detect", "agent"} => ~cached /\ ~added
  /\ Active /\ task = "verify" => ~cached /\ ~added
  /\ Active /\ task # "verify" => cached \/ added
  /\ stage = "judge" => task = "negative"
  /\ ~cached /\ ~added => valid = <<>>
  /\ added => Login.regex \in {"all", "denial"}

Used ==
  strategy # {} /\ ValidStrategy(Strategy) /\ Strategy.supports /\ (cached \/ added)

Confirmed(i) == i \notin misjudged \cap spoiled => Accepts(Creds[i])

MustBeFound(i) ==
  i \notin spoiled \cup misjudged /\ Accepts(Creds[i]) /\ OnlyPassword(Creds[i]) /\ Sees

Passed(i) == i < k \/ (stage = "ended" /\ i = k)

Listed(i) == \E j \in DOMAIN valid : valid[j] = i

\* The credentials that are done with: those in the list are accepted, and none
\* that could be recognised is missing.
PassedExact ==
  Used =>
    /\ \A j \in DOMAIN valid : Confirmed(valid[j])
    /\ \A i \in Nat \ {0} : Passed(i) /\ MustBeFound(i) => Listed(i)
    /\ stage = "ended" /\ valid # <<>> => result = "finding"

\* The credential whose rejected variant is tried, or that is before the judge:
\* two answers of the site's own that differ tell that it was let in.
InHand ==
  Active /\ task = "negative" =>
    /\ page = "welcome" => Accepts(Creds[k])
    /\ k \notin spoiled => page \in {"welcome", "denied"} /\ ~isAuthFailure(page)
    /\ stage = "judge" /\ k \notin spoiled => page = "welcome"

FindingsInv == Stages /\ PassedExact /\ InHand

LEMMA StrategyIs ==
  ASSUME NEW s, strategy = {s}
  PROVE  Strategy = s
BY DEF Strategy

LEMMA StrategyIsPrime ==
  ASSUME NEW s, strategy' = {s}
  PROVE  Strategy' = s
BY DEF Strategy

\* Nothing about a strategy or a site changes while they stay.
LEMMA SameMeaning ==
  ASSUME UNCHANGED <<strategy, site>>
  PROVE  /\ Strategy' = Strategy /\ Creds' = Creds /\ Login' = Login /\ Site' = Site
         /\ \A c : Accepts(c)' <=> Accepts(c)
         /\ \A c : OnlyPassword(c)' <=> OnlyPassword(c)
         /\ \A p : isAuthFailure(p)' <=> isAuthFailure(p)
<1>1. Strategy' = Strategy /\ Site' = Site
  BY DEF Strategy, Site
<1>2. Creds' = Creds /\ Login' = Login
  BY <1>1 DEF Creds, Login
<1> QED
  BY <1>1, <1>2 DEF Accepts, OnlyPassword, isAuthFailure, Extraction

LEMMA SameTask ==
  ASSUME UNCHANGED <<strategy, site, cached, added>>
  PROVE  /\ Used' <=> Used
         /\ Sees' <=> Sees
         /\ \A i : spoiled \subseteq spoiled' /\ misjudged \subseteq misjudged'
                     => (Confirmed(i) => Confirmed(i)') /\ (MustBeFound(i)' => MustBeFound(i))
<1>1. Used' <=> Used
  BY SameMeaning DEF Used
<1>2. Sees' <=> Sees
  BY SameMeaning DEF Sees
<1> QED
  BY <1>1, <1>2, SameMeaning DEF Confirmed, MustBeFound

LEMMA Ends ==
  ASSUME NEW r, End(r)
  PROVE  stage' = "ended" /\ result' = r /\ task' = task /\ k' = k
BY DEF End

LEMMA Starts ==
  ASSUME NEW s, NEW t, NEW i, StartLogin(s, t, i)
  PROVE  stage' \in {"csrf", "login"} /\ task' = t /\ k' = i /\ result' = result
BY DEF StartLogin

\* bruteforce goes on to the next credential, or has come to the end.
LEMMA Onwards ==
  ASSUME FindingsInv, Active, task # "verify",
         NEW n, n = k, NEW confirmed \in Seq(Nat), valid' = confirmed,
         NextCredential(confirmed),
         UNCHANGED <<strategy, cached, added, site>>,
         spoiled \subseteq spoiled', misjudged \subseteq misjudged',
         \A i : Listed(i) => Listed(i)',
         \A j \in DOMAIN confirmed : Confirmed(confirmed[j])',
         MustBeFound(n)' => Listed(n)'
  PROVE  FindingsInv'
<1>1. Stages /\ PassedExact /\ Used
  BY DEF FindingsInv, Stages, Active, Used
<1>2. /\ Strategy' = Strategy /\ Creds' = Creds /\ Login' = Login
      /\ Used' /\ \A i : MustBeFound(i)' => MustBeFound(i)
  BY <1>1, SameMeaning, SameTask
<1>3. k \in Nat \ {0} /\ k <= Len(Creds) /\ Len(Creds) \in Nat
  <2>1. PICK s \in Strategies : strategy = {s}
    BY <1>1 DEF Stages, Active
  <2>2. Creds \in Seq([username : Seq(STRING), password : Seq(STRING)])
    BY <2>1, StrategyIs, AgenticAssumption DEF Creds, AgenticAssumption
  <2> QED
    BY <1>1, <2>2 DEF Stages, Active
<1>4. \A i \in Nat \ {0} : i < k /\ MustBeFound(i)' => Listed(i)'
  BY <1>1, <1>2 DEF PassedExact, Passed
<1>5. CASE k = Len(Creds) /\ End(IF confirmed = <<>> THEN "nil" ELSE "finding")
  <2>1. /\ stage' = "ended" /\ k' = k /\ task' = task
        /\ confirmed # <<>> => result' = "finding"
    BY <1>5, Ends
  <2>2. Stages'
    BY <1>1, <1>2, <2>1 DEF Stages, Active, Used
  <2>3. PassedExact'
    <3>1. \A i \in Nat \ {0} : Passed(i)' => i < k \/ i = k
      BY <2>1 DEF Passed
    <3>2. \A i \in Nat \ {0} : Passed(i)' /\ MustBeFound(i)' => Listed(i)'
      BY <1>4, <3>1
    <3> QED
      BY <2>1, <3>2 DEF PassedExact
  <2>4. InHand'
    BY <2>1 DEF InHand, Active
  <2> QED
    BY <2>2, <2>3, <2>4 DEF FindingsInv
<1>6. CASE k # Len(Creds) /\ StartLogin(Strategy, "try", k + 1)
  <2>1. /\ stage' \in {"csrf", "login"} /\ k' = k + 1 /\ task' = "try" /\ result' = result
    BY <1>6, Starts
  <2>2. k + 1 \in Nat \ {0} /\ k + 1 <= Len(Creds)
    BY <1>3, <1>6
  <2>3. Stages'
    BY <1>1, <1>2, <2>1, <2>2 DEF Stages, Active, Used
  <2>4. PassedExact'
    <3>1. \A i \in Nat \ {0} : Passed(i)' => i < k \/ i = k
      BY <1>3, <2>1 DEF Passed
    <3>2. \A i \in Nat \ {0} : Passed(i)' /\ MustBeFound(i)' => Listed(i)'
      BY <1>4, <3>1
    <3> QED
      BY <2>1, <3>2 DEF PassedExact
  <2>5. InHand'
    BY <2>1 DEF InHand
  <2> QED
    BY <2>3, <2>4, <2>5 DEF FindingsInv
<1> QED
  BY <1>5, <1>6 DEF NextCredential

\* An error while a credential is tested ends bruteforce.
LEMMA Stops ==
  ASSUME FindingsInv, Active, task # "verify", Stop, spoiled' = spoiled \cup {k},
         UNCHANGED <<strategy, cached, added, valid, site, misjudged>>
  PROVE  FindingsInv'
<1>1. Stages /\ PassedExact /\ Used
  BY DEF FindingsInv, Stages, Active, Used
<1>2. /\ Strategy' = Strategy /\ Creds' = Creds /\ Login' = Login
      /\ \A i : (Confirmed(i) => Confirmed(i)') /\ (MustBeFound(i)' => MustBeFound(i))
  BY SameMeaning, SameTask
<1>3. /\ stage' = "ended" /\ k' = k /\ task' = task
      /\ valid # <<>> => result' = "finding"
  BY Ends DEF Stop
<1>4. Stages'
  BY <1>1, <1>2, <1>3 DEF Stages, Active, Used
<1>5. PassedExact'
  <2>1. \A i \in Nat \ {0} : Passed(i)' /\ MustBeFound(i)' => Passed(i) /\ MustBeFound(i)
    BY <1>2, <1>3 DEF Passed, MustBeFound
  <2>2. \A i : Listed(i) => Listed(i)'
    BY DEF Listed
  <2> QED
    BY <1>1, <1>2, <1>3, <2>1, <2>2 DEF PassedExact
<1>6. InHand'
  BY <1>3 DEF InHand, Active
<1> QED
  BY <1>4, <1>5, <1>6 DEF FindingsInv

\* A shifted string is another one: where no character can be rotated, one is
\* put in front.
LEMMA Shifted ==
  ASSUME NEW S, NEW s \in Seq(S)
  PROVE  /\ shiftAlphaNumeric(s) # s
         /\ \E U : shiftAlphaNumeric(s) \in Seq(U)
<1> DEFINE mutated == [i \in DOMAIN s |-> Rotated(s[i])]
<1>1. CASE mutated = s
  <2>1. shiftAlphaNumeric(s) = <<"x">> \o s
    BY <1>1 DEF shiftAlphaNumeric
  <2>2. /\ <<"x">> \o s \in Seq(S \cup {"x"})
        /\ Len(<<"x">> \o s) = Len(s) + 1 /\ Len(s) \in Nat
    <3>1. <<"x">> \in Seq(S \cup {"x"}) /\ s \in Seq(S \cup {"x"})
      OBVIOUS
    <3>2. Len(<<"x">>) = 1
      OBVIOUS
    <3> QED
      BY <3>1, <3>2, ConcatProperties
  <2>3. <<"x">> \o s # s
    BY <2>2
  <2> QED
    BY <2>1, <2>2, <2>3
<1>2. CASE mutated # s
  <2>1. shiftAlphaNumeric(s) = mutated
    BY <1>2 DEF shiftAlphaNumeric
  <2>2. mutated \in Seq({Rotated(s[i]) : i \in DOMAIN s})
    <3>1. DOMAIN s = 1 .. Len(s) /\ Len(s) \in Nat
      OBVIOUS
    <3>2. mutated \in [1 .. Len(s) -> {Rotated(s[i]) : i \in DOMAIN s}]
      BY <3>1
    <3> QED
      BY <3>1, <3>2 DEF Seq
  <2> HIDE DEF mutated
  <2> QED
    BY <1>2, <2>1, <2>2
<1> QED
  BY <1>1, <1>2

LEMMA Mutated ==
  ASSUME NEW S, NEW s \in Seq(S)
  PROVE  mutateCredentialString(s) # s
<1> DEFINE ats == {i \in DOMAIN s : s[i] = "@"}
           at == CHOOSE i \in ats : TRUE
           a == SubSeq(s, 1, at - 1)
           b == SubSeq(s, at, Len(s))
<1>1. CASE Cardinality(ats) = 1 /\ at > 1 /\ "." \in {s[i] : i \in at + 1 .. Len(s)}
  <2>1. mutateCredentialString(s) = shiftAlphaNumeric(a) \o b
    BY <1>1 DEF mutateCredentialString
  <2>2. at \in DOMAIN s /\ at > 1
    <3>1. ats # {}
      BY <1>1, FS_EmptySet
    <3> QED
      BY <1>1, <3>1
  <2>3. at \in 1 .. Len(s) /\ Len(s) \in Nat
    BY <2>2
  <2> HIDE DEF at
  <2>4. /\ a \in Seq(S) /\ b \in Seq(S) /\ Len(a) = at - 1 /\ Len(b) = Len(s) - at + 1
        /\ \A i \in 1 .. at - 1 : a[i] = s[i]
    BY <2>2, <2>3
  <2>5. PICK U : shiftAlphaNumeric(a) \in Seq(U)
    BY <2>4, Shifted
  <2>6. shiftAlphaNumeric(a) # a
    BY <2>4, Shifted
  <2> DEFINE t == shiftAlphaNumeric(a)
  <2> HIDE DEF a, b, t
  <2>7. t \in Seq(U) /\ t # a
    BY <2>5, <2>6 DEF t
  <2>8. SUFFICES ASSUME t \o b = s PROVE FALSE
    BY <2>1 DEF t
  <2>9. Len(t \o b) = Len(t) + Len(b) /\ \A i \in 1 .. Len(t) : (t \o b)[i] = t[i]
    <3>1. t \in Seq(U \cup S) /\ b \in Seq(U \cup S)
      BY <2>4, <2>7
    <3> QED
      BY <3>1, ConcatProperties
  <2>10. Len(t) = Len(a)
    <3>1. Len(t) \in Nat /\ Len(b) \in Nat /\ Len(s) = Len(t) + Len(b)
      BY <2>4, <2>7, <2>8, <2>9
    <3> QED
      BY <2>3, <2>4, <3>1
  <2>11. \A i \in 1 .. Len(t) : t[i] = a[i]
    BY <2>3, <2>4, <2>8, <2>9, <2>10
  <2>12. t = a
    <3>1. t \in Seq(U \cup S) /\ a \in Seq(U \cup S)
      BY <2>4, <2>7
    <3> QED
      BY <2>10, <2>11, <3>1, SeqEqual
  <2> QED
    BY <2>7, <2>12
<1>2. CASE ~(Cardinality(ats) = 1 /\ at > 1 /\ "." \in {s[i] : i \in at + 1 .. Len(s)})
  <2>1. mutateCredentialString(s) = shiftAlphaNumeric(s)
    BY <1>2 DEF mutateCredentialString
  <2> QED
    BY <2>1, Shifted
<1> QED
  BY <1>1, <1>2

\* Detect may end before a strategy is used.
LEMMA EndsUnused ==
  ASSUME FindingsInv, NEW r, End(r), ~Used', ~added', valid' = valid,
         ~cached /\ ~added,
         strategy' = {} \/ \E s \in Strategies : strategy' = {s}
  PROVE  FindingsInv'
<1>1. /\ stage' = "ended" /\ k' = k /\ task' = task
  BY Ends
<1>2. Stages'
  BY <1>1 DEF FindingsInv, Stages, Active
<1> QED
  BY <1>1, <1>2 DEF FindingsInv, PassedExact, InHand, Active

LEMMA Refuses ==
  ASSUME FindingsInv, stage # "ended", ~cached, ~added, Refuse,
         UNCHANGED <<cached, added, valid>>
  PROVE  FindingsInv'
<1>1. ~Used'
  BY DEF Used
<1>2. CASE stage' = "agent" /\ strategy' = {} /\ UNCHANGED <<task, k, result>>
  <2>1. Stages'
    BY <1>2 DEF FindingsInv, Stages, Active
  <2> QED
    BY <1>1, <1>2, <2>1 DEF FindingsInv, PassedExact, InHand, Active
<1>3. CASE End("error") /\ UNCHANGED strategy
  BY <1>1, <1>3, EndsUnused DEF FindingsInv, Stages
<1> QED
  BY <1>2, <1>3 DEF Refuse

\* The first login of a strategy, to verify it or with the first credential.
LEMMA Begins ==
  ASSUME FindingsInv, stage \in {"detect", "agent"}, NEW s \in Strategies, strategy' = {s},
         ValidStrategy(s), s.supports, NEW t \in {"verify", "try"}, StartLogin(s, t, 1),
         cached' <=> t = "try", UNCHANGED <<added, valid>>
  PROVE  FindingsInv'
<1>1. stage' \in {"csrf", "login"} /\ task' = t /\ k' = 1 /\ result' = result
  BY Starts
<1>2. Strategy' = s
  BY StrategyIsPrime
<1>3. Creds' = s.creds /\ 1 <= Len(s.creds)
  <2>1. s.creds \in Seq([username : Seq(STRING), password : Seq(STRING)]) /\ s.creds # <<>>
    BY AgenticAssumption DEF AgenticAssumption, ValidStrategy
  <2> QED
    BY <1>2, <2>1 DEF Creds
<1>4. valid = <<>> /\ ~added /\ result = "none"
  BY DEF FindingsInv, Stages
<1>5. Stages'
  BY <1>1, <1>2, <1>3, <1>4 DEF FindingsInv, Stages, Active
<1>6. PassedExact'
  BY <1>1, <1>4 DEF PassedExact, Passed
<1>7. InHand'
  BY <1>1 DEF InHand
<1> QED
  BY <1>5, <1>6, <1>7 DEF FindingsInv

LEMMA DetectFinds ==
  ASSUME FindingsInv, Detect
  PROVE  FindingsInv'
<1>1. stage = "detect" /\ ~cached /\ ~added /\ valid = <<>> /\ UNCHANGED <<added, valid>>
  BY DEF Detect, FindingsInv, Stages
<1>2. CASE \E r \in {"nil", "error"} : End(r) /\ UNCHANGED <<strategy, cached>>
  <2>1. ~Used'
    BY <1>1, <1>2 DEF Used
  <2> QED
    BY <1>1, <1>2, <2>1, EndsUnused DEF FindingsInv, Stages
<1>3. ASSUME NEW s \in Strategies, strategy' = {s}, cached' = TRUE,
             IF ~ValidStrategy(s) THEN End("error")
             ELSE IF ~s.supports THEN End("nil")
             ELSE StartLogin(s, "try", 1)
      PROVE  FindingsInv'
  <2>1. Strategy' = s
    BY <1>3, StrategyIsPrime
  <2>2. CASE ~(ValidStrategy(s) /\ s.supports)
    <3>1. ~Used'
      BY <2>1, <2>2 DEF Used
    <3>2. PICK r : End(r)
      BY <1>3, <2>2
    <3> QED
      BY <1>1, <1>3, <3>1, <3>2, EndsUnused
  <2>3. CASE ValidStrategy(s) /\ s.supports
    BY <1>1, <1>3, <2>3, Begins
  <2> QED
    BY <2>2, <2>3
<1>4. CASE stage' = "agent" /\ UNCHANGED <<task, k, result, strategy, cached>>
  <2>1. Stages'
    BY <1>1, <1>4 DEF FindingsInv, Stages, Active
  <2> QED
    BY <1>1, <1>4, <2>1 DEF FindingsInv, PassedExact, InHand, Active, Used
<1> QED
  BY <1>2, <1>3, <1>4 DEF Detect

LEMMA EndTurnFinds ==
  ASSUME FindingsInv, EndTurn
  PROVE  FindingsInv'
<1>1. stage = "agent" /\ ~cached /\ ~added /\ UNCHANGED <<cached, added, valid>>
  BY DEF EndTurn, FindingsInv, Stages
<1>2. ~Used'
  BY <1>1 DEF Used
<1>3. CASE End("error") /\ UNCHANGED strategy
  BY <1>1, <1>2, <1>3, EndsUnused DEF FindingsInv, Stages
<1>4. CASE Refuse
  BY <1>1, <1>4, Refuses
<1>5. CASE \E s \in Strategies :
             ValidStrategy(s) /\ strategy' = {s}
               /\ IF s.supports THEN StartLogin(s, "verify", 1) ELSE End("nil")
  <2>1. PICK s \in Strategies :
             ValidStrategy(s) /\ strategy' = {s}
               /\ IF s.supports THEN StartLogin(s, "verify", 1) ELSE End("nil")
    BY <1>5
  <2>2. CASE s.supports
    BY <1>1, <2>1, <2>2, Begins
  <2>3. CASE ~s.supports
    BY <1>1, <1>2, <2>1, <2>3, EndsUnused
  <2> QED
    BY <2>2, <2>3
<1> QED
  BY <1>3, <1>4, <1>5 DEF EndTurn

\* What goes on within a login, or in the agent, tells nothing.
LEMMA FindingsStay ==
  ASSUME FindingsInv, UNCHANGED <<task, k, result, runVars, site, historyVars>>,
         stage' = stage \/ (stage = "csrf" /\ stage' = "login")
  PROVE  FindingsInv'
<1>1. UNCHANGED <<task, k, result, strategy, cached, added, page, valid, site, spoiled, misjudged>>
  BY DEF runVars, historyVars
<1>2. /\ Strategy' = Strategy /\ Creds' = Creds /\ Login' = Login
      /\ \A c : Accepts(c)' <=> Accepts(c)
      /\ \A p : isAuthFailure(p)' <=> isAuthFailure(p)
      /\ Used' <=> Used
      /\ \A i : (Confirmed(i) => Confirmed(i)') /\ (MustBeFound(i)' => MustBeFound(i))
  BY <1>1, SameMeaning, SameTask
<1>3. Active' <=> Active
  BY DEF Active
<1>4. Stages'
  BY <1>1, <1>2, <1>3 DEF FindingsInv, Stages, Active
<1>5. PassedExact'
  <2>1. \A i : Passed(i)' <=> Passed(i)
    BY <1>1 DEF Passed
  <2>2. \A i : Listed(i)' <=> Listed(i)
    BY <1>1 DEF Listed
  <2> QED
    BY <1>1, <1>2, <2>1, <2>2 DEF FindingsInv, PassedExact
<1>6. InHand'
  BY <1>1, <1>2, <1>3 DEF FindingsInv, InHand
<1> QED
  BY <1>4, <1>5, <1>6 DEF FindingsInv

LEMMA FailsFinds ==
  ASSUME FindingsInv, LoginFails
  PROVE  FindingsInv'
<1>1. Active /\ stage # "ended" /\ UNCHANGED <<cached, added, valid, site, misjudged>>
  BY DEF LoginFails, Active
<1>2. CASE task = "verify"
  <2>1. ~cached /\ ~added
    BY <1>1, <1>2 DEF FindingsInv, Stages
  <2>2. CASE End("error") /\ UNCHANGED strategy
    <3>1. ~Used'
      BY <1>1, <2>1 DEF Used
    <3> QED
      BY <1>1, <2>1, <2>2, <3>1, EndsUnused DEF FindingsInv, Stages
  <2>3. CASE Refuse
    BY <1>1, <2>1, <2>3, Refuses
  <2> QED
    BY <1>2, <2>2, <2>3 DEF LoginFails
<1>3. CASE task # "verify"
  BY <1>1, <1>3, Stops DEF LoginFails
<1> QED
  BY <1>2, <1>3

LEMMA VerifiedFinds ==
  ASSUME FindingsInv, Verified
  PROVE  FindingsInv'
<1>1. /\ Active /\ stage # "ended" /\ ~cached /\ ~added /\ valid = <<>>
      /\ UNCHANGED <<cached, valid, site>>
  BY DEF Verified, FindingsInv, Stages, Active
<1>2. CASE Refuse /\ UNCHANGED added
  BY <1>1, <1>2, Refuses
<1>3. CASE /\ \E p : Recognises(p)
           /\ StartLogin(Strategy, "try", 1)
           /\ added' = TRUE /\ UNCHANGED strategy
  <2>1. stage' \in {"csrf", "login"} /\ task' = "try" /\ k' = 1 /\ result' = result
    BY <1>3, Starts
  <2>2. Login.regex \in {"all", "denial"}
    BY <1>3 DEF Recognises, Extraction
  <2>3. Strategy' = Strategy /\ Creds' = Creds /\ Login' = Login
    BY <1>1, <1>3, SameMeaning
  <2>4. k \in Nat \ {0} /\ k <= Len(Creds)
    BY <1>1 DEF FindingsInv, Stages
  <2>5. Len(Creds) \in Nat
    <3>1. PICK s \in Strategies : strategy = {s}
      BY <1>1 DEF FindingsInv, Stages
    <3>2. Creds \in Seq([username : Seq(STRING), password : Seq(STRING)])
      BY <3>1, StrategyIs, AgenticAssumption DEF Creds, AgenticAssumption
    <3> QED
      BY <3>2
  <2>6. 1 <= Len(Creds)
    BY <2>4, <2>5
  <2>7. Stages'
    BY <1>1, <1>3, <2>1, <2>2, <2>3, <2>6 DEF FindingsInv, Stages, Active
  <2>8. PassedExact'
    BY <1>1, <2>1 DEF PassedExact, Passed
  <2>9. InHand'
    BY <2>1 DEF InHand
  <2> QED
    BY <2>7, <2>8, <2>9 DEF FindingsInv
<1> QED
  BY <1>2, <1>3 DEF Verified

\* A page is the site's own if it is no error page, and then tells what the site
\* decided.
LEMMA PageTells ==
  ASSUME NEW c, NEW p \in Pages(c)
  PROVE  /\ p \in {"welcome", "denied", "broken", "blocked"}
         /\ p = "welcome" => Accepts(c)
         /\ p = "denied" => ~Accepts(c)
BY DEF Pages

LEMMA FailureTells ==
  /\ isAuthFailure("welcome") <=> Login.regex = "all"
  /\ isAuthFailure("denied") <=>
       Login.regex \in {"all", "denial"} \/ Site.denies = "status"
BY DEF isAuthFailure, Extraction

LEMMA CandidateFinds ==
  ASSUME FindingsInv, Candidate
  PROVE  FindingsInv'
<1>1. /\ Active /\ stage = "login" /\ task = "try"
      /\ UNCHANGED <<strategy, cached, added, valid, site, misjudged>>
  BY DEF Candidate, Active
<1>2. PICK p \in Pages(Creds[k]) :
        /\ spoiled' = Spoiled(p)
        /\ IF isAuthFailure(p) THEN NextCredential(valid) /\ UNCHANGED page
           ELSE StartLogin(Strategy, "negative", k) /\ page' = p
  BY <1>1 DEF Candidate, Tried
<1>3. /\ spoiled \subseteq spoiled' /\ misjudged \subseteq misjudged'
      /\ p \in {"broken", "blocked"} => k \in spoiled'
  BY <1>1, <1>2 DEF Spoiled
<1>4. Stages /\ PassedExact /\ InHand /\ Used
  BY <1>1 DEF FindingsInv, Stages, Used
<1>5. /\ Strategy' = Strategy /\ Creds' = Creds /\ Login' = Login
      /\ \A c : Accepts(c)' <=> Accepts(c)
      /\ \A q : isAuthFailure(q)' <=> isAuthFailure(q)
      /\ Used' <=> Used
      /\ \A i : (Confirmed(i) => Confirmed(i)') /\ (MustBeFound(i)' => MustBeFound(i))
  BY <1>1, <1>3, SameMeaning, SameTask
<1>6. \A i : Listed(i) => Listed(i)'
  BY <1>1 DEF Listed
<1>7. CASE isAuthFailure(p)
  <2>1. PICK n : n = k
    OBVIOUS
  <2>2. ~MustBeFound(n)'
    <3> SUFFICES ASSUME MustBeFound(n)' PROVE FALSE
      OBVIOUS
    <3>1. MustBeFound(n) /\ n \notin spoiled'
      BY <1>5 DEF MustBeFound
    <3>2. Accepts(Creds[k]) /\ Login.regex # "all" /\ p \notin {"broken", "blocked"}
      BY <1>3, <2>1, <3>1 DEF MustBeFound, Sees
    <3>3. p = "welcome"
      BY <3>2, PageTells
    <3> QED
      BY <1>7, <3>2, <3>3, FailureTells
  <2>3. \A j \in DOMAIN valid : Confirmed(valid[j])'
    BY <1>1, <1>4, <1>5 DEF PassedExact
  <2>4. valid \in Seq(Nat)
    BY <1>4 DEF Stages
  <2> QED
    BY <1>1, <1>2, <1>3, <1>6, <1>7, <2>1, <2>2, <2>3, <2>4, Onwards
<1>8. CASE ~isAuthFailure(p)
  <2>1. stage' \in {"csrf", "login"} /\ task' = "negative" /\ k' = k /\ result' = result /\ page' = p
    BY <1>2, <1>8, Starts
  <2>2. Stages'
    BY <1>1, <1>4, <1>5, <2>1 DEF Stages, Active, Used
  <2>3. PassedExact'
    <3>1. \A i : Passed(i)' => Passed(i)
      BY <2>1 DEF Passed
    <3> QED
      BY <1>1, <1>4, <1>5, <1>6, <2>1, <3>1 DEF PassedExact
  <2>4. InHand'
    <3>1. p = "welcome" => Accepts(Creds[k])
      BY PageTells
    <3>2. k \notin spoiled' => p \in {"welcome", "denied"}
      BY <1>3, PageTells
    <3> QED
      BY <1>5, <1>8, <2>1, <3>1, <3>2 DEF InHand
  <2> QED
    BY <2>2, <2>3, <2>4 DEF FindingsInv
<1> QED
  BY <1>7, <1>8

\* A site that lets a user in with one password only refuses the variant.
LEMMA VariantRefused ==
  ASSUME FindingsInv, Active, OnlyPassword(Creds[k])
  PROVE  ~Accepts(Negative(Creds[k]))
<1>1. Creds[k] \in [username : Seq(STRING), password : Seq(STRING)]
  <2>1. PICK s \in Strategies : strategy = {s}
    BY DEF FindingsInv, Stages
  <2>2. Creds \in Seq([username : Seq(STRING), password : Seq(STRING)])
    BY <2>1, StrategyIs, AgenticAssumption DEF Creds, AgenticAssumption
  <2>3. k \in 1 .. Len(Creds)
    BY <2>2 DEF FindingsInv, Stages
  <2> DEFINE Records == [username : Seq(STRING), password : Seq(STRING)]
  <2>4. Creds \in Seq(Records)
    BY <2>2
  <2> HIDE DEF Records
  <2>5. Creds[k] \in Records
    BY <2>3, <2>4, ElementOfSeq
  <2> QED
    BY <2>5 DEF Records
<1> DEFINE c == Creds[k]
           d == mutateCredentialString(c.password)
<1>2. Negative(c) = [c EXCEPT !.password = d]
  BY DEF Negative
<1>3. c.password \in Seq(STRING)
  BY <1>1
<1>4. d # c.password
  BY <1>3, Mutated
<1> HIDE DEF c, d
<1>5. Negative(c).username = c.username /\ Negative(c).password = d
  BY <1>1, <1>2 DEF c
<1>6. Negative(c) # c
  BY <1>4, <1>5
<1>7. ~Site.all /\ \A other \in Site.accepts : other.username = c.username => other = c
  BY DEF OnlyPassword, c
<1> QED
  BY <1>5, <1>6, <1>7 DEF Accepts, c

LEMMA BaselineFinds ==
  ASSUME FindingsInv, Baseline
  PROVE  FindingsInv'
<1>1. /\ Active /\ stage = "login" /\ task = "negative"
      /\ UNCHANGED <<strategy, cached, added, page, valid, site, misjudged>>
  BY DEF Baseline, Active
<1>2. PICK p \in Pages(Negative(Creds[k])) :
        /\ spoiled' = Spoiled(p)
        /\ IF isAuthFailure(p) THEN stage' = "judge" /\ UNCHANGED <<task, k, result>>
           ELSE NextCredential(valid)
  BY <1>1 DEF Baseline, Tried, Rejected
<1>3. /\ spoiled \subseteq spoiled' /\ misjudged \subseteq misjudged'
      /\ p \in {"broken", "blocked"} => k \in spoiled'
  BY <1>1, <1>2 DEF Spoiled
<1>4. Stages /\ PassedExact /\ InHand /\ Used
  BY <1>1 DEF FindingsInv, Stages, Used
<1>5. /\ Strategy' = Strategy /\ Creds' = Creds /\ Login' = Login
      /\ \A c : Accepts(c)' <=> Accepts(c)
      /\ \A q : isAuthFailure(q)' <=> isAuthFailure(q)
      /\ Used' <=> Used
      /\ \A i : (Confirmed(i) => Confirmed(i)') /\ (MustBeFound(i)' => MustBeFound(i))
  BY <1>1, <1>3, SameMeaning, SameTask
<1>6. \A i : Listed(i) => Listed(i)'
  BY <1>1 DEF Listed
<1>7. CASE ~isAuthFailure(p)
  <2>1. PICK n : n = k
    OBVIOUS
  <2>2. ~MustBeFound(n)'
    <3> SUFFICES ASSUME MustBeFound(n)' PROVE FALSE
      OBVIOUS
    <3>1. MustBeFound(n) /\ n \notin spoiled'
      BY <1>5 DEF MustBeFound
    <3>2. OnlyPassword(Creds[k]) /\ Sees /\ p \notin {"broken", "blocked"}
      BY <1>3, <2>1, <3>1 DEF MustBeFound
    <3>3. p = "denied"
      BY <1>1, <3>2, VariantRefused, PageTells
    <3>4. Login.regex = "denial" \/ Site.denies = "status"
      BY <1>4, <3>2 DEF Sees, Stages, Used
    <3> QED
      BY <1>7, <3>3, <3>4, FailureTells
  <2>3. \A j \in DOMAIN valid : Confirmed(valid[j])'
    BY <1>1, <1>4, <1>5 DEF PassedExact
  <2>4. valid \in Seq(Nat)
    BY <1>4 DEF Stages
  <2> QED
    BY <1>1, <1>2, <1>3, <1>6, <1>7, <2>1, <2>2, <2>3, <2>4, Onwards
<1>8. CASE isAuthFailure(p)
  <2>1. stage' = "judge" /\ UNCHANGED <<task, k, result>>
    BY <1>2, <1>8
  <2>2. Stages'
    BY <1>1, <1>4, <1>5, <2>1 DEF Stages, Active, Used
  <2>3. PassedExact'
    <3>1. \A i : Passed(i)' => Passed(i)
      BY <2>1 DEF Passed
    <3> QED
      BY <1>1, <1>4, <1>5, <1>6, <2>1, <3>1 DEF PassedExact
  <2>4. InHand'
    <3>1. page = "welcome" => Accepts(Creds[k])
      BY <1>1, <1>4 DEF InHand
    <3>2. k \notin spoiled' => page \in {"welcome", "denied"} /\ ~isAuthFailure(page)
      BY <1>1, <1>3, <1>4 DEF InHand
    <3>3. k \notin spoiled' => p \in {"welcome", "denied"}
      BY <1>3, PageTells
    <3>4. k \notin spoiled' => page = "welcome"
      BY <1>8, <3>2, <3>3, FailureTells
    <3> QED
      BY <1>1, <1>5, <2>1, <3>1, <3>2, <3>4 DEF InHand
  <2> QED
    BY <2>2, <2>3, <2>4 DEF FindingsInv
<1> QED
  BY <1>7, <1>8

LEMMA JudgeFinds ==
  ASSUME FindingsInv, Judge
  PROVE  FindingsInv'
<1>1. /\ Active /\ stage = "judge"
      /\ UNCHANGED <<strategy, cached, added, page, site>>
  BY DEF Judge, Active
<1>2. task = "negative" /\ Stages /\ PassedExact /\ InHand /\ Used
  BY <1>1 DEF FindingsInv, Stages, Used, Active
<1>3. CASE Stop /\ spoiled' = spoiled \cup {k} /\ UNCHANGED <<valid, misjudged>>
  BY <1>1, <1>2, <1>3, Stops
<1>4. ASSUME NEW authenticated \in BOOLEAN,
             valid' = IF authenticated THEN Append(valid, k) ELSE valid,
             misjudged' = IF authenticated # (page = "welcome") THEN misjudged \cup {k}
                                                                ELSE misjudged,
             NextCredential(valid'), spoiled' = spoiled
      PROVE  FindingsInv'
  <2>1. spoiled \subseteq spoiled' /\ misjudged \subseteq misjudged'
    BY <1>4
  <2>2. /\ Creds' = Creds
        /\ \A c : Accepts(c)' <=> Accepts(c)
        /\ \A i : (Confirmed(i) => Confirmed(i)') /\ (MustBeFound(i)' => MustBeFound(i))
    BY <1>1, <2>1, SameMeaning, SameTask
  <2>3. PICK n : n = k
    OBVIOUS
  <2>4. valid \in Seq(Nat) /\ k \in Nat
    BY <1>2 DEF Stages
  <2>5. CASE authenticated
    <3>0. Append(valid, k) \in Seq(Nat)
      BY <2>4, AppendProperties
    <3>1. PICK confirmed \in Seq(Nat) : confirmed = Append(valid, k)
      BY <3>0
    <3>2. /\ Len(confirmed) = Len(valid) + 1 /\ confirmed[Len(valid) + 1] = n
          /\ \A j \in DOMAIN valid : j \in DOMAIN confirmed /\ confirmed[j] = valid[j]
          /\ \A j \in DOMAIN confirmed : j \in DOMAIN valid \/ j = Len(valid) + 1
      BY <2>3, <2>4, <3>1
    <3>3. valid' = confirmed
      BY <1>4, <2>5, <3>1
    <3>4. Confirmed(n)'
      <4>1. n \notin misjudged' => page = "welcome"
        BY <1>4, <2>3, <2>5
      <4>2. n \notin spoiled' => page = "welcome"
        BY <1>1, <1>2, <1>4, <2>3 DEF InHand
      <4>3. page = "welcome" => Accepts(Creds[n])
        BY <1>1, <1>2, <2>3 DEF InHand
      <4> QED
        BY <2>2, <4>1, <4>2, <4>3 DEF Confirmed
    <3>5. \A j \in DOMAIN confirmed : Confirmed(confirmed[j])'
      BY <1>2, <2>2, <3>2, <3>4 DEF PassedExact
    <3>6. \A i : Listed(i) => Listed(i)'
      BY <3>2, <3>3 DEF Listed
    <3>7. Listed(n)'
      <4>1. Len(valid) + 1 \in DOMAIN confirmed
        BY <2>4, <3>1
      <4> QED
        BY <3>2, <3>3, <4>1 DEF Listed
    <3>8. NextCredential(confirmed)
      BY <1>4, <3>3
    <3> QED
      BY <1>1, <1>2, <2>1, <2>3, <3>3, <3>5, <3>6, <3>7, <3>8, Onwards
  <2>6. CASE ~authenticated
    <3>1. valid' = valid /\ NextCredential(valid)
      BY <1>4, <2>6
    <3>2. \A i : Listed(i) => Listed(i)'
      BY <3>1 DEF Listed
    <3>3. \A j \in DOMAIN valid : Confirmed(valid[j])'
      BY <1>2, <2>2, <3>1 DEF PassedExact
    <3>4. ~MustBeFound(n)'
      <4>1. n \notin misjudged' => page # "welcome"
        BY <1>4, <2>3, <2>6
      <4>2. n \notin spoiled => page = "welcome"
        BY <1>1, <1>2, <2>3 DEF InHand
      <4> QED
        BY <1>4, <4>1, <4>2 DEF MustBeFound
    <3> QED
      BY <1>1, <1>2, <2>1, <2>3, <2>4, <3>1, <3>2, <3>3, <3>4, Onwards
  <2> QED
    BY <2>5, <2>6
<1> QED
  BY <1>3, <1>4 DEF Judge

\* Whatever pages a site answers with, whatever the judge says and whichever
\* request fails: a reported credential is accepted by the site, unless the judge
\* erred on an answer that was not the site's own; and each one that a rejection
\* can be told for is reported, up to the one that was tried last.
THEOREM FindingsAreTrue == Spec => []FindingsExact
<1>1. Init => FindingsInv
  <2> SUFFICES ASSUME Init PROVE FindingsInv
    OBVIOUS
  <2>1. Stages
    BY DEF Init, Stages, Active
  <2> QED
    BY <2>1 DEF Init, FindingsInv, PassedExact, InHand, Used, Active
<1>2. FindingsInv /\ [Next]_vars => FindingsInv'
  <2> SUFFICES ASSUME FindingsInv, [Next]_vars PROVE FindingsInv'
    OBVIOUS
  <2>1. CASE \E c \in Calls : Agent(c)
    BY <2>1, FindingsStay DEF Agent, loginVars
  <2>2. CASE Request
    BY <2>2, FindingsStay DEF Request, loginVars
  <2>3. CASE Token
    BY <2>3, FindingsStay DEF Token
  <2>4. CASE UNCHANGED vars
    BY <2>4, FindingsStay DEF vars, loginVars
  <2>5. CASE Terminated
    BY <2>4, <2>5 DEF Terminated
  <2> QED
    BY <2>1, <2>2, <2>3, <2>4, <2>5, DetectFinds, EndTurnFinds, FailsFinds, VerifiedFinds,
       CandidateFinds, BaselineFinds, JudgeFinds DEF Next
<1>3. FindingsInv => FindingsExact
  <2> SUFFICES ASSUME FindingsInv, stage = "ended", Used
               PROVE  /\ \A i \in Reported : i \notin misjudged \cap spoiled => Accepts(Creds[i])
                      /\ \A i \in (1 .. k) \ (spoiled \cup misjudged) :
                           Accepts(Creds[i]) /\ OnlyPassword(Creds[i]) /\ Sees => i \in Reported
    BY DEF FindingsExact, Used
  <2>1. PassedExact /\ k \in Nat \ {0}
    BY DEF FindingsInv, Stages
  <2>2. \A i \in Reported : \E j \in DOMAIN valid : i = valid[j]
    BY DEF Reported
  <2>3. \A i \in Reported : Confirmed(i)
    BY <2>1, <2>2 DEF PassedExact
  <2>4. ASSUME NEW i \in (1 .. k) \ (spoiled \cup misjudged),
               Accepts(Creds[i]), OnlyPassword(Creds[i]), Sees
        PROVE  i \in Reported
    <3>1. i \in Nat \ {0} /\ Passed(i) /\ MustBeFound(i)
      BY <2>1, <2>4 DEF Passed, MustBeFound
    <3>2. Listed(i)
      BY <2>1, <3>1 DEF PassedExact
    <3>3. valid # <<>>
      BY <3>2 DEF Listed
    <3>4. result = "finding"
      BY <2>1, <3>3 DEF PassedExact
    <3> QED
      BY <3>2, <3>4 DEF Listed, Reported
  <2> QED
    BY <2>3, <2>4 DEF Confirmed
<1> QED
  BY <1>1, <1>2, <1>3, PTL DEF Spec
=============================================================================
