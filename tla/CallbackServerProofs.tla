------------------------ MODULE CallbackServerProofs ------------------------
(***************************************************************************)
(* Proofs about the callback server: the interaction store keeps what it   *)
(* was given for its time to live and not for long after, and the answer   *)
(* to a poll is true; and about the templated engine, whose callback       *)
(* actions poll it: its workflows run whole, with their cleanups, and its  *)
(* findings rest on interactions of their own service.                     *)
(***************************************************************************)
EXTENDS CallbackServer, TemplatedEngine, FiniteSetTheorems, SequenceTheorems, WellFoundedInduction, TLAPS

\* The last answer of the polling endpoint.
PollType ==
  /\ DOMAIN polled = {"id", "at", "got", "reply", "answer", "due"}
  /\ polled.at \in {Never} \cup 0 .. MaxTime
  /\ polled.got \in SUBSET Interaction

\* An interaction bears the time at which its identifier and type were last
\* registered, so there is one per type.
Held == \A c \in Ids : \A i \in storage[c] : i.at = seen[<<c, i.type>>]

\* Nothing is registered ahead of the clock.
Past == \A x \in Ids \X Types : seen[x] <= now

\* What is within its time to live is in the store.
Kept ==
  \A c \in Ids, t \in Types :
    seen[<<c, t>>] # Never /\ now <= seen[<<c, t>>] + TTL =>
      [type |-> t, at |-> seen[<<c, t>>]] \in storage[c]

\* The next cleanup is at most an interval ahead and finds nothing that the last
\* one should have removed.
Swept ==
  cleaning =>
    /\ now <= nextTick
    /\ nextTick <= now + CleanupInterval
    /\ \A c \in Ids : \A i \in storage[c] : nextTick <= i.at + TTL + CleanupInterval

\* The cleanup goroutine ends with the context or with its process.
CleanerUp == cleaning \/ ctxDone \/ (up = {} /\ phase = "failed")

\* The standalone server never starts recording over DNS.
Ordered == config.standalone => phase # "dns"

\* Whatever is stored for an identifier, a target did with that identifier; so
\* for the queries that handlers hold or may find in the shared buffer.
Caused == \A c \in Ids : \A i \in storage[c] : <<c, i.type>> \in called

Queried ==
  /\ dnsBuf \in Ids => <<dnsBuf, "dns">> \in called
  /\ \A k \in 1 .. Len(handlers) : handlers[k] \in Ids => <<handlers[k], "dns">> \in called

\* The public URI has no path of its own.
BarePath == config.uris.http.path \in {<<>>, <<"">>}

Recorded ==
  BarePath => \A x \in called : x[2] = "http" => seen[x] # Never

\* What the last poll brought: only a status of neither 200 nor 404 can deny an
\* interaction within its time to live.
Reported ==
  /\ \A i \in polled.got : <<polled.id, i.type>> \in called
  /\ polled.answer = "no" /\ polled.due => polled.reply = "otherStatus"
  /\ ~ctxDone => \A i \in polled.got : polled.at <= i.at + TTL + CleanupInterval

ServerInv ==
  /\ TypeOK
  /\ PollType
  /\ Held
  /\ Past
  /\ Kept
  /\ Swept
  /\ CleanerUp
  /\ Ordered
  /\ Caused
  /\ Queried
  /\ Recorded
  /\ Reported

-----------------------------------------------------------------------------
(* The model's operators.                                                  *)

LEMMA Times == TTL \in Nat /\ CleanupInterval \in Nat /\ MaxTime \in Nat
BY CallbackAssumption DEF ValidateConfig

LEMMA RemoveAtKeeps ==
  ASSUME NEW S, NEW s \in Seq(S), NEW k \in 1 .. Len(s)
  PROVE  /\ RemoveAt(s, k) \in Seq(S)
         /\ \A i \in 1 .. Len(RemoveAt(s, k)) : \E j \in 1 .. Len(s) : RemoveAt(s, k)[i] = s[j]
<1> DEFINE a == SubSeq(s, 1, k - 1)
           b == SubSeq(s, k + 1, Len(s))
<1>1. /\ a \in Seq(S) /\ Len(a) = k - 1
      /\ \A i \in 1 .. k - 1 : a[i] = s[i]
  OBVIOUS
<1>2. /\ b \in Seq(S) /\ Len(b) = Len(s) - k
      /\ \A i \in 1 .. Len(s) - k : b[i] = s[k + i]
  OBVIOUS
<1>3. RemoveAt(s, k) = a \o b
  BY DEF RemoveAt
<1> HIDE DEF a, b
<1>4. /\ a \o b \in Seq(S) /\ Len(a \o b) = Len(s) - 1
      /\ \A i \in 1 .. Len(s) - 1 :
            (a \o b)[i] = IF i <= k - 1 THEN a[i] ELSE b[i - (k - 1)]
  BY <1>1, <1>2, ConcatProperties
<1>5. ASSUME NEW i \in 1 .. Len(s) - 1
      PROVE  \E j \in 1 .. Len(s) : (a \o b)[i] = s[j]
  <2>1. CASE i <= k - 1
    <3>1. (a \o b)[i] = s[i] /\ i \in 1 .. Len(s)
      BY <1>1, <1>4, <2>1
    <3> QED
      BY <3>1
  <2>2. CASE ~(i <= k - 1)
    <3>1. (a \o b)[i] = b[i - (k - 1)] /\ i - (k - 1) \in 1 .. Len(s) - k
      BY <1>4, <2>2
    <3>2. (a \o b)[i] = s[k + (i - (k - 1))] /\ k + (i - (k - 1)) \in 1 .. Len(s)
      BY <1>2, <3>1
    <3> QED
      BY <3>2
  <2> QED
    BY <2>1, <2>2
<1> QED
  BY <1>3, <1>4, <1>5

LEMMA FrontOf ==
  ASSUME NEW S, NEW s \in Seq(S), s # <<>>
  PROVE  Front(s) \in Seq(S) /\ Len(Front(s)) = Len(s) - 1
<1>1. Len(s) \in Nat /\ Len(s) # 0
  BY EmptySeq
<1>2. \A i \in 1 .. Len(s) - 1 : s[i] \in S
  BY <1>1, ElementOfSeq
<1>3. SubSeq(s, 1, Len(s) - 1) \in Seq(S) /\ Len(SubSeq(s, 1, Len(s) - 1)) = Len(s) - 1
  <2>1. 1 \in Int /\ Len(s) - 1 \in Int
    BY <1>1
  <2>2. /\ SubSeq(s, 1, Len(s) - 1) \in Seq(S)
        /\ Len(SubSeq(s, 1, Len(s) - 1)) = IF 1 <= Len(s) - 1 THEN (Len(s) - 1) - 1 + 1 ELSE 0
    BY <1>2, <2>1, SubSeqProperties
  <2> DEFINE l == Len(SubSeq(s, 1, Len(s) - 1))
  <2>3. l = Len(s) - 1
    <3>1. l = IF 1 <= Len(s) - 1 THEN (Len(s) - 1) - 1 + 1 ELSE 0
      BY <2>2
    <3> HIDE DEF l
    <3>2. CASE 1 <= Len(s) - 1
      <4>1. l = (Len(s) - 1) - 1 + 1
        BY <3>1, <3>2
      <4> QED
        BY <1>1, <4>1
    <3>3. CASE ~(1 <= Len(s) - 1)
      <4>1. l = 0
        BY <3>1, <3>3
      <4>2. \A n \in Nat : n # 0 /\ ~(1 <= n - 1) => n - 1 = 0
        OBVIOUS
      <4>3. Len(s) - 1 = 0
        BY <1>1, <3>3, <4>2, Zenon
      <4> QED
        BY <4>1, <4>3
    <3> QED
      BY <3>2, <3>3
  <2> QED
    BY <2>2, <2>3
<1> QED
  BY <1>3 DEF Front

\* The URL of an identifier names it under a bare URI; a path that has only one
\* segment names no other identifier.
LEMMA URLNames ==
  ASSUME NEW uri, uri.path \in Seq(STRING), NEW c \in Ids
  PROVE  /\ IdentifierFromURL(CallbackURL(uri, c)) \in {c, Other}
         /\ uri.path \in {<<>>, <<"">>} => IdentifierFromURL(CallbackURL(uri, c)) = c
<1> DEFINE p == uri.path
           t == TrimSlash(p)
<1>1. t \in Seq(STRING)
  <2>1. CASE p # <<>> /\ Last(p) = ""
    <3>1. Front(p) \in Seq(STRING)
      BY <2>1, FrontOf
    <3> QED
      BY <2>1, <3>1 DEF TrimSlash
  <2>2. CASE ~(p # <<>> /\ Last(p) = "")
    BY <2>2 DEF TrimSlash
  <2> QED
    BY <2>1, <2>2
<1>2. p \in {<<>>, <<"">>} => t = <<>>
  <2>1. CASE p = <<>>
    BY <2>1 DEF TrimSlash
  <2>2. CASE p = <<"">>
    <3>1. Len(<<"">>) = 1 /\ <<"">>[1] = "" /\ <<"">> # <<>>
      OBVIOUS
    <3>2. p # <<>> /\ Last(p) = "" /\ Len(p) = 1
      BY <2>2, <3>1, Zenon DEF Last
    <3>3. Front(p) \in Seq(STRING) /\ Len(Front(p)) = 0
      <4>1. Len(Front(p)) = Len(p) - 1
        BY <3>2, FrontOf
      <4>2. \A n : n = 1 => n - 1 = 0
        OBVIOUS
      <4> QED
        BY <3>2, <4>1, <4>2, FrontOf
    <3>4. Front(p) = <<>>
      BY <3>3, EmptySeq
    <3> QED
      BY <3>2, <3>4 DEF TrimSlash
  <2> QED
    BY <2>1, <2>2
<1>3. CallbackURL(uri, c) = t \o <<c>>
  BY DEF CallbackURL
<1> HIDE DEF t
<1> DEFINE S == STRING \cup {c}
<1>4. t \in Seq(S) /\ <<c>> \in Seq(S)
  BY <1>1
<1>5. /\ Len(t \o <<c>>) = Len(t) + 1
      /\ Len(t) = 0 => (t \o <<c>>)[1] = c
  BY <1>4, ConcatProperties
<1>6. IdentifierFromURL(t \o <<c>>) = IF Len(t) = 0 THEN c ELSE Other
  <2>1. CASE Len(t) = 0
    BY <1>5, <2>1 DEF IdentifierFromURL, ValidId
  <2>2. CASE Len(t) # 0
    <3>1. Len(t \o <<c>>) # 1
      BY <1>1, <1>5, <2>2
    <3> QED
      BY <2>2, <3>1 DEF IdentifierFromURL
  <2> QED
    BY <2>1, <2>2
<1> QED
  BY <1>2, <1>3, <1>6

-----------------------------------------------------------------------------
(* What registering an interaction does to the store.                      *)

StoreInv == Held /\ Past /\ Kept /\ Swept /\ Caused

StoreType ==
  /\ storage \in [Ids -> SUBSET Interaction]
  /\ seen \in [Ids \X Types -> {Never} \cup 0 .. MaxTime]

LEMMA TypeFacts ==
  ASSUME TypeOK
  PROVE  /\ StoreType
         /\ now \in 0 .. MaxTime
         /\ now \in Nat
         /\ nextTick \in Nat
         /\ config \in Configs
         /\ up \subseteq config.local
         /\ cleaning \in BOOLEAN
         /\ ctxDone \in BOOLEAN
         /\ phase \in {"poll", "http", "dns", "serving", "shutdown", "failed"}
         /\ dnsLoop \in {"off", "loop", "returned"}
         /\ dnsBuf \in Ids \cup {Other}
         /\ handlers \in Seq(Ids \cup {Other})
         /\ datagrams \in 0 .. MaxDatagrams
         /\ called \subseteq Ids \X Types
BY Times DEF TypeOK, StoreType

LEMMA RegisterKeeps ==
  ASSUME TypeOK, StoreInv, NEW c \in Ids, NEW t \in Types, Register(c, t),
         now' = now, nextTick' = nextTick, cleaning' = cleaning,
         called \subseteq called', <<c, t>> \in called'
  PROVE  /\ StoreType'
         /\ StoreInv'
         /\ seen'[<<c, t>>] = now
         /\ \A x \in Ids \X Types : seen'[x] = seen[x] \/ seen'[x] = now
<1> DEFINE new == [type |-> t, at |-> now]
<1>1. /\ storage \in [Ids -> SUBSET Interaction]
      /\ seen \in [Ids \X Types -> {Never} \cup 0 .. MaxTime]
      /\ now \in 0 .. MaxTime /\ now \in Nat /\ nextTick \in Nat
  BY TypeFacts DEF StoreType
<1>2. new \in Interaction /\ new.type = t /\ new.at = now
  BY <1>1 DEF Interaction
<1>3. \A d \in Ids : storage'[d] =
        IF d = c THEN {i \in storage[d] : i.type # t} \cup {new} ELSE storage[d]
  BY <1>1 DEF Register
<1>4. \A d \in Ids, u \in Types : seen'[<<d, u>>] =
        IF d = c /\ u = t THEN now ELSE seen[<<d, u>>]
  BY <1>1 DEF Register
<1>5. storage' \in [Ids -> SUBSET Interaction]
  <2>1. {i \in storage[c] : i.type # t} \cup {new} \in SUBSET Interaction
    BY <1>1, <1>2
  <2> QED
    BY <1>1, <2>1 DEF Register
<1>6. seen' \in [Ids \X Types -> {Never} \cup 0 .. MaxTime]
  BY <1>1 DEF Register
<1>7. seen'[<<c, t>>] = now
  BY <1>4
<1>8. \A x \in Ids \X Types : seen'[x] = seen[x] \/ seen'[x] = now
  BY <1>1 DEF Register
<1> HIDE DEF new
\* Whatever is stored afterwards is the new interaction or was there before.
<1>9. ASSUME NEW d \in Ids, NEW i \in storage'[d]
      PROVE  \/ d = c /\ i = new
             \/ i \in storage[d] /\ ~(d = c /\ i.type = t)
  <2>1. CASE d = c
    <3>1. i \in {j \in storage[d] : j.type # t} \cup {new}
      BY <1>3, <2>1
    <3> QED
      BY <2>1, <3>1
  <2>2. CASE d # c
    <3>1. i \in storage[d]
      BY <1>3, <2>2
    <3> QED
      BY <2>2, <3>1
  <2> QED
    BY <2>1, <2>2
<1>10. \A d \in Ids : \A i \in storage[d] : i \in Interaction /\ i.type \in Types /\ i.at \in Nat
  BY <1>1, Times DEF Interaction
<1>11. Held'
  <2> SUFFICES ASSUME NEW d \in Ids, NEW i \in storage'[d]
               PROVE  i.at = seen'[<<d, i.type>>]
    BY DEF Held
  <2>1. CASE d = c /\ i = new
    BY <1>2, <1>7, <2>1
  <2>2. CASE i \in storage[d] /\ ~(d = c /\ i.type = t)
    <3>1. i.at = seen[<<d, i.type>>] /\ i.type \in Types
      BY <1>10, <2>2 DEF StoreInv, Held
    <3> QED
      BY <1>4, <2>2, <3>1
  <2> QED
    BY <1>9, <2>1, <2>2
<1>12. Past'
  <2> SUFFICES ASSUME NEW x \in Ids \X Types
               PROVE  seen'[x] <= now
    BY DEF Past
  <2>1. seen[x] <= now
    BY DEF StoreInv, Past
  <2>2. now <= now
    BY <1>1
  <2> QED
    BY <1>8, <2>1, <2>2
<1>13. Kept'
  <2> SUFFICES ASSUME NEW d \in Ids, NEW u \in Types,
                      seen'[<<d, u>>] # Never, now <= seen'[<<d, u>>] + TTL
               PROVE  [type |-> u, at |-> seen'[<<d, u>>]] \in storage'[d]
    BY DEF Kept
  <2>1. CASE d = c /\ u = t
    BY <1>3, <1>7, <2>1 DEF new
  <2>2. CASE ~(d = c /\ u = t)
    <3> DEFINE old == [type |-> u, at |-> seen[<<d, u>>]]
    <3>1. seen'[<<d, u>>] = seen[<<d, u>>]
      BY <1>4, <2>2
    <3>2. old \in storage[d]
      BY <3>1 DEF StoreInv, Kept
    <3>3. old.type = u
      OBVIOUS
    <3> HIDE DEF old
    <3>4. old \in storage'[d]
      BY <1>3, <2>2, <3>2, <3>3
    <3> QED
      BY <3>1, <3>4 DEF old
  <2> QED
    BY <2>1, <2>2
<1>14. Swept'
  <2> SUFFICES ASSUME cleaning
               PROVE  /\ now <= nextTick
                      /\ nextTick <= now + CleanupInterval
                      /\ \A d \in Ids : \A i \in storage'[d] :
                           nextTick <= i.at + TTL + CleanupInterval
    BY DEF Swept
  <2>1. now <= nextTick /\ nextTick <= now + CleanupInterval
    BY DEF StoreInv, Swept
  <2>2. ASSUME NEW d \in Ids, NEW i \in storage'[d]
        PROVE  nextTick <= i.at + TTL + CleanupInterval
    <3>1. CASE d = c /\ i = new
      <4>1. i.at = now
        BY <1>2, <3>1
      <4>2. nextTick <= now + TTL + CleanupInterval
        BY <1>1, <2>1, Times
      <4> QED
        BY <4>1, <4>2
    <3>2. CASE i \in storage[d] /\ ~(d = c /\ i.type = t)
      BY <3>2 DEF StoreInv, Swept
    <3> QED
      BY <1>9, <2>2, <3>1, <3>2
  <2> QED
    BY <2>1, <2>2
<1>15. Caused'
  <2> SUFFICES ASSUME NEW d \in Ids, NEW i \in storage'[d]
               PROVE  <<d, i.type>> \in called'
    BY DEF Caused
  <2>1. CASE d = c /\ i = new
    BY <1>2, <2>1
  <2>2. CASE i \in storage[d] /\ ~(d = c /\ i.type = t)
    BY <2>2 DEF StoreInv, Caused
  <2> QED
    BY <1>9, <2>1, <2>2
<1> QED
  BY <1>5, <1>6, <1>7, <1>8, <1>11, <1>12, <1>13, <1>14, <1>15 DEF StoreType, StoreInv

LEMMA StoreSame ==
  ASSUME StoreInv, UNCHANGED <<storage, seen, now, nextTick>>, cleaning' => cleaning,
         called \subseteq called'
  PROVE  StoreInv'
<1>1. Held'
  BY DEF StoreInv, Held
<1>2. Past'
  BY DEF StoreInv, Past
<1>3. Kept'
  BY DEF StoreInv, Kept
<1>4. Swept'
  <2> SUFFICES ASSUME cleaning'
               PROVE  /\ now <= nextTick
                      /\ nextTick <= now + CleanupInterval
                      /\ \A c \in Ids : \A i \in storage[c] :
                           nextTick <= i.at + TTL + CleanupInterval
    BY DEF Swept
  <2> QED
    BY DEF StoreInv, Swept
<1>5. Caused'
  BY DEF StoreInv, Caused
<1> QED
  BY <1>1, <1>2, <1>3, <1>4, <1>5 DEF StoreInv

\* The parts of the invariant about calls and about the last poll.
LEMMA CallsSame ==
  ASSUME Queried, Recorded, Reported,
         UNCHANGED <<config, dnsBuf, handlers, seen, polled, called>>, ctxDone => ctxDone'
  PROVE  Queried' /\ Recorded' /\ Reported'
<1>1. Queried'
  BY DEF Queried
<1>2. Recorded'
  BY DEF Recorded, BarePath
<1>3. Reported'
  BY DEF Reported
<1> QED
  BY <1>1, <1>2, <1>3

-----------------------------------------------------------------------------
(* The invariant holds initially and every action preserves it.            *)

LEMMA InvParts == ServerInv <=>
  /\ TypeOK /\ PollType /\ StoreInv /\ CleanerUp /\ Ordered
  /\ Queried /\ Recorded /\ Reported
BY DEF ServerInv, StoreInv

LEMMA InitInv ==
  ASSUME Init
  PROVE  ServerInv
<1>1. TypeOK /\ PollType
  <2>1. phase \in {"poll", "http", "dns", "serving", "shutdown", "failed"}
    BY Zenon DEF Init
  <2>2. storage \in [Ids -> SUBSET Interaction]
    BY DEF Init
  <2>3. handlers \in Seq(Ids \cup {Other})
    BY EmptySeq DEF Init
  <2>4. polled.got = {} /\ polled.at = Never
    BY DEF Init, NoPoll
  <2>5. DOMAIN polled = {"id", "at", "got", "reply", "answer", "due"}
    BY DEF Init, NoPoll
  <2>6. /\ config \in Configs /\ up \subseteq config.local /\ ctxDone \in BOOLEAN
        /\ cleaning \in BOOLEAN
    BY DEF Init
  <2>9. now \in 0 .. MaxTime /\ nextTick \in Nat
    BY Times DEF Init
  <2>7. /\ dnsLoop \in {"off", "loop", "returned"} /\ dnsBuf \in Ids \cup {Other}
        /\ datagrams \in 0 .. MaxDatagrams /\ called \subseteq Ids \X Types
    BY CallbackAssumption DEF Init
  <2>8. seen \in [Ids \X Types -> {Never} \cup 0 .. MaxTime]
    BY DEF Init
  <2> QED
    BY <2>1, <2>2, <2>3, <2>4, <2>5, <2>6, <2>7, <2>8, <2>9 DEF TypeOK, PollType
<1>2. StoreInv
  <2>1. Held /\ Caused
    BY DEF Init, Held, Caused
  <2>2. \A x \in Ids \X Types : seen[x] = Never
    BY DEF Init
  <2>3. Past
    <3>1. now = 0 /\ Never <= 0
      BY DEF Init, Never
    <3> QED
      BY <2>2, <3>1 DEF Past
  <2>4. Kept
    BY <2>2 DEF Kept
  <2>5. Swept
    <3>1. now <= nextTick /\ nextTick <= now + CleanupInterval
      BY Times DEF Init
    <3>2. \A c \in Ids : storage[c] = {}
      BY DEF Init
    <3> QED
      BY <3>1, <3>2 DEF Swept
  <2> QED
    BY <2>1, <2>3, <2>4, <2>5 DEF StoreInv
<1>3. CleanerUp /\ Ordered
  BY Zenon DEF Init, CleanerUp, Ordered
<1>4. Queried
  <2>1. dnsBuf \notin Ids
    BY CallbackAssumption DEF Init
  <2>2. 1 .. Len(handlers) = {}
    BY DEF Init
  <2> QED
    BY <2>1, <2>2 DEF Queried
<1>5. Recorded
  BY DEF Init, Recorded
<1>6. Reported
  <2>1. polled.got = {} /\ polled.answer = "none"
    BY DEF Init, NoPoll
  <2> QED
    BY <2>1 DEF Reported
<1> QED
  BY <1>1, <1>2, <1>3, <1>4, <1>5, <1>6, InvParts

LEMMA StartInv ==
  ASSUME ServerInv, NEW e \in {"poll", "http", "dns"}, Start(e)
  PROVE  ServerInv'
<1>0. /\ TypeOK /\ PollType /\ StoreInv /\ CleanerUp /\ Ordered
      /\ Queried /\ Recorded /\ Reported
  BY InvParts
<1>1. /\ UNCHANGED <<config, ctxDone, now, nextTick, storage, dnsBuf, handlers, datagrams,
                     polled, seen, called>>
      /\ phase = e
  BY DEF Start
<1>2. /\ config.standalone \in BOOLEAN
      /\ config.local \subseteq {"poll", "http", "dns"}
  BY <1>0, TypeFacts, CallbackAssumption
<1>3. phase' = Following[e] \/ phase' = "failed"
  BY DEF Start
<1>4. /\ phase' \in {"poll", "http", "dns", "serving", "failed"}
      /\ config.standalone => phase' # "dns"
  <2>1. CASE config.standalone
    <3>1. e = "poll" \/ e = "http"
      BY <1>0, <1>1, <2>1 DEF Ordered
    <3>2. Following[e] \in {"poll", "serving"}
      BY <2>1, <3>1 DEF Following
    <3> QED
      BY <1>3, <3>2
  <2>2. CASE ~config.standalone
    <3>1. Following[e] \in {"http", "dns", "serving"}
      BY <2>2 DEF Following
    <3> QED
      BY <1>3, <2>2, <3>1
  <2> QED
    BY <2>1, <2>2
<1>5. /\ up' \subseteq config.local
      /\ dnsLoop' \in {"off", "loop", "returned"}
  BY <1>0, TypeFacts DEF Start
<1>6. /\ cleaning' \in BOOLEAN
      /\ cleaning' => cleaning
      /\ cleaning' \/ ctxDone \/ (up' = {} /\ phase' = "failed")
  <2>1. cleaning \in BOOLEAN
    BY <1>0, TypeFacts
  <2>2. phase # "failed"
    BY <1>1
  <2>3. cleaning \/ ctxDone
    BY <1>0, <2>2 DEF CleanerUp
  <2>4. CASE cleaning' = cleaning
    BY <2>1, <2>3, <2>4
  <2>5. CASE /\ phase' = "failed"
             /\ up' = IF config.standalone THEN {} ELSE up
             /\ cleaning' = (cleaning /\ ~config.standalone)
    <3>1. CASE config.standalone
      BY <1>2, <2>1, <2>5, <3>1
    <3>2. CASE ~config.standalone
      <4>1. cleaning' = cleaning
        BY <2>1, <2>5, <3>2
      <4> QED
        BY <2>1, <2>3, <4>1
    <3> QED
      BY <3>1, <3>2
  <2> QED
    BY <2>4, <2>5 DEF Start
<1>7. TypeOK' /\ PollType'
  BY <1>0, <1>1, <1>4, <1>5, <1>6 DEF TypeOK, PollType
<1>8. StoreInv'
  BY <1>0, <1>1, <1>6, StoreSame
<1>9. CleanerUp' /\ Ordered'
  BY <1>1, <1>4, <1>6, Zenon DEF CleanerUp, Ordered
<1>10. Queried' /\ Recorded' /\ Reported'
  BY <1>0, <1>1, CallsSame
<1> QED
  BY <1>7, <1>8, <1>9, <1>10, InvParts DEF ServerInv, StoreInv

LEMMA ServerStepInv ==
  ASSUME ServerInv, Shutdown \/ Cancel \/ LoopDNS
  PROVE  ServerInv'
<1>0. /\ TypeOK /\ PollType /\ StoreInv /\ CleanerUp /\ Ordered
      /\ Queried /\ Recorded /\ Reported
  BY InvParts
<1>1. /\ UNCHANGED <<config, now, nextTick, cleaning, storage, dnsBuf, handlers, datagrams,
                     polled, seen, called>>
      /\ dnsLoop' \in {"off", "loop", "returned"}
  BY <1>0 DEF Shutdown, Cancel, LoopDNS, serverVars, storeVars, dnsVars, TypeOK
<1>2. \/ UNCHANGED <<phase, up>>
      \/ phase = "serving" /\ phase' = "shutdown" /\ up' = {}
  BY DEF Shutdown, Cancel, LoopDNS, serverVars
<1>3. /\ ctxDone' \in BOOLEAN
      /\ ctxDone => ctxDone'
  <2>1. CASE Cancel
    BY <2>1 DEF Cancel
  <2>2. CASE Shutdown \/ LoopDNS
    <3>1. ctxDone' = ctxDone
      BY <2>2 DEF Shutdown, LoopDNS, serverVars
    <3> QED
      BY <1>0, <3>1 DEF TypeOK
  <2> QED
    BY <2>1, <2>2
<1>4. TypeOK' /\ PollType'
  BY <1>0, <1>1, <1>2, <1>3 DEF TypeOK, PollType
<1>5. StoreInv'
  BY <1>0, <1>1, StoreSame
<1>6. CleanerUp'
  BY <1>0, <1>1, <1>2, <1>3 DEF CleanerUp
<1>7. Ordered'
  BY <1>0, <1>1, <1>2 DEF Ordered
<1>8. Queried' /\ Recorded' /\ Reported'
  BY <1>0, <1>1, <1>3, CallsSame
<1> QED
  BY <1>4, <1>5, <1>6, <1>7, <1>8, InvParts DEF ServerInv, StoreInv

LEMMA TickInv ==
  ASSUME ServerInv, Tick
  PROVE  ServerInv'
<1>0. /\ TypeOK /\ PollType /\ StoreInv /\ CleanerUp /\ Ordered
      /\ Queried /\ Recorded /\ Reported
  BY InvParts
<1>1. /\ UNCHANGED <<config, phase, up, ctxDone, nextTick, cleaning, storage, dnsLoop, dnsBuf,
                     handlers, datagrams, polled, seen, called>>
      /\ now' = now + 1 /\ now < MaxTime
      /\ cleaning => now < nextTick
  BY DEF Tick, serverVars, storeVars, dnsVars
<1>2. /\ now \in Nat /\ nextTick \in Nat
      /\ seen \in [Ids \X Types -> {Never} \cup 0 .. MaxTime]
      /\ \A c \in Ids, t \in Types : seen[<<c, t>>] \in Int
      /\ \A x \in Ids \X Types : seen[x] \in Int
  <2>1. now \in Nat /\ nextTick \in Nat /\ StoreType
    BY <1>0, TypeFacts
  <2>2. seen \in [Ids \X Types -> Int]
    BY <2>1, Times DEF StoreType, Never
  <2> QED
    BY <2>1, <2>2 DEF StoreType
<1>3. now' \in 0 .. MaxTime
  BY <1>1, <1>2, Times
<1>4. TypeOK' /\ PollType'
  BY <1>0, <1>1, <1>3 DEF TypeOK, PollType
<1>5. Held' /\ Caused'
  BY <1>0, <1>1 DEF StoreInv, Held, Caused
<1>6. Past'
  <2> SUFFICES ASSUME NEW x \in Ids \X Types
               PROVE  seen[x] <= now + 1
    BY <1>1 DEF Past
  <2>1. seen[x] <= now
    BY <1>0 DEF StoreInv, Past
  <2> QED
    BY <1>2, <2>1
<1>7. Kept'
  <2> SUFFICES ASSUME NEW c \in Ids, NEW t \in Types,
                      seen[<<c, t>>] # Never, now + 1 <= seen[<<c, t>>] + TTL
               PROVE  [type |-> t, at |-> seen[<<c, t>>]] \in storage[c]
    BY <1>1 DEF Kept
  <2>1. now <= seen[<<c, t>>] + TTL
    BY <1>2, Times
  <2> QED
    BY <1>0, <2>1 DEF StoreInv, Kept
<1>8. Swept'
  <2> SUFFICES ASSUME cleaning
               PROVE  /\ now + 1 <= nextTick
                      /\ nextTick <= now + 1 + CleanupInterval
                      /\ \A c \in Ids : \A i \in storage[c] :
                           nextTick <= i.at + TTL + CleanupInterval
    BY <1>1 DEF Swept
  <2>1. /\ nextTick <= now + CleanupInterval
        /\ \A c \in Ids : \A i \in storage[c] : nextTick <= i.at + TTL + CleanupInterval
    BY <1>0 DEF StoreInv, Swept
  <2> QED
    BY <1>1, <1>2, <2>1, Times
<1>9. CleanerUp' /\ Ordered' /\ Queried' /\ Recorded' /\ Reported'
  <2>1. CleanerUp' /\ Ordered'
    BY <1>0, <1>1, Zenon DEF CleanerUp, Ordered
  <2> QED
    BY <1>0, <1>1, <2>1, CallsSame
<1> QED
  BY <1>4, <1>5, <1>6, <1>7, <1>8, <1>9, InvParts DEF ServerInv, StoreInv

LEMMA CleanupInv ==
  ASSUME ServerInv, Cleanup
  PROVE  ServerInv'
<1>0. /\ TypeOK /\ PollType /\ StoreInv /\ CleanerUp /\ Ordered
      /\ Queried /\ Recorded /\ Reported
  BY InvParts
<1>1. /\ UNCHANGED <<config, phase, up, ctxDone, now, dnsLoop, dnsBuf, handlers, datagrams,
                     polled, seen, called>>
      /\ now = nextTick /\ cleaning
  BY DEF Cleanup, serverVars, dnsVars
<1>2. Queried' /\ Recorded' /\ Reported'
  BY <1>0, <1>1, CallsSame
<1>3. CASE ctxDone
  <2>1. ~cleaning' /\ cleaning' \in BOOLEAN /\ UNCHANGED <<storage, nextTick>>
    BY <1>3 DEF Cleanup
  <2>2. TypeOK' /\ PollType'
    BY <1>0, <1>1, <2>1 DEF TypeOK, PollType
  <2>3. StoreInv'
    BY <1>0, <1>1, <2>1, StoreSame
  <2>4. CleanerUp' /\ Ordered'
    BY <1>0, <1>1, <1>3 DEF CleanerUp, Ordered
  <2> QED
    BY <1>2, <2>2, <2>3, <2>4, InvParts DEF ServerInv, StoreInv
<1>4. CASE ~ctxDone
  <2>1. /\ storage' = [c \in Ids |-> {i \in storage[c] : ~Expired(i)}]
        /\ nextTick' = nextTick + CleanupInterval
        /\ cleaning' = cleaning
    BY <1>4 DEF Cleanup
  <2>2. /\ now \in Nat /\ nextTick \in Nat /\ StoreType
    BY <1>0, TypeFacts
  <2>3. \A c \in Ids : storage'[c] = {i \in storage[c] : ~Expired(i)}
    BY <2>1
  <2>4. storage' \in [Ids -> SUBSET Interaction]
    BY <2>1, <2>2 DEF StoreType
  <2>5. nextTick' \in Nat
    BY <2>1, <2>2, Times
  <2>6. \A c \in Ids : \A i \in storage[c] : i \in Interaction /\ i.at \in Nat
    BY <2>2, Times DEF StoreType, Interaction
  <2>7. TypeOK' /\ PollType'
    BY <1>0, <1>1, <2>1, <2>4, <2>5 DEF TypeOK, PollType
  <2>8. Held' /\ Past' /\ Caused'
    BY <1>0, <1>1, <2>3 DEF StoreInv, Held, Past, Caused
  <2>9. Kept'
    <3> SUFFICES ASSUME NEW c \in Ids, NEW t \in Types,
                        seen[<<c, t>>] # Never, now <= seen[<<c, t>>] + TTL
                 PROVE  [type |-> t, at |-> seen[<<c, t>>]] \in storage'[c]
      BY <1>1 DEF Kept
    <3> DEFINE i == [type |-> t, at |-> seen[<<c, t>>]]
    <3>1. i \in storage[c] /\ i.at = seen[<<c, t>>]
      BY <1>0 DEF StoreInv, Kept
    <3>2. i.at \in Nat
      BY <2>6, <3>1
    <3>3. now <= i.at + TTL
      BY <3>1
    <3> HIDE DEF i
    <3>4. ~Expired(i)
      BY <2>2, <3>2, <3>3, Times DEF Expired
    <3>5. i \in storage'[c]
      BY <2>3, <3>1, <3>4
    <3> QED
      BY <3>5 DEF i
  <2>10. Swept'
    <3>1. now <= nextTick + CleanupInterval /\ nextTick + CleanupInterval <= now + CleanupInterval
      BY <1>1, <2>2, Times
    <3>2. ASSUME NEW c \in Ids, NEW i \in storage'[c]
          PROVE  nextTick + CleanupInterval <= i.at + TTL + CleanupInterval
      <4>1. i.at \in Nat /\ ~Expired(i)
        BY <2>3, <2>6
      <4>2. now <= i.at + TTL
        BY <2>2, <4>1, Times DEF Expired
      <4> QED
        BY <1>1, <2>2, <4>1, <4>2, Times
    <3> QED
      BY <1>1, <2>1, <3>1, <3>2 DEF Swept
  <2>11. CleanerUp' /\ Ordered'
    BY <1>0, <1>1, <2>1, Zenon DEF CleanerUp, Ordered
  <2> QED
    BY <1>2, <2>7, <2>8, <2>9, <2>10, <2>11, InvParts DEF ServerInv, StoreInv
<1> QED
  BY <1>3, <1>4

LEMMA RecordHTTPInv ==
  ASSUME ServerInv, NEW c \in Ids, RecordHTTP(c)
  PROVE  ServerInv'
<1>0. /\ TypeOK /\ PollType /\ StoreInv /\ CleanerUp /\ Ordered
      /\ Queried /\ Recorded /\ Reported
  BY InvParts
<1>1. /\ UNCHANGED <<config, phase, up, ctxDone, now, nextTick, cleaning, dnsLoop, dnsBuf,
                     handlers, datagrams, polled>>
      /\ called' = called \cup {<<c, "http">>}
  BY DEF RecordHTTP, serverVars, dnsVars
<1> DEFINE id == IdentifierFromURL(CallbackURL(config.uris.http, c))
<1>2. IF id = Other THEN UNCHANGED <<storage, seen>> ELSE Register(id, "http")
  BY DEF RecordHTTP, GetHTTPCallbackURI
<1>3. /\ id \in {c, Other}
      /\ BarePath => id = c
  <2>1. config.uris.http.path \in Seq(STRING)
    BY <1>0, TypeFacts, CallbackAssumption
  <2> QED
    BY <2>1, URLNames DEF BarePath
<1> HIDE DEF id
<1>4. called' \subseteq Ids \X Types
  BY <1>0, <1>1, TypeFacts DEF Types
<1>5. Other \notin Ids
  BY CallbackAssumption
\* What the request leaves in the store.
<1>6. /\ StoreType' /\ StoreInv'
      /\ \A x \in Ids \X Types : seen'[x] = seen[x] \/ seen'[x] = now
      /\ BarePath => seen'[<<c, "http">>] = now
  <2>1. CASE id = Other
    <3>1. UNCHANGED <<storage, seen>>
      BY <1>2, <2>1
    <3>2. StoreInv'
      BY <1>0, <1>1, <3>1, StoreSame
    <3>3. StoreType'
      BY <1>0, <3>1, TypeFacts DEF StoreType
    <3> QED
      BY <1>3, <1>5, <2>1, <3>1, <3>2, <3>3
  <2>2. CASE id # Other
    <3>1. id = c /\ Register(c, "http") /\ "http" \in Types
      BY <1>2, <1>3, <2>2 DEF Types
    <3> QED
      BY <1>0, <1>1, <3>1, RegisterKeeps
  <2> QED
    BY <2>1, <2>2
<1>7. TypeOK' /\ PollType'
  BY <1>0, <1>1, <1>4, <1>6 DEF TypeOK, PollType, StoreType
<1>8. CleanerUp' /\ Ordered'
  BY <1>0, <1>1, Zenon DEF CleanerUp, Ordered
<1>9. Queried'
  BY <1>0, <1>1 DEF Queried
<1>10. Recorded'
  <2> SUFFICES ASSUME BarePath, NEW x \in called', x[2] = "http"
               PROVE  seen'[x] # Never
    BY <1>1 DEF Recorded, BarePath
  <2>1. now # Never
    <3>1. \A n \in Nat : n # -1
      OBVIOUS
    <3> QED
      BY <1>0, <3>1, TypeFacts DEF Never
  <2>2. CASE x = <<c, "http">>
    BY <1>6, <2>1, <2>2
  <2>3. CASE x \in called
    <3>1. seen[x] # Never /\ x \in Ids \X Types
      BY <1>0, <2>3, TypeFacts DEF Recorded
    <3> QED
      BY <1>6, <2>1, <3>1
  <2> QED
    BY <1>1, <2>2, <2>3
<1>11. Reported'
  BY <1>0, <1>1 DEF Reported
<1> QED
  BY <1>6, <1>7, <1>8, <1>9, <1>10, <1>11, InvParts DEF ServerInv, StoreInv

LEMMA PollInv ==
  ASSUME ServerInv, NEW c \in Ids, Poll(c)
  PROVE  ServerInv'
<1>0. /\ TypeOK /\ PollType /\ StoreInv /\ CleanerUp /\ Ordered
      /\ Queried /\ Recorded /\ Reported
  BY InvParts
<1>1. UNCHANGED <<config, phase, up, ctxDone, now, nextTick, cleaning, storage, dnsLoop, dnsBuf,
                  handlers, datagrams, seen, called>>
  BY DEF Poll, serverVars, storeVars, dnsVars
<1> DEFINE due == \E t \in Types : seen[<<c, t>>] # Never /\ now <= seen[<<c, t>>] + TTL
           got(reply) == IF reply = "ok" THEN storage[c] ELSE {}
<1>2. PICK reply \in Replies(c) :
        polled' = [id |-> c, at |-> now, reply |-> reply, answer |-> Answer(reply),
                   got |-> got(reply), due |-> Answer(reply) = "no" /\ due]
  BY DEF Poll
<1>3. reply \in {"failed", "otherStatus"} \/ ("poll" \in up /\ reply = Served(c))
  BY <1>2 DEF Replies
<1> HIDE DEF due
<1>4. /\ polled'.id = c /\ polled'.at = now /\ polled'.answer = Answer(reply)
      /\ polled'.got = got(reply) /\ (polled'.due => due) /\ polled'.reply = reply
      /\ DOMAIN polled' = {"id", "at", "got", "reply", "answer", "due"}
  BY <1>2
<1>5. \/ polled'.got = {} /\ reply = "failed" /\ polled'.answer = "error"
      \/ polled'.got = {} /\ reply = "otherStatus"
      \/ polled'.got = {} /\ reply = "notFound" /\ storage[c] = {}
      \/ polled'.got = storage[c] /\ reply = "ok" /\ polled'.answer = "yes" /\ "poll" \in up
  <2>1. CASE reply \in {"failed", "otherStatus"}
    BY <1>4, <2>1 DEF Answer
  <2>2. CASE "poll" \in up /\ reply = Served(c)
    <3>1. CASE storage[c] = {}
      BY <1>4, <2>2, <3>1 DEF Served
    <3>2. CASE storage[c] # {}
      BY <1>4, <2>2, <3>2 DEF Served, Answer
    <3> QED
      BY <3>1, <3>2
  <2> QED
    BY <1>3, <2>1, <2>2
<1> HIDE DEF got
<1>6. /\ now \in 0 .. MaxTime /\ now \in Nat /\ nextTick \in Nat /\ StoreType
  BY <1>0, TypeFacts
<1>7. polled'.got \in SUBSET Interaction
  BY <1>5, <1>6 DEF StoreType
<1>8. TypeOK' /\ PollType'
  BY <1>0, <1>1, <1>4, <1>6, <1>7 DEF TypeOK, PollType
<1>9. StoreInv'
  BY <1>0, <1>1, StoreSame
<1>10. CleanerUp' /\ Ordered'
  BY <1>0, <1>1, Zenon DEF CleanerUp, Ordered
<1>11. Queried' /\ Recorded'
  BY <1>0, <1>1 DEF Queried, Recorded, BarePath
<1>12. \A i \in polled'.got : <<polled'.id, i.type>> \in called'
  <2>1. \A i \in storage[c] : <<c, i.type>> \in called
    BY <1>0 DEF StoreInv, Caused
  <2> QED
    BY <1>1, <1>4, <1>5, <2>1
<1>13. polled'.answer = "no" /\ polled'.due => polled'.reply = "otherStatus"
  <2>1. storage[c] = {} => ~due
    BY <1>0 DEF StoreInv, Kept, due
  <2> QED
    BY <1>4, <1>5, <2>1
<1>14. ~ctxDone' => \A i \in polled'.got : polled'.at <= i.at + TTL + CleanupInterval
  <2> SUFFICES ASSUME ~ctxDone, NEW i \in polled'.got
               PROVE  now <= i.at + TTL + CleanupInterval
    BY <1>1, <1>4
  <2>1. "poll" \in up /\ i \in storage[c]
    BY <1>5
  <2>2. cleaning
    BY <1>0, <2>1 DEF CleanerUp
  <2>3. now <= nextTick /\ nextTick <= i.at + TTL + CleanupInterval
    BY <1>0, <2>1, <2>2 DEF StoreInv, Swept
  <2>4. i.at \in Nat
    BY <1>6, <2>1, Times DEF StoreType, Interaction
  <2> QED
    BY <1>6, <2>3, <2>4, Times
<1>15. Reported'
  BY <1>12, <1>13, <1>14 DEF Reported
<1> QED
  BY <1>8, <1>9, <1>10, <1>11, <1>15, InvParts DEF ServerInv, StoreInv

LEMMA ReadDNSInv ==
  ASSUME ServerInv, NEW q \in Ids \cup {Other}, ReadDNS(q)
  PROVE  ServerInv'
<1>0. /\ TypeOK /\ PollType /\ StoreInv /\ CleanerUp /\ Ordered
      /\ Queried /\ Recorded /\ Reported
  BY InvParts
<1>1. /\ UNCHANGED <<config, phase, up, ctxDone, now, nextTick, cleaning, storage, dnsLoop,
                     polled, seen>>
      /\ datagrams < MaxDatagrams /\ datagrams' = datagrams + 1
      /\ dnsBuf' = q
      /\ handlers' = Append(handlers, q)
      /\ called' = called \cup (({q} \cap Ids) \X {"dns"})
  BY DEF ReadDNS, serverVars, storeVars
<1>2. /\ called' \subseteq Ids \X Types
      /\ q \in Ids => <<q, "dns">> \in called'
      /\ called \subseteq called'
      /\ \A x \in called' : x \in called \/ x[2] = "dns"
  BY <1>0, <1>1, TypeFacts DEF Types
<1>3. datagrams' \in 0 .. MaxDatagrams
  BY <1>0, <1>1, TypeFacts, CallbackAssumption
<1>4. handlers \in Seq(Ids \cup {Other}) /\ handlers' \in Seq(Ids \cup {Other})
  BY <1>0, <1>1, TypeFacts
<1>5. TypeOK' /\ PollType'
  BY <1>0, <1>1, <1>2, <1>3, <1>4 DEF TypeOK, PollType
<1>6. StoreInv'
  BY <1>0, <1>1, <1>2, StoreSame
<1>7. CleanerUp' /\ Ordered'
  BY <1>0, <1>1, Zenon DEF CleanerUp, Ordered
<1>8. Queried'
  <2>1. ASSUME NEW k \in 1 .. Len(handlers'), handlers'[k] \in Ids
        PROVE  <<handlers'[k], "dns">> \in called'
    <3>1. Len(handlers') = Len(handlers) + 1 /\ Len(handlers) \in Nat
      BY <1>1, <1>4
    <3>2. CASE k = Len(handlers) + 1
      <4>1. handlers'[k] = q
        BY <1>1, <1>4, <3>2
      <4> QED
        BY <1>2, <2>1, <4>1
    <3>3. CASE k \in 1 .. Len(handlers)
      <4>1. handlers'[k] = handlers[k]
        BY <1>1, <1>4, <3>3
      <4> QED
        BY <1>0, <1>2, <2>1, <3>3, <4>1 DEF Queried
    <3> QED
      BY <3>1, <3>2, <3>3
  <2> QED
    BY <1>1, <1>2, <2>1 DEF Queried
<1>9. Recorded'
  BY <1>0, <1>1, <1>2 DEF Recorded, BarePath
<1>10. Reported'
  BY <1>0, <1>1, <1>2 DEF Reported
<1> QED
  BY <1>5, <1>6, <1>7, <1>8, <1>9, <1>10, InvParts DEF ServerInv, StoreInv

LEMMA HandleDNSInv ==
  ASSUME ServerInv, NEW k \in 1 .. Len(handlers), HandleDNS(k)
  PROVE  ServerInv'
<1>0. /\ TypeOK /\ PollType /\ StoreInv /\ CleanerUp /\ Ordered
      /\ Queried /\ Recorded /\ Reported
  BY InvParts
<1>1. /\ UNCHANGED <<config, phase, up, ctxDone, now, nextTick, cleaning, dnsLoop, dnsBuf,
                     datagrams, polled, called>>
      /\ handlers' = RemoveAt(handlers, k)
  BY DEF HandleDNS, serverVars
<1>2. PICK q \in Unpacked(handlers[k]) :
        IF q \in Ids THEN Register(q, "dns") ELSE UNCHANGED <<storage, seen>>
  BY DEF HandleDNS, DNSType
\* Even from an overwritten buffer a handler takes an identifier that was queried.
<1>3. q \in Ids => <<q, "dns">> \in called
  <2>1. q = handlers[k] \/ q = dnsBuf \/ q = Other
    BY <1>2 DEF Unpacked
  <2> QED
    BY <1>0, <2>1, CallbackAssumption DEF Queried
<1>4. /\ StoreType' /\ StoreInv'
      /\ \A x \in Ids \X Types : seen'[x] = seen[x] \/ seen'[x] = now
  <2>1. CASE q \in Ids
    <3>1. Register(q, "dns") /\ "dns" \in Types
      BY <1>2, <2>1 DEF Types
    <3> QED
      BY <1>0, <1>1, <1>3, <2>1, <3>1, RegisterKeeps
  <2>2. CASE q \notin Ids
    <3>1. UNCHANGED <<storage, seen>>
      BY <1>2, <2>2
    <3>2. StoreInv'
      BY <1>0, <1>1, <3>1, StoreSame
    <3> QED
      BY <1>0, <3>1, <3>2, TypeFacts DEF StoreType
  <2> QED
    BY <2>1, <2>2
<1>5. /\ handlers' \in Seq(Ids \cup {Other})
      /\ \A i \in 1 .. Len(handlers') : \E j \in 1 .. Len(handlers) : handlers'[i] = handlers[j]
  <2>1. handlers \in Seq(Ids \cup {Other})
    BY <1>0, TypeFacts
  <2> QED
    BY <1>1, <2>1, RemoveAtKeeps
<1>6. TypeOK' /\ PollType'
  BY <1>0, <1>1, <1>4, <1>5 DEF TypeOK, PollType, StoreType
<1>7. CleanerUp' /\ Ordered'
  BY <1>0, <1>1, Zenon DEF CleanerUp, Ordered
<1>8. Queried'
  BY <1>0, <1>1, <1>5 DEF Queried
<1>9. Recorded'
  <2> SUFFICES ASSUME BarePath, NEW x \in called, x[2] = "http"
               PROVE  seen'[x] # Never
    BY <1>1 DEF Recorded, BarePath
  <2>1. now # Never
    <3>1. \A n \in Nat : n # -1
      OBVIOUS
    <3> QED
      BY <1>0, <3>1, TypeFacts DEF Never
  <2>2. seen[x] # Never /\ x \in Ids \X Types
    BY <1>0, TypeFacts DEF Recorded
  <2> QED
    BY <1>4, <2>1, <2>2
<1>10. Reported'
  BY <1>0, <1>1 DEF Reported
<1> QED
  BY <1>4, <1>6, <1>7, <1>8, <1>9, <1>10, InvParts DEF ServerInv, StoreInv

LEMMA NextInv ==
  ASSUME ServerInv, [Next]_vars
  PROVE  ServerInv'
<1>1. ASSUME NEW e \in {"poll", "http", "dns"}, Start(e)
      PROVE  ServerInv'
  BY <1>1, StartInv
<1>2. CASE Shutdown \/ Cancel \/ LoopDNS
  BY <1>2, ServerStepInv
<1>3. CASE Tick
  BY <1>3, TickInv
<1>4. CASE Cleanup
  BY <1>4, CleanupInv
<1>5. ASSUME NEW c \in Ids, RecordHTTP(c) \/ Poll(c)
      PROVE  ServerInv'
  BY <1>5, RecordHTTPInv, PollInv
<1>6. ASSUME NEW q \in Ids \cup {Other}, ReadDNS(q)
      PROVE  ServerInv'
  BY <1>6, ReadDNSInv
<1>7. ASSUME NEW k \in 1 .. Len(handlers), HandleDNS(k)
      PROVE  ServerInv'
  BY <1>7, HandleDNSInv
<1>8. CASE UNCHANGED vars
  <2>1. UNCHANGED <<config, phase, up, ctxDone, now, nextTick, cleaning, storage, dnsLoop,
                    dnsBuf, handlers, datagrams, polled, seen, called>>
    BY <1>8 DEF vars, serverVars, storeVars, dnsVars
  <2>2. TypeOK' /\ PollType' /\ CleanerUp' /\ Ordered'
    BY <2>1, InvParts DEF TypeOK, PollType, CleanerUp, Ordered
  <2>3. StoreInv'
    BY <2>1, InvParts, StoreSame
  <2>4. Queried' /\ Recorded' /\ Reported'
    BY <2>1, InvParts, CallsSame
  <2> QED
    BY <2>2, <2>3, <2>4, InvParts DEF ServerInv, StoreInv
<1> QED
  BY <1>1, <1>2, <1>3, <1>4, <1>5, <1>6, <1>7, <1>8, Zenon DEF Next, Terminated

-----------------------------------------------------------------------------
(* The theorems.                                                           *)

LEMMA InvHolds == Spec => []ServerInv
<1>1. Init => ServerInv
  BY InitInv
<1>2. ServerInv /\ [Next]_vars => ServerInv'
  BY NextInv
<1> QED
  BY <1>1, <1>2, PTL DEF Spec

\* A set all of whose members are equal has at most one.
LEMMA OneOfType ==
  ASSUME NEW S, NEW x, \A i \in S : i = x
  PROVE  Cardinality(S) <= 1
<1>1. CASE S = {}
  BY <1>1, FS_EmptySet
<1>2. CASE S # {}
  <2>1. S = {x}
    BY <1>2
  <2> QED
    BY <2>1, FS_Singleton
<1> QED
  BY <1>1, <1>2

\* The in-memory store keeps every interaction for its whole time to live from
\* the last Register, one per type, through any cleanups; while the cleanup runs
\* a poll reports nothing older than the time to live and one interval.
THEOREM StoreIsExact == Spec => []StoreExact
<1>1. ASSUME ServerInv
      PROVE  StoreExact
  <2>1. TypeOK /\ PollType /\ StoreInv /\ Reported
    BY <1>1, InvParts
  <2>2. ASSUME NEW c \in Ids, NEW t \in Types
        PROVE  Cardinality({i \in storage[c] : i.type = t}) <= 1
    <3> DEFINE x == [type |-> t, at |-> seen[<<c, t>>]]
    <3>1. ASSUME NEW i \in storage[c], i.type = t
          PROVE  i = x
      <4>1. i.at = seen[<<c, t>>]
        BY <2>1, <3>1 DEF StoreInv, Held
      <4>2. i \in Interaction
        BY <2>1, TypeFacts DEF StoreType
      <4> QED
        BY <3>1, <4>1, <4>2 DEF Interaction
    <3>2. \A i \in {j \in storage[c] : j.type = t} : i = x
      BY <3>1
    <3> HIDE DEF x
    <3> QED
      BY <3>2, OneOfType
  <2>3. FreshKept
    BY <2>1, <2>2 DEF FreshKept, StoreInv, Kept
  <2>4. StaleBounded
    <3> SUFFICES ASSUME ~ctxDone, NEW i \in polled.got
                 PROVE  polled.at - i.at <= TTL + CleanupInterval
      BY DEF StaleBounded
    <3>1. polled.at <= i.at + TTL + CleanupInterval
      BY <2>1 DEF Reported
    <3>2. polled.at \in Int /\ i.at \in Int
      BY <2>1, Times DEF PollType, Interaction, Never
    <3> QED
      BY <3>1, <3>2, Times
  <2> QED
    BY <2>3, <2>4 DEF StoreExact
<1> QED
  BY <1>1, InvHolds, PTL

\* A poll reports an interaction only if the target called back that way with
\* that identifier, although the DNS handlers share one buffer; it denies one
\* within its time to live only after a reply of neither 200 nor 404; and each
\* HTTP callback is recorded.
THEOREM PollsAreTrue == Spec => []PollIsTrue
<1>1. ASSUME ServerInv
      PROVE  PollIsTrue
  BY <1>1, InvParts, Zenon DEF Reported, Recorded, BarePath, PollIsTrue
<1> QED
  BY <1>1, InvHolds, PTL

-----------------------------------------------------------------------------
(* The templated engine, a client of the server.                           *)

Strings == Seq(STRING)

Results == {"ok", "failed", "invalid"}

Outcomes == {"none", "noWorkflow", "initError", "failed", "invalid", "report", "nil"}

CleanedRecord == [of : Nat, name : STRING, res : Results]

CallRecord ==
  [pc : {"idle", "next", "act", "unwind", "returned"}, workflow : Nat, todo : Strings,
   uri : Nat, deferred : Seq(Strings), cleaning : Strings, outcome : Outcomes,
   ran : Strings, cleaned : Seq(CleanedRecord)]

Acts(r) == plugin.workflows[r.workflow].acts

CleanupsOf(n) == plugin.actions[n].cleanups

\* Validation has passed once calls are served.
Setting ==
  /\ plugin \in Plugins
  /\ mix \in Mixes
  /\ state = "loaded" => Validate

Phases(r) ==
  /\ r.pc \in {"idle", "next"} => r.outcome = "none"
  /\ r.pc \in {"unwind", "returned"} => r.outcome # "none"
  /\ r.pc = "idle" => r.ran = <<>> /\ r.deferred = <<>> /\ r.cleaned = <<>> /\ r.cleaning = <<>>
  /\ r.pc = "returned" => r.deferred = <<>> /\ r.cleaning = <<>>
  /\ r.pc # "idle" => state = "loaded"

\* The actions of the call's phase among the first m of the workflow, which are
\* those from the given one on.
Passed(c, r, first, m) ==
  /\ first \in 1 .. m + 1
  /\ m <= Len(Acts(r))
  /\ Len(r.ran) = m + 1 - first
  /\ \A i \in 1 .. m : InPhase(c, Acts(r)[i]) <=> first <= i
  /\ \A j \in DOMAIN r.ran : r.ran[j] = Acts(r)[first + j - 1]

\* Where a call is in its workflow.
Placed(c, r) ==
  /\ r.pc \in {"next", "act"} /\ r.outcome = "none" =>
       /\ r.workflow \in DOMAIN plugin.workflows
       /\ \E first, m \in Nat :
            /\ Passed(c, r, first, m)
            /\ Len(r.todo) = Len(Acts(r)) - m
            /\ \A i \in 1 .. Len(r.todo) : r.todo[i] = Acts(r)[m + i]
  /\ r.pc = "act" /\ r.outcome = "none" => r.todo # <<>> /\ InPhase(c, Head(r.todo))
  /\ r.outcome \in {"report", "nil"} =>
       /\ r.workflow \in DOMAIN plugin.workflows
       /\ \E first \in 1 .. Len(Acts(r)) + 1 :
            /\ {i \in DOMAIN Acts(r) : InPhase(c, Acts(r)[i])} = Part(first, Len(r.ran))
            /\ \A j \in DOMAIN r.ran : r.ran[j] = Acts(r)[first + j - 1]

\* What was cleaned up of the k-th action that succeeded: a part of the history.
Undone(r, k, first, n) ==
  /\ first \in 1 .. Len(r.cleaned) + 1
  /\ n \in 0 .. Len(CleanupsOf(r.ran[k]))
  /\ {i \in DOMAIN r.cleaned : r.cleaned[i].of = k} = Part(first, n)
  /\ \A i \in 1 .. n : r.cleaned[first + i - 1].name = CleanupsOf(r.ran[k])[i]
  /\ \A i \in 1 .. n - 1 : r.cleaned[first + i - 1].res = "ok"

\* A list is run to its end or to its first failure.
RunDown(r, k) ==
  \E first, n \in Nat :
    /\ Undone(r, k, first, n)
    /\ n < Len(CleanupsOf(r.ran[k])) => n > 0 /\ r.cleaned[first + n - 1].res # "ok"

\* The list that is being run, of the action whose list was popped last.
UnderWayAt(r, k, first, n) ==
  /\ Undone(r, k, first, n)
  /\ first + n = Len(r.cleaned) + 1
  /\ \A i \in 1 .. n : r.cleaned[first + i - 1].res = "ok"
  /\ Len(r.cleaning) = Len(CleanupsOf(r.ran[k])) - n
  /\ \A i \in 1 .. Len(r.cleaning) : r.cleaning[i] = CleanupsOf(r.ran[k])[n + i]

UnderWay(r) == \E first, n \in Nat : UnderWayAt(r, Len(r.deferred) + 1, first, n)

\* The stack of cleanups is that of the actions that succeeded, as far as it has
\* not been run; the history is sorted by it.
Stacked(r) ==
  /\ \A j \in DOMAIN r.ran : r.ran[j] \in Names
  /\ Len(r.deferred) <= Len(r.ran)
  /\ \A j \in DOMAIN r.deferred : r.deferred[j] = CleanupsOf(r.ran[j])
  /\ r.outcome = "none" =>
       r.cleaned = <<>> /\ r.cleaning = <<>> /\ Len(r.deferred) = Len(r.ran)
  /\ r.pc = "act" /\ r.outcome # "none" => r.cleaning # <<>>
  /\ r.cleaning # <<>> => Len(r.deferred) < Len(r.ran)
  /\ \A i, j \in DOMAIN r.cleaned : i < j => r.cleaned[i].of >= r.cleaned[j].of
  /\ \A i \in DOMAIN r.cleaned :
       r.cleaned[i].of \in Len(r.deferred) + 1 .. Len(r.ran) /\ r.cleaned[i].res # "notFound"
  /\ \A k \in Len(r.deferred) + 1 .. Len(r.ran) :
       IF k = Len(r.deferred) + 1 /\ r.cleaning # <<>> THEN UnderWay(r) ELSE RunDown(r, k)

CallInv(c, r) == r \in CallRecord /\ Phases(r) /\ Placed(c, r) /\ Stacked(r)

EngineInv ==
  /\ Setting
  /\ DOMAIN call = Calls
  /\ \A c \in Calls : CallInv(c, call[c])

LEMMA Room ==
  ASSUME NEW a \in Nat, NEW b \in Nat, NEW n \in Nat, b > 0, b = a - n
  PROVE  n + 1 \in 1 .. a
OBVIOUS

LEMMA PluginFacts ==
  ASSUME Setting
  PROVE  /\ plugin.workflows \in Seq([needsCallback : BOOLEAN, acts : Strings])
         /\ DOMAIN plugin.workflows \subseteq Nat
         /\ \A n \in Names : CleanupsOf(n) \in Strings
         /\ \A n \in Names : ActionPhase(n) \in 1 .. 2
         /\ \A c \in Calls : TargetPhase(c) \in 0 .. 2
         /\ \A w \in DOMAIN plugin.workflows : plugin.workflows[w].acts \in Strings
<1>1. /\ plugin.workflows \in Seq([needsCallback : BOOLEAN, acts : Strings])
      /\ \A n \in Names : plugin.actions[n].phase \in 0 .. 2 /\ CleanupsOf(n) \in Strings
      /\ \A c \in Calls : mix[c].kind \in {"detect", "fingerprint", "test"}
  BY EngineAssumption DEF Setting, Names, CleanupsOf, Strings
<1>2. \A n \in Names : ActionPhase(n) \in 1 .. 2
  <2> TAKE n \in Names
  <2>1. plugin.actions[n].phase \in 0 .. 2
    BY <1>1
  <2> QED
    BY <2>1 DEF ActionPhase, Undefined, Detection
<1>3. \A c \in Calls : TargetPhase(c) \in 0 .. 2
  BY <1>1 DEF TargetPhase, Undefined, Fingerprint, Detection
<1>4. \A w \in DOMAIN plugin.workflows : plugin.workflows[w].acts \in Strings
  <2> TAKE w \in DOMAIN plugin.workflows
  <2> DEFINE Flows == [needsCallback : BOOLEAN, acts : Strings]
  <2>1. plugin.workflows \in Seq(Flows)
    BY <1>1
  <2> HIDE DEF Flows
  <2>2. plugin.workflows[w] \in Flows
    BY <2>1, ElementOfSeq
  <2> QED
    BY <2>2 DEF Flows
<1>5. DOMAIN plugin.workflows \subseteq Nat
  <2> DEFINE Flows == [needsCallback : BOOLEAN, acts : Strings]
  <2>1. plugin.workflows \in Seq(Flows)
    BY <1>1
  <2> HIDE DEF Flows
  <2> QED
    BY <2>1
<1> QED
  BY <1>1, <1>2, <1>3, <1>4, <1>5

\* What validation has established.
LEMMA Validated ==
  ASSUME Validate
  PROVE  /\ \A n \in Names : \A i \in DOMAIN CleanupsOf(n) : CleanupsOf(n)[i] \in Names
         /\ \A n \in Names : HasRunner(n)
         /\ \A w \in DOMAIN plugin.workflows :
              LET acts == plugin.workflows[w].acts IN
              /\ \A i \in DOMAIN acts : acts[i] \in Names
              /\ \A i, j \in DOMAIN acts : i < j => ActionPhase(acts[i]) <= ActionPhase(acts[j])
BY Zenon DEF Validate, CleanupsOf, Range

\* A call that leaves its workflow.
LEMMA LeaveKept ==
  ASSUME NEW c \in Calls, NEW r, CallInv(c, r), r.outcome = "none", state = "loaded",
         NEW out \in Outcomes, out # "none",
         out \in {"report", "nil"} =>
           /\ r.workflow \in DOMAIN plugin.workflows
           /\ \E first \in 1 .. Len(Acts(r)) + 1 :
                /\ {i \in DOMAIN Acts(r) : InPhase(c, Acts(r)[i])} = Part(first, Len(r.ran))
                /\ \A j \in DOMAIN r.ran : r.ran[j] = Acts(r)[first + j - 1]
  PROVE  CallInv(c, Leave(r, out))
<1> DEFINE q == Leave(r, out)
<1>1. r \in CallRecord /\ Stacked(r)
  BY DEF CallInv
<1>2. /\ q \in CallRecord
      /\ q.pc = "unwind" /\ q.outcome = out /\ q.ran = r.ran /\ q.cleaned = r.cleaned
      /\ q.deferred = r.deferred /\ q.cleaning = r.cleaning /\ q.workflow = r.workflow
  BY <1>1 DEF Leave, CallRecord
<1> HIDE DEF q
<1>3. Phases(q)
  BY <1>2 DEF Phases
<1>4. Acts(q) = Acts(r)
  BY <1>2 DEF Acts
<1>5. Placed(c, q)
  BY <1>2, <1>4 DEF Placed
<1>6. r.cleaned = <<>> /\ r.cleaning = <<>> /\ Len(r.deferred) = Len(r.ran)
  BY <1>1 DEF Stacked
<1>7. Len(q.deferred) \in Nat
  BY <1>2 DEF CallRecord
<1>8. Len(q.deferred) + 1 .. Len(q.ran) = {}
  BY <1>2, <1>6, <1>7
<1>9. Stacked(q)
  BY <1>1, <1>2, <1>6, <1>8 DEF Stacked
<1> QED
  BY <1>2, <1>3, <1>5, <1>9 DEF CallInv, q

\* An action of the workflow that succeeded.
LEMMA RunsOn ==
  ASSUME Setting, NEW c \in Calls, NEW r, CallInv(c, r), r.outcome = "none", r.pc = "act"
  PROVE  CallInv(c, [r EXCEPT !.pc = "next", !.todo = Tail(@), !.ran = Append(@, Head(r.todo)),
                              !.deferred = Append(@, CleanupsOf(Head(r.todo)))])
<1> DEFINE n == Head(r.todo)
           d == CleanupsOf(n)
           q == [r EXCEPT !.pc = "next", !.todo = Tail(@), !.ran = Append(@, n),
                          !.deferred = Append(@, d)]
<1>1. r \in CallRecord /\ Phases(r) /\ Placed(c, r) /\ Stacked(r)
  BY DEF CallInv
<1>2. state = "loaded" /\ Validate
  BY <1>1 DEF Phases, Setting
<1>3. /\ r.todo \in Strings /\ r.ran \in Strings /\ r.deferred \in Seq(Strings)
      /\ r.todo # <<>> /\ InPhase(c, n)
  BY <1>1 DEF CallRecord, Placed
<1>4. /\ r.cleaned = <<>> /\ r.cleaning = <<>> /\ Len(r.deferred) = Len(r.ran)
      /\ \A j \in DOMAIN r.ran : r.ran[j] \in Names
      /\ \A j \in DOMAIN r.deferred : r.deferred[j] = CleanupsOf(r.ran[j])
  BY <1>1 DEF Stacked
<1>5. /\ r.workflow \in DOMAIN plugin.workflows
      /\ Acts(r) \in Strings
  BY <1>1, PluginFacts DEF Placed, Acts
<1>6. PICK first, m \in Nat :
        /\ Passed(c, r, first, m)
        /\ Len(r.todo) = Len(Acts(r)) - m
        /\ \A i \in 1 .. Len(r.todo) : r.todo[i] = Acts(r)[m + i]
  BY <1>1 DEF Placed
<1>7. /\ Tail(r.todo) \in Strings /\ Len(Tail(r.todo)) = Len(r.todo) - 1
      /\ \A i \in 1 .. Len(Tail(r.todo)) : Tail(r.todo)[i] = r.todo[i + 1]
      /\ n = r.todo[1] /\ n \in STRING /\ Len(r.todo) \in Nat \ {0}
  <2>1. r.todo \in Seq(STRING) /\ r.todo # <<>>
    BY <1>3 DEF Strings
  <2>2. Len(r.todo) \in Nat \ {0}
    BY <2>1, EmptySeq, LenProperties
  <2>3. n = r.todo[1] /\ n \in STRING
    BY <2>1, HeadTailProperties
  <2>4. /\ Tail(r.todo) \in Seq(STRING) /\ Len(Tail(r.todo)) = Len(r.todo) - 1
        /\ \A i \in 1 .. Len(Tail(r.todo)) : Tail(r.todo)[i] = r.todo[i + 1]
    BY <2>1, HeadTailProperties
  <2> QED
    BY <2>2, <2>3, <2>4 DEF Strings
<1>8. /\ Len(Acts(r)) \in Nat /\ m < Len(Acts(r)) /\ n = Acts(r)[m + 1] /\ n \in Names
  <2>1. Len(Acts(r)) \in Nat /\ DOMAIN Acts(r) = 1 .. Len(Acts(r))
    BY <1>5 DEF Strings
  <2>2. m < Len(Acts(r)) /\ 1 \in 1 .. Len(r.todo)
    <3>1. Len(Acts(r)) \in Nat /\ m \in Nat /\ Len(r.todo) = Len(Acts(r)) - m
      BY <1>6, <2>1
    <3>2. Len(r.todo) \in Nat /\ Len(r.todo) > 0
      BY <1>7
    <3> QED
      BY <3>1, <3>2
  <2>3. n = Acts(r)[m + 1]
    BY <1>6, <1>7, <2>2
  <2>4. \A i \in DOMAIN Acts(r) : Acts(r)[i] \in Names
    BY <1>2, <1>5, Validated DEF Acts
  <2> QED
    BY <2>1, <2>2, <2>3, <2>4
<1>9. d \in Strings
  BY <1>8, PluginFacts
<1> HIDE DEF d, n
<1>10. /\ Append(r.ran, n) \in Strings /\ Len(Append(r.ran, n)) = Len(r.ran) + 1
       /\ Append(r.ran, n)[Len(r.ran) + 1] = n
       /\ \A j \in 1 .. Len(r.ran) : Append(r.ran, n)[j] = r.ran[j]
       /\ Len(r.ran) \in Nat
  BY <1>3, <1>7 DEF Strings
<1>11. /\ Append(r.deferred, d) \in Seq(Strings) /\ Len(Append(r.deferred, d)) = Len(r.deferred) + 1
       /\ Append(r.deferred, d)[Len(r.deferred) + 1] = d
       /\ \A j \in 1 .. Len(r.deferred) : Append(r.deferred, d)[j] = r.deferred[j]
       /\ Len(r.deferred) \in Nat
  BY <1>3, <1>9
<1>12. /\ q \in CallRecord
       /\ q.pc = "next" /\ q.outcome = "none" /\ q.ran = Append(r.ran, n) /\ q.cleaned = <<>>
       /\ q.deferred = Append(r.deferred, d) /\ q.cleaning = <<>> /\ q.workflow = r.workflow
       /\ q.todo = Tail(r.todo)
  BY <1>1, <1>4, <1>7, <1>10, <1>11 DEF CallRecord
<1> HIDE DEF q
<1>13. Phases(q)
  BY <1>2, <1>12 DEF Phases
<1>14. Acts(q) = Acts(r)
  BY <1>12 DEF Acts
<1>15. Passed(c, q, first, m + 1)
  <2>1. /\ first \in 1 .. m + 1 /\ m <= Len(Acts(r)) /\ Len(r.ran) = m + 1 - first
        /\ \A i \in 1 .. m : InPhase(c, Acts(r)[i]) <=> first <= i
        /\ \A j \in DOMAIN r.ran : r.ran[j] = Acts(r)[first + j - 1]
    BY <1>6 DEF Passed
  <2>2. \A i \in 1 .. m + 1 : InPhase(c, Acts(r)[i]) <=> first <= i
    <3> TAKE i \in 1 .. m + 1
    <3>1. CASE i = m + 1
      BY <1>3, <1>8, <2>1, <3>1 DEF n
    <3>2. CASE i # m + 1
      BY <2>1, <3>2
    <3> QED
      BY <3>1, <3>2
  <2>3. DOMAIN q.ran = 1 .. Len(r.ran) + 1 /\ DOMAIN r.ran = 1 .. Len(r.ran)
    BY <1>3, <1>10, <1>12 DEF Strings
  <2>4. \A j \in DOMAIN q.ran : q.ran[j] = Acts(r)[first + j - 1]
    <3> TAKE j \in DOMAIN q.ran
    <3>1. CASE j = Len(r.ran) + 1
      <4>1. first + j - 1 = m + 1
        BY <2>1, <3>1
      <4> QED
        BY <1>8, <1>10, <1>12, <3>1, <4>1
    <3>2. CASE j # Len(r.ran) + 1
      <4>1. j \in 1 .. Len(r.ran)
        BY <1>10, <2>3, <3>2
      <4>2. q.ran[j] = r.ran[j] /\ j \in DOMAIN r.ran
        BY <1>10, <1>12, <2>3, <4>1
      <4> QED
        BY <2>1, <4>2
    <3> QED
      BY <3>1, <3>2
  <2> QED
    <3>1. first \in 1 .. (m + 1) + 1 /\ m + 1 <= Len(Acts(r))
      BY <1>8, <2>1
    <3>2. Len(q.ran) = (m + 1) + 1 - first
      <4>1. Len(q.ran) = Len(r.ran) + 1
        BY <1>10, <1>12
      <4> QED
        BY <2>1, <4>1
    <3> QED
      BY <1>14, <2>2, <2>4, <3>1, <3>2 DEF Passed
<1>16. Len(q.todo) = Len(Acts(q)) - (m + 1)
       /\ \A i \in 1 .. Len(q.todo) : q.todo[i] = Acts(q)[m + 1 + i]
  <2>1. Len(q.todo) = Len(Acts(q)) - (m + 1)
    <3>1. Len(q.todo) = Len(r.todo) - 1 /\ Len(r.todo) = Len(Acts(r)) - m
      BY <1>6, <1>7, <1>12
    <3> QED
      BY <1>8, <1>14, <3>1
  <2>2. \A i \in 1 .. Len(q.todo) : q.todo[i] = Acts(q)[m + 1 + i]
    <3> TAKE i \in 1 .. Len(q.todo)
    <3>1. i + 1 \in 1 .. Len(r.todo) /\ q.todo[i] = r.todo[i + 1]
      BY <1>7, <1>12
    <3>2. r.todo[i + 1] = Acts(r)[m + (i + 1)]
      BY <1>6, <3>1
    <3>3. m + (i + 1) = m + 1 + i
      OBVIOUS
    <3> QED
      BY <1>14, <3>1, <3>2, <3>3
  <2> QED
    BY <2>1, <2>2
<1>17. Placed(c, q)
  <2>1. m + 1 \in Nat
    OBVIOUS
  <2> QED
    BY <1>5, <1>12, <1>15, <1>16, <2>1 DEF Placed
<1>18. Stacked(q)
  <2>1. \A j \in DOMAIN q.ran : q.ran[j] \in Names
    <3> TAKE j \in DOMAIN q.ran
    <3>1. CASE j = Len(r.ran) + 1
      BY <1>8, <1>10, <1>12, <3>1
    <3>2. CASE j # Len(r.ran) + 1
      <4>1. j \in 1 .. Len(r.ran)
        BY <1>10, <1>12, <3>2
      <4>2. q.ran[j] = r.ran[j] /\ j \in DOMAIN r.ran
        BY <1>10, <1>12, <4>1
      <4> QED
        BY <1>4, <4>2
    <3> QED
      BY <3>1, <3>2
  <2>2. \A j \in DOMAIN q.deferred : q.deferred[j] = CleanupsOf(q.ran[j])
    <3>1. DOMAIN q.deferred = 1 .. Len(r.ran) + 1 /\ DOMAIN r.deferred = 1 .. Len(r.ran)
      BY <1>3, <1>4, <1>11, <1>12
    <3> QED
      BY <1>4, <1>10, <1>11, <1>12, <3>1 DEF d
  <2>3. Len(q.deferred) = Len(q.ran) /\ Len(q.ran) \in Nat
    BY <1>4, <1>10, <1>11, <1>12
  <2>4. Len(q.deferred) + 1 .. Len(q.ran) = {}
    BY <2>3
  <2> QED
    BY <1>12, <2>1, <2>2, <2>3, <2>4 DEF Stacked
<1> QED
  BY <1>12, <1>13, <1>17, <1>18 DEF CallInv, q, n, d

\* An action of a cleanup list.
LEMMA CleansAt ==
  ASSUME Setting, NEW c \in Calls, NEW r, CallInv(c, r),
         r.outcome # "none", r.cleaning # <<>>, NEW res \in Results,
         NEW k \in Nat, NEW L \in Nat, NEW N \in Nat, NEW want,
         Len(r.deferred) + 1 = k, Len(r.cleaned) = L, Len(r.ran) = N,
         CleanupsOf(r.ran[k]) = want
  PROVE  CallInv(c, [r EXCEPT !.pc = "unwind",
                              !.cleaning = IF res = "ok" THEN Tail(@) ELSE <<>>,
                              !.cleaned = Append(@, [of |-> k, name |-> Head(r.cleaning),
                                                     res |-> res])])
<1> DEFINE e == [of |-> k, name |-> Head(r.cleaning), res |-> res]
           q == [r EXCEPT !.pc = "unwind", !.cleaning = IF res = "ok" THEN Tail(@) ELSE <<>>,
                          !.cleaned = Append(@, e)]
<1> HIDE DEF e, q
<1>1. r \in CallRecord /\ Phases(r) /\ Placed(c, r) /\ Stacked(r)
  BY DEF CallInv
<1>2. /\ r.cleaning \in Seq(STRING) /\ r.cleaning # <<>> /\ Len(r.cleaning) \in Nat
      /\ r.cleaned \in Seq(CleanedRecord) /\ L \in Nat /\ Len(r.deferred) \in Nat
      /\ Len(r.ran) \in Nat /\ DOMAIN r.ran = 1 .. N
      /\ r.deferred \in Seq(Strings)
  BY <1>1 DEF CallRecord, Stacked, Strings
<1>3. /\ Head(r.cleaning) \in STRING /\ Tail(r.cleaning) \in Seq(STRING)
      /\ Len(Tail(r.cleaning)) = Len(r.cleaning) - 1
      /\ \A i \in 1 .. Len(Tail(r.cleaning)) : Tail(r.cleaning)[i] = r.cleaning[i + 1]
      /\ Head(r.cleaning) = r.cleaning[1]
      /\ Len(r.cleaning) > 0
  <2>1. r.cleaning \in Seq(STRING) /\ r.cleaning # <<>>
    BY <1>2
  <2>2. Len(r.cleaning) > 0
    BY <2>1, EmptySeq, LenProperties
  <2>3. Head(r.cleaning) = r.cleaning[1] /\ Head(r.cleaning) \in STRING
    BY <2>1, HeadTailProperties
  <2>4. /\ Tail(r.cleaning) \in Seq(STRING) /\ Len(Tail(r.cleaning)) = Len(r.cleaning) - 1
        /\ \A i \in 1 .. Len(Tail(r.cleaning)) : Tail(r.cleaning)[i] = r.cleaning[i + 1]
    BY <2>1, HeadTailProperties
  <2> QED
    BY <2>2, <2>3, <2>4
<1>4. Len(r.cleaning) > 0
  BY <1>3
<1>5. /\ Len(r.deferred) < Len(r.ran)
      /\ k \in 1 .. N /\ k \in k .. N /\ r.ran[k] \in Names
      /\ UnderWay(r)
  BY <1>1, <1>2 DEF Stacked
<1>6. want \in Seq(STRING) /\ Len(want) \in Nat
  BY <1>5, PluginFacts DEF Strings
<1>7. PICK first, n \in Nat :
        /\ Undone(r, k, first, n)
        /\ first + n = L + 1
        /\ \A i \in 1 .. n : r.cleaned[first + i - 1].res = "ok"
        /\ Len(r.cleaning) = Len(want) - n
        /\ \A i \in 1 .. Len(r.cleaning) : r.cleaning[i] = want[n + i]
  BY <1>5 DEF UnderWay, UnderWayAt
<1>8. e \in CleanedRecord /\ e.of = k /\ e.name = r.cleaning[1] /\ e.res = res
  BY <1>2, <1>3 DEF CleanedRecord, e
<1>9. /\ Append(r.cleaned, e) \in Seq(CleanedRecord)
      /\ Len(Append(r.cleaned, e)) = L + 1
      /\ Append(r.cleaned, e)[L + 1] = e
      /\ \A i \in 1 .. L : Append(r.cleaned, e)[i] = r.cleaned[i]
      /\ DOMAIN Append(r.cleaned, e) = 1 .. L + 1
  <2> DEFINE S == CleanedRecord
  <2>1. r.cleaned \in Seq(S) /\ e \in S
    BY <1>2, <1>8
  <2> HIDE DEF S
  <2>2. /\ Append(r.cleaned, e) \in Seq(S)
        /\ Len(Append(r.cleaned, e)) = L + 1
        /\ Append(r.cleaned, e)[L + 1] = e
        /\ \A i \in 1 .. L : Append(r.cleaned, e)[i] = r.cleaned[i]
    BY <2>1, AppendProperties
  <2>3. DOMAIN Append(r.cleaned, e) = 1 .. L + 1
    BY <2>2, LenProperties
  <2> QED
    BY <2>2, <2>3 DEF S
<1>10. /\ q \in CallRecord
       /\ q.pc = "unwind" /\ q.outcome = r.outcome /\ q.ran = r.ran /\ q.deferred = r.deferred
       /\ q.cleaned = Append(r.cleaned, e) /\ q.workflow = r.workflow
       /\ q.cleaning = IF res = "ok" THEN Tail(r.cleaning) ELSE <<>>
  <2>1. (IF res = "ok" THEN Tail(r.cleaning) ELSE <<>>) \in Strings
    <3>1. Tail(r.cleaning) \in Strings /\ <<>> \in Strings
      BY <1>3 DEF Strings
    <3> QED
      BY Zenon, <3>1
  <2> QED
    BY <1>1, <1>9, <2>1 DEF CallRecord, q
<1>11. Phases(q)
  BY <1>1, <1>10 DEF Phases
<1>12. Placed(c, q)
  <2>1. Acts(q) = Acts(r)
    BY <1>10 DEF Acts
  <2> QED
    BY <1>1, <1>10, <2>1 DEF Placed
<1>13. DOMAIN r.cleaned = 1 .. L /\ DOMAIN q.cleaned = 1 .. L + 1 /\ Len(q.cleaned) = L + 1
  BY <1>2, <1>9, <1>10
<1>14. /\ q.cleaned[L + 1] = e
       /\ \A i \in 1 .. L : q.cleaned[i] = r.cleaned[i]
  BY <1>9, <1>10
<1>15. \A i \in 1 .. L : r.cleaned[i].of \in k .. N /\ r.cleaned[i].res # "notFound"
  BY <1>1, <1>13 DEF Stacked
<1>16. \A j \in k + 1 .. N : RunDown(r, j)
  <2> TAKE j \in k + 1 .. N
  <2>1. j \in k .. N /\ j # k
    BY <1>2
  <2> QED
    BY <1>1, <2>1 DEF Stacked
\* The lists that were run before are not touched.
<1>17. \A j \in k + 1 .. N : RunDown(q, j)
  <2> TAKE j \in k + 1 .. N
  <2> DEFINE wanted == CleanupsOf(r.ran[j])
  <2>1. PICK f, m \in Nat :
          /\ Undone(r, j, f, m)
          /\ m < Len(wanted) => m > 0 /\ r.cleaned[f + m - 1].res # "ok"
    BY <1>16 DEF RunDown
  <2>2. /\ f \in 1 .. L + 1 /\ m \in 0 .. Len(wanted)
        /\ {i \in 1 .. L : r.cleaned[i].of = j} = Part(f, m)
        /\ \A i \in 1 .. m : r.cleaned[f + i - 1].name = wanted[i]
        /\ \A i \in 1 .. m - 1 : r.cleaned[f + i - 1].res = "ok"
    BY <1>13, <2>1 DEF Undone
  <2> HIDE DEF wanted
  <2>3. \A i \in 1 .. m : f + i - 1 \in 1 .. L
    <3> TAKE i \in 1 .. m
    <3>1. f + i - 1 \in Part(f, m)
      BY <2>2 DEF Part
    <3> QED
      BY <2>2, <3>1
  <2>4. {i \in DOMAIN q.cleaned : q.cleaned[i].of = j} = Part(f, m)
    <3>1. \A i \in 1 .. L + 1 : q.cleaned[i].of = j <=> i \in 1 .. L /\ r.cleaned[i].of = j
      <4> TAKE i \in 1 .. L + 1
      <4>1. CASE i = L + 1
        BY <1>2, <1>8, <1>14, <4>1
      <4>2. CASE i \in 1 .. L
        BY <1>14, <4>2
      <4> QED
        BY <1>2, <4>1, <4>2
    <3>2. {i \in DOMAIN q.cleaned : q.cleaned[i].of = j} = {i \in 1 .. L : r.cleaned[i].of = j}
      BY <1>2, <1>13, <3>1
    <3> QED
      BY <2>2, <3>2
  <2>5. \A i \in 1 .. m : q.cleaned[f + i - 1] = r.cleaned[f + i - 1]
    BY <1>14, <2>3
  <2>6. q.ran = r.ran
    BY <1>10
  <2>7. Undone(q, j, f, m)
    <3>1. f \in 1 .. Len(q.cleaned) + 1
      BY <1>2, <1>13, <2>2
    <3>2. \A i \in 1 .. m : q.cleaned[f + i - 1].name = wanted[i]
      BY <2>2, <2>5
    <3>3. \A i \in 1 .. m - 1 : q.cleaned[f + i - 1].res = "ok"
      <4> TAKE i \in 1 .. m - 1
      <4>1. i \in 1 .. m
        OBVIOUS
      <4> QED
        BY <2>2, <2>5, <4>1
    <3> QED
      BY <2>2, <2>4, <2>6, <3>1, <3>2, <3>3 DEF Undone, wanted
  <2>8. m < Len(wanted) => m > 0 /\ q.cleaned[f + m - 1].res # "ok"
    <3> SUFFICES ASSUME m < Len(wanted) PROVE m > 0 /\ q.cleaned[f + m - 1].res # "ok"
      OBVIOUS
    <3>1. m > 0 /\ r.cleaned[f + m - 1].res # "ok"
      BY <2>1 DEF wanted
    <3>2. m \in 1 .. m
      BY <3>1
    <3> QED
      BY <2>5, <3>1, <3>2
  <2> QED
    BY <2>6, <2>7, <2>8 DEF RunDown, wanted

<1>18. n + 1 <= Len(want) /\ n \in Nat /\ first \in Nat /\ n + 1 \in Nat /\ first + n = L + 1
  BY <1>2, <1>4, <1>6, <1>7
<1>19. \A i \in 1 .. n : /\ first + i - 1 \in 1 .. L
                         /\ r.cleaned[first + i - 1].name = want[i]
                         /\ r.cleaned[first + i - 1].res = "ok"
  <2>1. \A i \in 1 .. n : r.cleaned[first + i - 1].name = want[i]
    BY <1>7 DEF Undone
  <2>2. first \in 1 .. L + 1
    BY <1>7 DEF Undone
  <2> TAKE i \in 1 .. n
  <2>3. first + i - 1 \in 1 .. L
    BY <1>18, <2>2
  <2>4. r.cleaned[first + i - 1].res = "ok"
    BY <1>7
  <2> QED
    BY <2>1, <2>3, <2>4
\* The one that is being run has one more entry.
<1>20. Undone(q, k, first, n + 1)
  <2>1. first \in 1 .. L + 1 /\ {i \in 1 .. L : r.cleaned[i].of = k} = Part(first, n)
    BY <1>7, <1>13 DEF Undone
  <2>2. \A i \in 1 .. L + 1 : q.cleaned[i].of = k <=> first <= i
    <3> TAKE i \in 1 .. L + 1
    <3>1. CASE i = L + 1
      BY <1>2, <1>8, <1>14, <2>1, <3>1
    <3>2. CASE i \in 1 .. L
      <4>1. i \in Part(first, n) <=> first <= i
        BY <1>18, <3>2 DEF Part
      <4> QED
        BY <1>14, <2>1, <3>2, <4>1
    <3> QED
      BY <1>2, <3>1, <3>2
  <2>3. {i \in DOMAIN q.cleaned : q.cleaned[i].of = k} = Part(first, n + 1)
    <3>1. \A i \in 1 .. L + 1 : i \in Part(first, n + 1) <=> first <= i
      BY <1>18 DEF Part
    <3>2. Part(first, n + 1) \subseteq 1 .. L + 1
      BY <1>18, <2>1 DEF Part
    <3> QED
      BY <1>13, <2>2, <3>1, <3>2
  <2>4. \A i \in 1 .. n + 1 : q.cleaned[first + i - 1].name = want[i]
    <3> TAKE i \in 1 .. n + 1
    <3>1. CASE i = n + 1
      <4>1. first + i - 1 = L + 1
        BY <1>18, <3>1
      <4>2. 1 \in 1 .. Len(r.cleaning)
        BY <1>2, <1>4
      <4>3. r.cleaning[1] = want[n + 1]
        BY <1>7, <4>2
      <4> QED
        BY <1>8, <1>14, <3>1, <4>1, <4>3
    <3>2. CASE i \in 1 .. n
      BY <1>14, <1>19, <3>2
    <3> QED
      BY <1>18, <3>1, <3>2
  <2>5. \A i \in 1 .. (n + 1) - 1 : q.cleaned[first + i - 1].res = "ok"
    <3> TAKE i \in 1 .. (n + 1) - 1
    <3>1. i \in 1 .. n
      BY <1>18
    <3>2. first + i - 1 \in 1 .. L /\ r.cleaned[first + i - 1].res = "ok"
      BY <1>19, <3>1
    <3> QED
      BY <1>14, <3>2
  <2>6. first \in 1 .. Len(q.cleaned) + 1 /\ n + 1 \in 0 .. Len(want)
    BY <1>2, <1>6, <1>13, <1>18, <2>1
  <2> QED
    BY <1>10, <2>3, <2>4, <2>5, <2>6 DEF Undone
<1>21. IF q.cleaning # <<>> THEN UnderWay(q) ELSE RunDown(q, k)
  <2>1. q.cleaned[first + (n + 1) - 1].res = res
    BY <1>8, <1>14, <1>18
  <2>2. CASE res = "ok" /\ Tail(r.cleaning) # <<>>
    <3>1. q.cleaning = Tail(r.cleaning)
      BY <1>10, <2>2
    <3>2. \A i \in 1 .. n + 1 : q.cleaned[first + i - 1].res = "ok"
      <4> TAKE i \in 1 .. n + 1
      <4>1. CASE i = n + 1
        BY <2>1, <2>2, <4>1
      <4>2. CASE i \in 1 .. n
        BY <1>14, <1>19, <4>2
      <4> QED
        BY <1>18, <4>1, <4>2
    <3>3. Len(q.cleaning) = Len(want) - (n + 1)
      BY <1>3, <1>6, <1>7, <1>18, <3>1
    <3>4. \A i \in 1 .. Len(q.cleaning) : q.cleaning[i] = want[(n + 1) + i]
      <4> TAKE i \in 1 .. Len(q.cleaning)
      <4>1. i + 1 \in 1 .. Len(r.cleaning) /\ q.cleaning[i] = r.cleaning[i + 1]
        BY <1>2, <1>3, <3>1
      <4>2. r.cleaning[i + 1] = want[n + (i + 1)]
        BY <1>7, <4>1
      <4>3. n + (i + 1) = (n + 1) + i
        BY <1>18
      <4> QED
        BY <4>1, <4>2, <4>3
    <3>5. first + (n + 1) = Len(q.cleaned) + 1
      BY <1>2, <1>13, <1>18
    <3>6. UnderWay(q)
      <4>1. Len(q.deferred) + 1 = k /\ CleanupsOf(q.ran[k]) = want
        BY <1>10
      <4>2. UnderWayAt(q, k, first, n + 1)
        BY <1>20, <3>2, <3>3, <3>4, <3>5, <4>1 DEF UnderWayAt
      <4> QED
        BY <1>18, <4>1, <4>2 DEF UnderWay
    <3> QED
      BY <2>2, <3>1, <3>6
  <2>3. CASE ~(res = "ok" /\ Tail(r.cleaning) # <<>>)
    <3>1. q.cleaning = <<>>
      BY <1>10, <2>3
    <3>2. n + 1 < Len(want) => n + 1 > 0 /\ q.cleaned[first + (n + 1) - 1].res # "ok"
      <4>1. CASE res # "ok"
        BY <1>18, <2>1, <4>1
      <4>2. CASE Tail(r.cleaning) = <<>>
        <5>1. Len(Tail(r.cleaning)) = 0
          BY <1>3, <4>2, EmptySeq
        <5>2. Len(r.cleaning) = 1
          BY <1>2, <1>3, <5>1
        <5>3. Len(r.cleaning) = Len(want) - n /\ Len(want) \in Nat
          BY <1>6, <1>7
        <5>4. Len(want) = n + 1
          <6>1. \A a \in Nat : 1 = a - n => a = n + 1
            OBVIOUS
          <6>2. 1 = Len(want) - n
            BY <5>2, <5>3
          <6> QED
            BY Zenon, <1>6, <6>1, <6>2
        <5> QED
          BY <1>18, <5>4
      <4> QED
        BY <2>3, <4>1, <4>2
    <3>3. RunDown(q, k)
      BY <1>10, <1>18, <1>20, <3>2 DEF RunDown
    <3> QED
      BY <3>1, <3>3
  <2> QED
    BY <2>2, <2>3
<1>22. Stacked(q)
  <2>1. /\ Len(q.deferred) = Len(r.deferred) /\ Len(q.ran) = Len(r.ran) /\ q.outcome # "none"
        /\ q.pc # "act"
    BY <1>10
  <2>2. \A i, j \in DOMAIN q.cleaned : i < j => q.cleaned[i].of >= q.cleaned[j].of
    <3> TAKE i, j \in DOMAIN q.cleaned
    <3> SUFFICES ASSUME i < j PROVE q.cleaned[i].of >= q.cleaned[j].of
      OBVIOUS
    <3>1. i \in 1 .. L /\ j \in 1 .. L + 1
      BY <1>2, <1>13
    <3>2. CASE j = L + 1
      <4>1. q.cleaned[j].of = k /\ q.cleaned[i].of \in k .. N
        BY <1>8, <1>14, <1>15, <3>1, <3>2
      <4> QED
        BY <1>2, <4>1
    <3>3. CASE j \in 1 .. L
      BY <1>1, <1>13, <1>14, <3>1, <3>3 DEF Stacked
    <3>4. j = L + 1 \/ j \in 1 .. L
      BY <3>1
    <3> QED
      BY <3>2, <3>3, <3>4
  <2>3. \A i \in DOMAIN q.cleaned : q.cleaned[i].of \in k .. N /\ q.cleaned[i].res # "notFound"
    <3> TAKE i \in DOMAIN q.cleaned
    <3>1. CASE i = L + 1
      <4>1. res # "notFound"
        BY DEF Results
      <4> QED
        BY <1>5, <1>8, <1>14, <3>1, <4>1
    <3>2. CASE i \in 1 .. L
      BY <1>14, <1>15, <3>2
    <3> QED
      BY <1>2, <1>13, <3>1, <3>2
  <2>4. \A j \in k .. N : IF j = k /\ q.cleaning # <<>> THEN UnderWay(q) ELSE RunDown(q, j)
    <3> TAKE j \in k .. N
    <3>1. CASE j = k
      BY <1>21, <3>1
    <3>2. CASE j \in k + 1 .. N
      BY <1>2, <1>17, <3>2
    <3> QED
      BY <1>2, <3>1, <3>2
  <2>5. /\ \A j \in DOMAIN r.ran : r.ran[j] \in Names
        /\ \A j \in DOMAIN r.deferred : r.deferred[j] = CleanupsOf(r.ran[j])
    BY <1>1 DEF Stacked
  <2>6. /\ \A j \in DOMAIN q.ran : q.ran[j] \in Names
        /\ Len(q.deferred) <= Len(q.ran)
        /\ \A j \in DOMAIN q.deferred : q.deferred[j] = CleanupsOf(q.ran[j])
        /\ q.cleaning # <<>> => Len(q.deferred) < Len(q.ran)
    <3>1. \A j \in DOMAIN q.ran : q.ran[j] \in Names
      BY <1>10, <2>5
    <3>2. Len(q.deferred) <= Len(q.ran) /\ Len(q.deferred) < Len(q.ran)
      BY <1>2, <1>5, <1>10
    <3>3. \A j \in DOMAIN q.deferred : q.deferred[j] = CleanupsOf(q.ran[j])
      BY <1>10, <2>5
    <3> QED
      BY <3>1, <3>2, <3>3
  <2>7. Len(q.deferred) + 1 = k /\ Len(q.ran) = N
    BY <1>10
  <2> QED
    BY <2>1, <2>2, <2>3, <2>4, <2>6, <2>7 DEF Stacked
<1> QED
  BY <1>10, <1>11, <1>12, <1>22 DEF CallInv, q, e

LEMMA Cleans ==
  ASSUME Setting, NEW c \in Calls, NEW r, CallInv(c, r),
         r.outcome # "none", r.cleaning # <<>>, NEW res \in Results
  PROVE  CallInv(c, [r EXCEPT !.pc = "unwind",
                              !.cleaning = IF res = "ok" THEN Tail(@) ELSE <<>>,
                              !.cleaned = Append(@, [of |-> Len(r.deferred) + 1,
                                                     name |-> Head(r.cleaning), res |-> res])])
<1>1. /\ r.cleaned \in Seq(CleanedRecord) /\ r.deferred \in Seq(Strings) /\ r.ran \in Seq(STRING)
  BY DEF CallInv, CallRecord, Strings
<1>2. Len(r.deferred) + 1 \in Nat /\ Len(r.cleaned) \in Nat /\ Len(r.ran) \in Nat
  BY <1>1
<1> QED
  BY Zenon, <1>2, CleansAt

\* The action in hand is one of the plugin's.
LEMMA CurrentKnown ==
  ASSUME Setting, state = "loaded", NEW c \in Calls, NEW r, CallInv(c, r),
         r.outcome = "none" => r.pc \in {"next", "act"} /\ r.todo # <<>>,
         r.outcome # "none" => r.cleaning # <<>>
  PROVE  Current(r) \in Names
<1>1. r \in CallRecord /\ Placed(c, r) /\ Stacked(r)
  BY DEF CallInv
<1>2. /\ r.todo \in Seq(STRING) /\ r.cleaning \in Seq(STRING) /\ r.deferred \in Seq(Strings)
      /\ r.ran \in Seq(STRING)
  BY <1>1 DEF CallRecord, Strings
<1>3. Validate
  BY DEF Setting
<1>4. CASE r.outcome = "none"
  <2>1. r.todo # <<>> /\ Current(r) = Head(r.todo)
    BY <1>4 DEF Current
  <2>2. Len(r.todo) \in Nat /\ Len(r.todo) > 0
    BY <1>2, <2>1, EmptySeq, LenProperties
  <2>3. Head(r.todo) = r.todo[1]
    BY <1>2, <2>1, HeadTailProperties
  <2>4. r.workflow \in DOMAIN plugin.workflows
    BY <1>1, <1>4 DEF Placed
  <2>5. Acts(r) \in Seq(STRING)
    BY <2>4, PluginFacts DEF Acts, Strings
  <2>6. PICK first, m \in Nat :
          /\ Passed(c, r, first, m)
          /\ Len(r.todo) = Len(Acts(r)) - m
          /\ \A i \in 1 .. Len(r.todo) : r.todo[i] = Acts(r)[m + i]
    BY <1>1, <1>4 DEF Placed
  <2>7. r.todo[1] = Acts(r)[m + 1]
    BY <2>2, <2>6
  <2>8. m + 1 \in 1 .. Len(Acts(r))
    <3>1. Len(Acts(r)) \in Nat
      BY <2>5
    <3> QED
      BY <2>2, <2>6, <3>1
  <2>9. \A i \in DOMAIN Acts(r) : Acts(r)[i] \in Names
    BY <1>3, <2>4, Validated DEF Acts
  <2>10. DOMAIN Acts(r) = 1 .. Len(Acts(r))
    BY <2>5
  <2> QED
    BY <2>1, <2>3, <2>7, <2>8, <2>9, <2>10
<1>5. CASE r.outcome # "none"
  <2> DEFINE k == Len(r.deferred) + 1
             want == CleanupsOf(r.ran[k])
  <2>1. r.cleaning # <<>> /\ Current(r) = Head(r.cleaning)
    BY <1>5 DEF Current
  <2>2. Len(r.cleaning) \in Nat /\ Len(r.cleaning) > 0
    BY <1>2, <2>1, EmptySeq, LenProperties
  <2>3. Head(r.cleaning) = r.cleaning[1]
    BY <1>2, <2>1, HeadTailProperties
  <2>4. Len(r.deferred) \in Nat /\ Len(r.ran) \in Nat /\ DOMAIN r.ran = 1 .. Len(r.ran)
    BY <1>2
  <2>5. /\ k \in DOMAIN r.ran /\ k \in k .. Len(r.ran) /\ r.ran[k] \in Names
        /\ UnderWay(r)
    BY <1>1, <2>1, <2>4 DEF Stacked
  <2>6. PICK first, n \in Nat : UnderWayAt(r, k, first, n)
    BY <2>5 DEF UnderWay
  <2> HIDE DEF k
  <2>7. /\ Len(r.cleaning) = Len(want) - n
        /\ \A i \in 1 .. Len(r.cleaning) : r.cleaning[i] = want[n + i]
    BY <2>6 DEF UnderWayAt
  <2>8. want \in Seq(STRING)
    BY <2>5, PluginFacts DEF Strings
  <2>9. \A i \in DOMAIN want : want[i] \in Names
    BY <1>3, <2>5, Validated
  <2> HIDE DEF want
  <2>10. r.cleaning[1] = want[n + 1]
    BY <2>2, <2>7
  <2>11. n + 1 \in 1 .. Len(want) /\ DOMAIN want = 1 .. Len(want)
    <3>1. Len(want) \in Nat /\ DOMAIN want = 1 .. Len(want)
      BY <2>8
    <3>2. n + 1 \in 1 .. Len(want)
      BY Zenon, <2>2, <2>7, <3>1, Room
    <3> QED
      BY <3>1, <3>2
  <2> QED
    BY <2>1, <2>3, <2>9, <2>10, <2>11
<1> QED
  BY <1>4, <1>5

\* An action that ended, in the workflow or in a cleanup.
LEMMA EndedKept ==
  ASSUME Setting, state = "loaded", NEW c \in Calls, NEW r, CallInv(c, r),
         NEW res \in Results,
         r.outcome = "none" => r.pc = "act" \/ res # "ok",
         r.outcome # "none" => r.cleaning # <<>>
  PROVE  CallInv(c, Ended(r, res))
<1>1. CASE r.outcome = "none" /\ res = "ok"
  <2>1. Ended(r, res) =
          [r EXCEPT !.pc = "next", !.todo = Tail(@), !.ran = Append(@, Head(r.todo)),
                    !.deferred = Append(@, CleanupsOf(Head(r.todo)))]
    BY <1>1 DEF Ended, Current, CleanupsOf
  <2>2. CallInv(c, [r EXCEPT !.pc = "next", !.todo = Tail(@), !.ran = Append(@, Head(r.todo)),
                             !.deferred = Append(@, CleanupsOf(Head(r.todo)))])
    BY Zenon, <1>1, RunsOn
  <2> QED
    BY Zenon, <2>1, <2>2
<1>2. CASE r.outcome = "none" /\ res # "ok"
  <2>1. Ended(r, res) = Leave(r, res)
    BY <1>2 DEF Ended
  <2>2. res \in Outcomes /\ res # "none" /\ res \notin {"report", "nil"}
    BY <1>2 DEF Outcomes, Results
  <2> QED
    BY Zenon, <1>2, <2>1, <2>2, LeaveKept
<1>3. CASE r.outcome # "none"
  <2>1. Ended(r, res) =
          [r EXCEPT !.pc = "unwind", !.cleaning = IF res = "ok" THEN Tail(@) ELSE <<>>,
                    !.cleaned = Append(@, [of |-> Len(r.deferred) + 1, name |-> Head(r.cleaning),
                                           res |-> res])]
    BY <1>3 DEF Ended, Current
  <2>3. CallInv(c, [r EXCEPT !.pc = "unwind",
                             !.cleaning = IF res = "ok" THEN Tail(@) ELSE <<>>,
                             !.cleaned = Append(@, [of |-> Len(r.deferred) + 1,
                                                    name |-> Head(r.cleaning), res |-> res])])
    BY Zenon, <1>3, Cleans
  <2> QED
    BY Zenon, <2>1, <2>3
<1> QED
  BY <1>1, <1>2, <1>3

\* What was cleaned up is in the history.
LEMMA SameHistory ==
  ASSUME NEW r, NEW q, q.ran = r.ran, q.cleaned = r.cleaned
  PROVE  \A k : RunDown(r, k) => RunDown(q, k)
<1>1. \A k, first, n : Undone(r, k, first, n) => Undone(q, k, first, n)
  BY DEF Undone
<1> TAKE k
<1> SUFFICES ASSUME RunDown(r, k) PROVE RunDown(q, k)
  OBVIOUS
<1>2. PICK first, n \in Nat :
        /\ Undone(r, k, first, n)
        /\ n < Len(CleanupsOf(r.ran[k])) => n > 0 /\ r.cleaned[first + n - 1].res # "ok"
  BY Zenon DEF RunDown
<1>3. Undone(q, k, first, n)
  BY Zenon, <1>1, <1>2
<1>4. n < Len(CleanupsOf(q.ran[k])) => n > 0 /\ q.cleaned[first + n - 1].res # "ok"
  BY <1>2
<1> QED
  BY Zenon, <1>3, <1>4 DEF RunDown

\* A call with an action in hand.
LEMMA InHand ==
  ASSUME state = "loaded", NEW c \in Calls, NEW r, CallInv(c, r), NEW q \in CallRecord,
         q.pc = "act", q.outcome = r.outcome, q.ran = r.ran, q.cleaned = r.cleaned,
         q.deferred = r.deferred, q.cleaning = r.cleaning, q.workflow = r.workflow,
         q.todo = r.todo,
         r.outcome = "none" =>
           r.pc \in {"next", "act"} /\ r.todo # <<>> /\ InPhase(c, Head(r.todo)),
         r.outcome # "none" => r.cleaning # <<>>
  PROVE  CallInv(c, q)
<1>1. r \in CallRecord /\ Phases(r) /\ Placed(c, r) /\ Stacked(r)
  BY DEF CallInv
<1>2. Phases(q)
  BY DEF Phases
<1>3. Placed(c, q)
  <2>1. Acts(q) = Acts(r)
    BY DEF Acts
  <2>2. \A first, m : Passed(c, q, first, m) <=> Passed(c, r, first, m)
    BY Zenon, <2>1 DEF Passed
  <2>3. CASE r.outcome = "none"
    <3>1. /\ r.workflow \in DOMAIN plugin.workflows
          /\ \E first, m \in Nat :
               /\ Passed(c, r, first, m)
               /\ Len(r.todo) = Len(Acts(r)) - m
               /\ \A i \in 1 .. Len(r.todo) : r.todo[i] = Acts(r)[m + i]
      BY Zenon, <1>1, <2>3 DEF Placed
    <3>2. \E first, m \in Nat :
               /\ Passed(c, q, first, m)
               /\ Len(q.todo) = Len(Acts(q)) - m
               /\ \A i \in 1 .. Len(q.todo) : q.todo[i] = Acts(q)[m + i]
      BY Zenon, <2>1, <2>2, <3>1
    <3>3. q.outcome \notin {"report", "nil"}
      BY <2>3
    <3> QED
      BY Zenon, <2>3, <3>1, <3>2, <3>3 DEF Placed
  <2>4. CASE r.outcome # "none"
    BY <1>1, <2>1, <2>4 DEF Placed
  <2> QED
    BY <2>3, <2>4
<1>4. Stacked(q)
  <2>1. UnderWay(q) <=> UnderWay(r)
    BY DEF UnderWay, UnderWayAt, Undone
  <2>2. \A k \in Nat : RunDown(q, k) <=> RunDown(r, k)
    BY DEF RunDown, Undone
  <2>3. Len(r.deferred) \in Nat
    BY <1>1 DEF CallRecord
  <2>4. \A k \in Len(r.deferred) + 1 .. Len(r.ran) : k \in Nat
    BY <2>3
  <2> QED
    BY <1>1, <2>1, <2>2, <2>4 DEF Stacked
<1> QED
  BY <1>2, <1>3, <1>4 DEF CallInv

\* Starting an action, or giving it up before its runner is called.
LEMMA DispatchKept ==
  ASSUME Setting, state = "loaded", NEW c \in Calls, NEW r, CallInv(c, r),
         r.outcome = "none" => r.pc = "next" /\ r.todo # <<>> /\ InPhase(c, Head(r.todo)),
         r.outcome # "none" => r.cleaning # <<>>
  PROVE  CallInv(c, Dispatch(c, r))
<1>1. Current(r) \in Names
  BY CurrentKnown
<1>2. Dispatch(c, r) \in {Ended(r, "failed"), Ended(r, "invalid"),
                            [r EXCEPT !.pc = "act", !.uri = 1]}
  BY <1>1, Zenon DEF Dispatch
<1>3. CallInv(c, Ended(r, "failed")) /\ CallInv(c, Ended(r, "invalid"))
  <2>1. "failed" \in Results /\ "invalid" \in Results /\ "failed" # "ok" /\ "invalid" # "ok"
    BY DEF Results
  <2> QED
    BY Zenon, <2>1, EndedKept
<1>4. CallInv(c, [r EXCEPT !.pc = "act", !.uri = 1])
  <2> DEFINE q == [r EXCEPT !.pc = "act", !.uri = 1]
  <2>1. /\ q \in CallRecord
        /\ q.pc = "act" /\ q.outcome = r.outcome /\ q.ran = r.ran /\ q.cleaned = r.cleaned
        /\ q.deferred = r.deferred /\ q.cleaning = r.cleaning /\ q.workflow = r.workflow
        /\ q.todo = r.todo
    BY DEF CallInv, CallRecord
  <2> HIDE DEF q
  <2>2. CallInv(c, q)
    BY <2>1, InHand
  <2> QED
    BY <2>2 DEF q
<1> QED
  BY <1>2, <1>3, <1>4

\* A runner is done, or goes on with the next URI.
LEMMA TryKept ==
  ASSUME Setting, state = "loaded", NEW c \in Calls, NEW r, CallInv(c, r),
         NEW res \in Results, r.pc = "act"
  PROVE  CallInv(c, TryURI(r, res)) /\ CallInv(c, Ended(r, res))
<1>1. r \in CallRecord /\ Phases(r) /\ Placed(c, r) /\ Stacked(r)
  BY DEF CallInv
<1>2. r.outcome # "none" => r.cleaning # <<>>
  BY <1>1 DEF Stacked
<1>3. CallInv(c, Ended(r, res))
  BY Zenon, <1>2, EndedKept
<1>4. CallInv(c, [r EXCEPT !.uri = @ + 1])
  <2> DEFINE q == [r EXCEPT !.uri = @ + 1]
  <2>1. /\ q \in CallRecord
        /\ q.pc = "act" /\ q.outcome = r.outcome /\ q.ran = r.ran /\ q.cleaned = r.cleaned
        /\ q.deferred = r.deferred /\ q.cleaning = r.cleaning /\ q.workflow = r.workflow
        /\ q.todo = r.todo
    BY <1>1 DEF CallRecord
  <2>2. r.outcome = "none" => r.todo # <<>> /\ InPhase(c, Head(r.todo))
    BY <1>1 DEF Placed
  <2> HIDE DEF q
  <2>3. CallInv(c, q)
    BY <1>2, <2>1, <2>2, InHand
  <2> QED
    BY <2>3 DEF q
<1> QED
  BY Zenon, <1>3, <1>4 DEF TryURI

\* The loop over the workflow's actions.
LEMMA AdvanceKept ==
  ASSUME Setting, NEW c \in Calls, NEW r, CallInv(c, r), r.pc = "next",
         NEW t, t = TargetPhase(c), NEW p, p = ActionPhase(Head(r.todo))
  PROVE  CallInv(c, IF r.todo = <<>> THEN Leave(r, "report")
                    ELSE IF t # Undefined /\ p < t THEN [r EXCEPT !.todo = Tail(@)]
                    ELSE IF t # Undefined /\ p > t THEN Leave(r, "nil")
                    ELSE Dispatch(c, r))
<1>1. r \in CallRecord /\ Phases(r) /\ Placed(c, r) /\ Stacked(r)
  BY DEF CallInv
<1>2. state = "loaded" /\ r.outcome = "none" /\ Validate
  BY <1>1 DEF Phases, Setting
<1>3. r.workflow \in DOMAIN plugin.workflows
  BY <1>1, <1>2 DEF Placed
<1>4. /\ Acts(r) \in Seq(STRING) /\ r.todo \in Seq(STRING) /\ r.ran \in Seq(STRING)
      /\ t \in 0 .. 2
  BY <1>1, <1>3, PluginFacts DEF Acts, Strings, CallRecord
<1>5. PICK N \in Nat : N = Len(Acts(r)) /\ DOMAIN Acts(r) = 1 .. N
  BY <1>4
<1>6. PICK first, m \in Nat :
        /\ Passed(c, r, first, m)
        /\ Len(r.todo) = N - m
        /\ \A i \in 1 .. Len(r.todo) : r.todo[i] = Acts(r)[m + i]
  BY <1>1, <1>2, <1>5 DEF Placed
<1>7. /\ first \in 1 .. m + 1 /\ m <= N
      /\ Len(r.ran) = m + 1 - first
      /\ \A i \in 1 .. m : InPhase(c, Acts(r)[i]) <=> first <= i
      /\ \A j \in DOMAIN r.ran : r.ran[j] = Acts(r)[first + j - 1]
  BY <1>5, <1>6 DEF Passed
<1>8. /\ \A i \in 1 .. N : Acts(r)[i] \in Names
      /\ \A i, j \in 1 .. N : i < j => ActionPhase(Acts(r)[i]) <= ActionPhase(Acts(r)[j])
  BY <1>2, <1>3, <1>5, Validated DEF Acts
<1>9. \A i \in 1 .. N : ActionPhase(Acts(r)[i]) \in 1 .. 2
  BY <1>8, PluginFacts
\* What a call that leaves here has run.
<1>10. ASSUME \A i \in m + 1 .. N : ~ InPhase(c, Acts(r)[i])
       PROVE  \E f \in 1 .. Len(Acts(r)) + 1 :
                /\ {i \in DOMAIN Acts(r) : InPhase(c, Acts(r)[i])} = Part(f, Len(r.ran))
                /\ \A j \in DOMAIN r.ran : r.ran[j] = Acts(r)[f + j - 1]
  <2>1. first \in 1 .. Len(Acts(r)) + 1
    BY <1>5, <1>7
  <2>2. \A i \in 1 .. N : InPhase(c, Acts(r)[i]) <=> first <= i /\ i <= m
    <3> TAKE i \in 1 .. N
    <3>1. CASE i \in 1 .. m
      BY <1>7, <3>1
    <3>2. CASE i \in m + 1 .. N
      BY <1>10, <3>2
    <3> QED
      BY <3>1, <3>2
  <2>3. Part(first, Len(r.ran)) = first .. m
    BY <1>7 DEF Part
  <2>4. {i \in DOMAIN Acts(r) : InPhase(c, Acts(r)[i])} = first .. m
    BY <1>5, <1>7, <2>2
  <2> QED
    BY <1>7, <2>1, <2>3, <2>4
<1>11. CASE r.todo = <<>>
  <2>1. Len(r.todo) = 0
    BY <1>4, <1>11, EmptySeq
  <2>2. m = N
    BY <1>6, <1>7, <2>1
  <2>3. m + 1 .. N = {}
    BY <2>2
  <2>4. "report" \in Outcomes /\ "report" # "none"
    BY DEF Outcomes
  <2>5. \A i \in m + 1 .. N : ~ InPhase(c, Acts(r)[i])
    BY <2>3
  <2>6. CallInv(c, Leave(r, "report"))
    BY Zenon, <1>2, <1>3, <1>10, <2>4, <2>5, LeaveKept
  <2> QED
    BY Zenon, <1>11, <2>6
<1>12. CASE r.todo # <<>>
  <2>1. Len(r.todo) \in Nat /\ Len(r.todo) > 0 /\ Head(r.todo) = r.todo[1]
    BY <1>4, <1>12, EmptySeq, LenProperties, HeadTailProperties
  <2>2. m + 1 \in 1 .. N
    BY Zenon, <1>6, <2>1, Room
  <2>3. Head(r.todo) = Acts(r)[m + 1]
    BY <1>6, <2>1
  <2>4. p = ActionPhase(Acts(r)[m + 1]) /\ p \in 1 .. 2
    BY <1>9, <2>2, <2>3
  <2>5. \A i \in 1 .. N : InPhase(c, Acts(r)[i]) <=> t = 0 \/ ActionPhase(Acts(r)[i]) = t
    BY DEF InPhase, Undefined
  <2>6. CASE t # Undefined /\ p < t
    <3> DEFINE q == [r EXCEPT !.todo = Tail(@)]
    <3>1. t # 0 /\ p < t
      BY <2>6 DEF Undefined
    <3>2. ~ InPhase(c, Acts(r)[m + 1])
      BY <1>4, <2>2, <2>4, <2>5, <3>1
    <3>3. first = m + 1
      <4> SUFFICES ASSUME first # m + 1 PROVE FALSE
        OBVIOUS
      <4>1. m \in 1 .. m /\ m \in 1 .. N /\ first <= m
        BY <1>7, <2>2
      <4>2. ActionPhase(Acts(r)[m]) = t
        BY <1>7, <2>5, <3>1, <4>1
      <4>3. ActionPhase(Acts(r)[m]) <= ActionPhase(Acts(r)[m + 1])
        BY <1>8, <2>2, <4>1
      <4> QED
        BY <1>4, <2>4, <3>1, <4>2, <4>3
    <3>4. /\ Tail(r.todo) \in Strings /\ Len(Tail(r.todo)) = Len(r.todo) - 1
          /\ \A i \in 1 .. Len(Tail(r.todo)) : Tail(r.todo)[i] = r.todo[i + 1]
      BY <1>4, <1>12, HeadTailProperties DEF Strings
    <3>5. /\ q \in CallRecord
          /\ q.pc = r.pc /\ q.outcome = r.outcome /\ q.ran = r.ran /\ q.cleaned = r.cleaned
          /\ q.deferred = r.deferred /\ q.cleaning = r.cleaning /\ q.workflow = r.workflow
          /\ q.todo = Tail(r.todo)
      BY <1>1, <3>4 DEF CallRecord
    <3> HIDE DEF q
    <3>6. Phases(q)
      BY <1>1, <3>5 DEF Phases
    <3>7. Acts(q) = Acts(r)
      BY <3>5 DEF Acts
    <3>8. Passed(c, q, m + 2, m + 1)
      <4>1. Len(r.ran) = 0 /\ DOMAIN r.ran = {}
        BY <1>4, <1>7, <3>3
      <4>2. m + 2 \in 1 .. (m + 1) + 1 /\ m + 1 <= N
        BY <2>2
      <4>3. \A i \in 1 .. m + 1 : InPhase(c, Acts(r)[i]) <=> m + 2 <= i
        <5> TAKE i \in 1 .. m + 1
        <5>1. CASE i = m + 1
          BY <3>2, <5>1
        <5>2. CASE i \in 1 .. m
          BY <1>7, <3>3, <5>2
        <5> QED
          BY <5>1, <5>2
      <4>4. Len(q.ran) = (m + 1) + 1 - (m + 2)
        BY <3>5, <4>1
      <4> QED
        BY <1>5, <3>5, <3>7, <4>1, <4>2, <4>3, <4>4 DEF Passed
    <3>9. Len(q.todo) = Len(Acts(q)) - (m + 1)
      BY <1>5, <1>6, <2>1, <3>4, <3>5, <3>7
    <3>10. \A i \in 1 .. Len(q.todo) : q.todo[i] = Acts(q)[(m + 1) + i]
      <4> TAKE i \in 1 .. Len(q.todo)
      <4>1. i + 1 \in 1 .. Len(r.todo) /\ q.todo[i] = r.todo[i + 1]
        BY <2>1, <3>4, <3>5
      <4>2. r.todo[i + 1] = Acts(r)[m + (i + 1)]
        BY <1>6, <4>1
      <4>3. m + (i + 1) = (m + 1) + i
        OBVIOUS
      <4> QED
        BY <3>7, <4>1, <4>2, <4>3
    <3>11. Placed(c, q)
      <4>1. m + 1 \in Nat /\ m + 2 \in Nat
        OBVIOUS
      <4>2. q.pc = "next" /\ q.outcome = "none"
        BY <1>2, <3>5
      <4> QED
        BY <1>3, <3>5, <3>8, <3>9, <3>10, <4>1, <4>2 DEF Placed
    <3>12. Stacked(q)
      <4>1. q.outcome = "none"
        BY <1>2, <3>5
      <4>2. r.cleaned = <<>> /\ r.cleaning = <<>> /\ Len(r.deferred) = Len(r.ran)
        BY <1>1, <1>2 DEF Stacked
      <4>3. Len(r.deferred) \in Nat
        BY <1>1 DEF CallRecord
      <4>4. Len(r.deferred) + 1 .. Len(r.ran) = {}
        BY <4>2, <4>3
      <4> QED
        BY <1>1, <3>5, <4>1, <4>2, <4>4 DEF Stacked
    <3>13. CallInv(c, q)
      BY <3>5, <3>6, <3>11, <3>12 DEF CallInv
    <3> QED
      BY Zenon, <1>12, <2>6, <3>13 DEF q
  <2>7. CASE t # Undefined /\ p > t
    <3>1. t # 0 /\ p > t
      BY <2>7 DEF Undefined
    <3>2. \A i \in m + 1 .. N : ~ InPhase(c, Acts(r)[i])
      <4> TAKE i \in m + 1 .. N
      <4>1. i \in 1 .. N
        OBVIOUS
      <4>2. i = m + 1 \/ m + 1 < i
        OBVIOUS
      <4>3. ActionPhase(Acts(r)[m + 1]) <= ActionPhase(Acts(r)[i])
        BY <1>8, <1>9, <2>2, <4>1, <4>2
      <4>4. ActionPhase(Acts(r)[i]) # t
        BY <1>4, <1>9, <2>4, <3>1, <4>1, <4>3
      <4> QED
        BY <2>5, <3>1, <4>1, <4>4
    <3>3. "nil" \in Outcomes /\ "nil" # "none"
      BY DEF Outcomes
    <3>4. CallInv(c, Leave(r, "nil"))
      BY Zenon, <1>2, <1>3, <1>10, <3>2, <3>3, LeaveKept
    <3>5. ~ (p < t)
      BY <1>4, <2>4, <3>1
    <3> QED
      BY Zenon, <1>12, <2>7, <3>4, <3>5
  <2>8. CASE ~ (t # Undefined /\ p < t) /\ ~ (t # Undefined /\ p > t)
    <3>1. t = 0 \/ p = t
      BY <1>4, <2>4, <2>8 DEF Undefined
    <3>2. InPhase(c, Head(r.todo))
      BY <2>2, <2>3, <2>4, <2>5, <3>1
    <3>3. CallInv(c, Dispatch(c, r))
      BY Zenon, <1>2, <1>12, <3>2, DispatchKept
    <3> QED
      BY Zenon, <1>12, <2>8, <3>3
  <2> QED
    BY Zenon, <2>6, <2>7, <2>8
<1> QED
  BY Zenon, <1>11, <1>12

\* The deferred functions.
LEMMA UnwindKept ==
  ASSUME Setting, NEW c \in Calls, NEW r, CallInv(c, r), r.pc = "unwind"
  PROVE  CallInv(c, IF r.cleaning # <<>> THEN Dispatch(c, r)
                    ELSE IF r.deferred # <<>>
                      THEN [r EXCEPT !.cleaning = Last(r.deferred), !.deferred = Front(@)]
                    ELSE [r EXCEPT !.pc = "returned"])
<1>1. r \in CallRecord /\ Phases(r) /\ Placed(c, r) /\ Stacked(r)
  BY DEF CallInv
<1>2. state = "loaded" /\ r.outcome # "none"
  BY <1>1 DEF Phases
<1>3. CASE r.cleaning # <<>>
  <2>1. CallInv(c, Dispatch(c, r))
    BY Zenon, <1>2, <1>3, DispatchKept
  <2> QED
    BY Zenon, <1>3, <2>1
<1>4. CASE r.cleaning = <<>> /\ r.deferred # <<>>
  <2> DEFINE q == [r EXCEPT !.cleaning = Last(r.deferred), !.deferred = Front(@)]
  <2>1. PICK D \in Nat, L \in Nat, N \in Nat :
          /\ D = Len(r.deferred) /\ L = Len(r.cleaned) /\ N = Len(r.ran)
          /\ DOMAIN r.deferred = 1 .. D /\ DOMAIN r.cleaned = 1 .. L /\ DOMAIN r.ran = 1 .. N
    BY <1>1 DEF CallRecord, Strings
  <2>2. r.deferred \in Seq(Strings) /\ r.deferred # <<>> /\ D > 0
    BY <1>1, <1>4, <2>1, EmptySeq, LenProperties DEF CallRecord
  <2>3. /\ D \in 1 .. D /\ D \in 1 .. N /\ D <= N
        /\ r.deferred[D] = CleanupsOf(r.ran[D]) /\ r.ran[D] \in Names
    BY <1>1, <2>1, <2>2 DEF Stacked
  <2>4. /\ Front(r.deferred) \in Seq(Strings)
        /\ Len(Front(r.deferred)) = D - 1
        /\ \A i \in 1 .. D - 1 : Front(r.deferred)[i] = r.deferred[i]
    BY <2>1, <2>2 DEF Front
  <2>5. Last(r.deferred) = CleanupsOf(r.ran[D]) /\ Last(r.deferred) \in Strings
    <3>1. CleanupsOf(r.ran[D]) \in Strings
      BY <2>3, PluginFacts
    <3> QED
      BY <2>1, <2>3, <3>1 DEF Last
  <2>6. /\ q \in CallRecord
        /\ q.pc = "unwind" /\ q.outcome = r.outcome /\ q.ran = r.ran /\ q.cleaned = r.cleaned
        /\ q.deferred = Front(r.deferred) /\ q.cleaning = CleanupsOf(r.ran[D])
        /\ q.workflow = r.workflow
    BY <1>1, <2>4, <2>5 DEF CallRecord
  <2> HIDE DEF q
  <2>7. Phases(q)
    BY <1>1, <2>6 DEF Phases
  <2>8. Placed(c, q)
    <3>1. Acts(q) = Acts(r)
      BY <2>6 DEF Acts
    <3> QED
      BY <1>1, <1>2, <2>6, <3>1 DEF Placed
  <2>9. /\ \A i \in 1 .. L : r.cleaned[i].of \in D + 1 .. N /\ r.cleaned[i].res # "notFound"
        /\ \A k \in D + 1 .. N : RunDown(r, k)
    BY <1>1, <1>4, <2>1 DEF Stacked
  <2>10. \A k : RunDown(r, k) => RunDown(q, k)
    <3>1. q.ran = r.ran /\ q.cleaned = r.cleaned
      BY <2>6
    <3> QED
      BY Zenon, <3>1, SameHistory
  <2>11. CleanupsOf(r.ran[D]) \in Strings /\ Len(CleanupsOf(r.ran[D])) \in Nat
    BY <2>3, PluginFacts DEF Strings
  <2>12. L + 1 \in Nat /\ 0 \in Nat /\ Undone(q, D, L + 1, 0)
    <3>1. \A i \in 1 .. L : r.cleaned[i].of # D
      BY <2>9
    <3>2. Part(L + 1, 0) = {}
      BY DEF Part
    <3>3. {i \in DOMAIN q.cleaned : q.cleaned[i].of = D} = Part(L + 1, 0)
      BY <2>1, <2>6, <3>1, <3>2
    <3>4. L + 1 \in 1 .. Len(q.cleaned) + 1 /\ 0 \in 0 .. Len(CleanupsOf(q.ran[D]))
      BY <2>1, <2>6, <2>11
    <3>5. /\ \A i \in 1 .. 0 : q.cleaned[(L + 1) + i - 1].name = CleanupsOf(q.ran[D])[i]
          /\ \A i \in 1 .. 0 - 1 : q.cleaned[(L + 1) + i - 1].res = "ok"
      OBVIOUS
    <3> QED
      BY <3>3, <3>4, <3>5 DEF Undone
  <2>13. q.cleaning # <<>> => UnderWayAt(q, D, L + 1, 0)
    <3>1. Len(q.cleaning) = Len(CleanupsOf(q.ran[D])) - 0
      BY <2>6, <2>11
    <3>2. \A i \in 1 .. Len(q.cleaning) : q.cleaning[i] = CleanupsOf(q.ran[D])[0 + i]
      BY <2>6, <2>11
    <3>3. (L + 1) + 0 = Len(q.cleaned) + 1
      BY <2>1, <2>6
    <3>4. \A i \in 1 .. 0 : q.cleaned[(L + 1) + i - 1].res = "ok"
      OBVIOUS
    <3> QED
      BY <2>12, <3>1, <3>2, <3>3, <3>4 DEF UnderWayAt
  <2>14. q.cleaning = <<>> => RunDown(q, D)
    <3> SUFFICES ASSUME q.cleaning = <<>> PROVE RunDown(q, D)
      OBVIOUS
    <3>1. Len(CleanupsOf(q.ran[D])) = 0
      BY <2>6, <2>11
    <3>2. ~ (0 < Len(CleanupsOf(q.ran[D])))
      BY <3>1
    <3> QED
      BY <2>12, <3>2 DEF RunDown
  <2>15. Len(q.deferred) = D - 1 /\ Len(q.deferred) + 1 = D
    BY <2>1, <2>2, <2>4, <2>6
  <2>16. q.cleaning # <<>> => UnderWay(q)
    <3> SUFFICES ASSUME q.cleaning # <<>> PROVE UnderWay(q)
      OBVIOUS
    <3> QED
      BY <2>12, <2>13, <2>15 DEF UnderWay
  <2>17. Stacked(q)
    <3>1. /\ \A j \in DOMAIN q.ran : q.ran[j] \in Names
          /\ \A i, j \in DOMAIN q.cleaned : i < j => q.cleaned[i].of >= q.cleaned[j].of
          /\ Len(q.deferred) <= Len(q.ran) /\ Len(q.deferred) < Len(q.ran)
      <4>1. /\ \A j \in DOMAIN r.ran : r.ran[j] \in Names
            /\ \A i, j \in DOMAIN r.cleaned : i < j => r.cleaned[i].of >= r.cleaned[j].of
        BY <1>1 DEF Stacked
      <4>2. q.ran = r.ran /\ q.cleaned = r.cleaned
        BY <2>6
      <4>3. Len(q.deferred) <= Len(q.ran) /\ Len(q.deferred) < Len(q.ran)
        BY <2>1, <2>3, <2>15, <4>2
      <4> QED
        BY Zenon, <4>1, <4>2, <4>3
    <3>2. \A j \in DOMAIN q.deferred : q.deferred[j] = CleanupsOf(q.ran[j])
      <4>1. DOMAIN q.deferred = 1 .. D - 1
        BY <2>4, <2>6
      <4>2. \A j \in 1 .. D - 1 : j \in 1 .. D
        OBVIOUS
      <4> QED
        BY <1>1, <2>1, <2>4, <2>6, <4>1, <4>2 DEF Stacked
    <3>3. \A i \in DOMAIN q.cleaned : q.cleaned[i].of \in D .. N /\ q.cleaned[i].res # "notFound"
      BY <2>1, <2>6, <2>9
    <3>4. \A k \in D .. N :
            IF k = D /\ q.cleaning # <<>> THEN UnderWay(q) ELSE RunDown(q, k)
      <4> TAKE k \in D .. N
      <4>1. CASE k = D
        BY Zenon, <2>14, <2>16, <4>1
      <4>2. CASE k # D
        <5>1. k \in D + 1 .. N
          BY <4>2
        <5> QED
          BY Zenon, <2>9, <2>10, <4>2, <5>1
      <4> QED
        BY <4>1, <4>2
    <3>5. q.pc # "act" /\ q.outcome # "none" /\ Len(q.ran) = N
      BY <1>2, <2>1, <2>6
    <3> QED
      BY <2>15, <3>1, <3>2, <3>3, <3>4, <3>5 DEF Stacked
  <2>18. CallInv(c, q)
    BY <2>6, <2>7, <2>8, <2>17 DEF CallInv
  <2> QED
    BY Zenon, <1>4, <2>18 DEF q
<1>5. CASE r.cleaning = <<>> /\ r.deferred = <<>>
  <2> DEFINE q == [r EXCEPT !.pc = "returned"]
  <2>1. /\ q \in CallRecord
        /\ q.pc = "returned" /\ q.outcome = r.outcome /\ q.ran = r.ran /\ q.cleaned = r.cleaned
        /\ q.deferred = r.deferred /\ q.cleaning = r.cleaning /\ q.workflow = r.workflow
    BY <1>1 DEF CallRecord
  <2> HIDE DEF q
  <2>2. Phases(q)
    BY <1>1, <1>2, <1>5, <2>1 DEF Phases
  <2>3. Placed(c, q)
    <3>1. Acts(q) = Acts(r)
      BY <2>1 DEF Acts
    <3> QED
      BY <1>1, <1>2, <2>1, <3>1 DEF Placed
  <2>4. Stacked(q)
    <3>1. \A k : RunDown(r, k) => RunDown(q, k)
      <4>1. q.ran = r.ran /\ q.cleaned = r.cleaned
        BY <2>1
      <4> QED
        BY Zenon, <4>1, SameHistory
    <3> QED
      BY <1>1, <1>2, <1>5, <2>1, <3>1 DEF Stacked
  <2>5. CallInv(c, q)
    BY <2>1, <2>2, <2>3, <2>4 DEF CallInv
  <2> QED
    BY Zenon, <1>5, <2>5 DEF q
<1> QED
  BY <1>3, <1>4, <1>5

LEMMA LeastNumber ==
  ASSUME NEW T, T \subseteq Nat, T # {}
  PROVE  \E x \in T : \A y \in T : x <= y
<1> DEFINE R == OpToRel(<, Nat)
<1>1. IsWellFoundedOn(R, Nat)
  BY NatLessThanWellFounded
<1>2. \A x, y \in Nat : y < x => <<y, x>> \in R
  BY DEF OpToRel
<1> HIDE DEF R
<1>3. PICK x \in T : \A y \in T : ~ (<<y, x>> \in R)
  BY <1>1, WFMin
<1>4. ASSUME NEW y \in T
      PROVE  x <= y
  <2>1. x \in Nat /\ y \in Nat
    OBVIOUS
  <2>2. ~ (y < x)
    BY Zenon, <1>2, <1>3, <2>1
  <2> QED
    BY <2>1, <2>2
<1> QED
  BY Zenon, <1>4

\* A call that starts.
Started(r, k) ==
  [r EXCEPT !.pc = "next", !.workflow = k, !.todo = plugin.workflows[k].acts]

LEMMA BeginKept ==
  ASSUME Setting, state = "loaded", NEW c \in Calls, NEW r, CallInv(c, r),
         r.pc = "idle",
         NEW q,
         \/ q = Leave(r, "noWorkflow") \/ q = Leave(r, "initError")
         \/ \E k \in DOMAIN plugin.workflows : q = Started(r, k)
  PROVE  CallInv(c, q)
<1>1. r \in CallRecord /\ Phases(r) /\ Placed(c, r) /\ Stacked(r)
  BY DEF CallInv
<1>2. /\ r.outcome = "none"
      /\ r.ran = <<>> /\ r.deferred = <<>> /\ r.cleaned = <<>> /\ r.cleaning = <<>>
  BY <1>1 DEF Phases
<1>3. /\ "noWorkflow" \in Outcomes /\ "noWorkflow" # "none" /\ "noWorkflow" \notin {"report", "nil"}
      /\ "initError" \in Outcomes /\ "initError" # "none" /\ "initError" \notin {"report", "nil"}
  BY DEF Outcomes
<1>4. CallInv(c, Leave(r, "noWorkflow"))
  BY Zenon, <1>2, <1>3, LeaveKept
<1>5. CallInv(c, Leave(r, "initError"))
  BY Zenon, <1>2, <1>3, LeaveKept
<1>6. ASSUME NEW k \in DOMAIN plugin.workflows, q = Started(r, k)
      PROVE  CallInv(c, q)
  <2>2. k \in DOMAIN plugin.workflows /\ k \in Nat
    BY PluginFacts
  <2>3. plugin.workflows[k].acts \in Strings
    BY <2>2, PluginFacts
  <2>4. /\ q \in CallRecord
        /\ q.pc = "next" /\ q.outcome = "none" /\ q.ran = <<>> /\ q.cleaned = <<>>
        /\ q.deferred = <<>> /\ q.cleaning = <<>> /\ q.workflow = k /\ q.todo = Acts(q)
        /\ Acts(q) \in Strings
    <3>1. "next" \in {"idle", "next", "act", "unwind", "returned"}
      OBVIOUS
    <3>2. q \in CallRecord
      BY <1>1, <1>6, <2>2, <2>3, <3>1 DEF CallRecord, Started
    <3>3. q.todo = plugin.workflows[k].acts /\ q.workflow = k
      BY <1>1, <1>6 DEF CallRecord, Started
    <3> QED
      BY <1>1, <1>2, <1>6, <2>3, <3>2, <3>3 DEF CallRecord, Acts, Started
  <2>5. Phases(q)
    BY <2>4 DEF Phases
  <2>6. Passed(c, q, 1, 0) /\ Len(q.todo) = Len(Acts(q)) - 0
    <3>1. Len(Acts(q)) \in Nat
      BY <2>4 DEF Strings
    <3>2. Len(q.ran) = 0 /\ DOMAIN q.ran = {}
      BY <2>4
    <3>3. 1 \in 1 .. 0 + 1 /\ 1 .. 0 = {} /\ 0 = 0 + 1 - 1
      OBVIOUS
    <3> QED
      BY <2>4, <3>1, <3>2, <3>3 DEF Passed
  <2>7. \A i \in 1 .. Len(q.todo) : q.todo[i] = Acts(q)[0 + i]
    <3> TAKE i \in 1 .. Len(q.todo)
    <3>1. 0 + i = i
      BY <2>4 DEF Strings
    <3> QED
      BY <2>4, <3>1
  <2>8. Placed(c, q)
    <3>1. 1 \in Nat /\ 0 \in Nat
      OBVIOUS
    <3>2. q.outcome \notin {"report", "nil"} /\ q.pc # "act"
      BY <2>4
    <3> QED
      BY <2>2, <2>4, <2>6, <2>7, <3>1, <3>2 DEF Placed
  <2>9. Stacked(q)
    <3>1. /\ DOMAIN q.ran = {} /\ DOMAIN q.deferred = {} /\ DOMAIN q.cleaned = {}
          /\ Len(q.deferred) = 0 /\ Len(q.ran) = 0
      BY <2>4
    <3>2. Len(q.deferred) + 1 .. Len(q.ran) = {}
      BY <3>1
    <3> QED
      BY <2>4, <3>1, <3>2 DEF Stacked
  <2> QED
    BY <2>4, <2>5, <2>8, <2>9 DEF CallInv
<1> QED
  BY <1>4, <1>5, <1>6

\* What a call is depends on the plugin and on the call only.
LEMMA CallFrame ==
  ASSUME NEW c, NEW q, CallInv(c, q), UNCHANGED <<plugin, mix>>,
         state = "loaded" => state' = "loaded"
  PROVE  CallInv(c, q)'
<1>1. (q \in CallRecord)' /\ Phases(q)'
  BY DEF CallInv, CallRecord, Phases
<1>2. Acts(q)' = Acts(q)
  BY DEF Acts
<1>3. ASSUME NEW n
      PROVE  InPhase(c, n)' <=> InPhase(c, n)
  BY DEF InPhase, TargetPhase, ActionPhase, Undefined, Fingerprint, Detection
<1>4. Placed(c, q)'
  <2>1. Placed(c, q)
    BY DEF CallInv
  <2>2. \A n : InPhase(c, n)' <=> InPhase(c, n)
    BY Zenon, <1>3
  <2>3. ASSUME NEW first, NEW m
        PROVE  Passed(c, q, first, m)' <=> Passed(c, q, first, m)
    BY <1>2, <2>2 DEF Passed
  <2>4. plugin' = plugin
    OBVIOUS
  <2> QED
    BY <1>2, <2>1, <2>2, <2>3, <2>4 DEF Placed, Part
<1>5. Stacked(q)'
  <2>1. Stacked(q)
    BY DEF CallInv
  <2>2. \A n : CleanupsOf(n)' = CleanupsOf(n)
    BY DEF CleanupsOf
  <2>3. Names' = Names
    BY DEF Names
  <2>4. ASSUME NEW k, NEW first, NEW n
        PROVE  Undone(q, k, first, n)' <=> Undone(q, k, first, n)
    BY <2>2 DEF Undone, Part
  <2>5. ASSUME NEW k
        PROVE  RunDown(q, k)' <=> RunDown(q, k)
    BY <2>2, <2>4 DEF RunDown
  <2>6. UnderWay(q)' <=> UnderWay(q)
    BY <2>2, <2>4 DEF UnderWay, UnderWayAt
  <2> QED
    BY <2>1, <2>2, <2>3, <2>5, <2>6 DEF Stacked
<1> QED
  BY <1>1, <1>4, <1>5 DEF CallInv

LEMMA CallStepKept ==
  ASSUME EngineInv, UNCHANGED setting, UNCHANGED state,
         NEW c \in Calls, NEW q, CallInv(c, q), call' = [call EXCEPT ![c] = q]
  PROVE  EngineInv'
<1>1. UNCHANGED <<plugin, mix>>
  BY DEF setting
<1>2. Setting'
  BY <1>1 DEF EngineInv, Setting, Validate, Names, HasRunner, ActionPhase
<1>3. DOMAIN call = Calls /\ DOMAIN call' = Calls
  BY DEF EngineInv
<1>4. ASSUME NEW d \in Calls
      PROVE  CallInv(d, call[d])'
  <2>1. PICK x : x = call'[d]
    OBVIOUS
  <2>2. CallInv(d, x)
    <3>1. CASE d = c
      BY <1>3, <2>1, <3>1
    <3>2. CASE d # c
      BY <1>3, <2>1, <3>2 DEF EngineInv
    <3> QED
      BY <3>1, <3>2
  <2>3. CallInv(d, x)'
    BY <1>1, <2>2, CallFrame
  <2> QED
    BY <2>1, <2>3
<1> QED
  BY <1>2, <1>3, <1>4 DEF EngineInv

LEMMA OtherStepKept ==
  ASSUME EngineInv, UNCHANGED setting, state = "loaded" => state' = "loaded", Setting',
         UNCHANGED call
  PROVE  EngineInv'
<1>1. UNCHANGED <<plugin, mix>>
  BY DEF setting
<1>2. ASSUME NEW d \in Calls
      PROVE  CallInv(d, call[d])'
  <2>1. PICK x : x = call[d]
    OBVIOUS
  <2>2. CallInv(d, x)
    BY <2>1 DEF EngineInv
  <2>3. CallInv(d, x)'
    BY <1>1, <2>2, CallFrame
  <2> QED
    BY <2>1, <2>3
<1> QED
  BY <1>2 DEF EngineInv

LEMMA EngineStarts == ASSUME EngineInit PROVE EngineInv
<1>1. Setting
  BY DEF EngineInit, Setting
<1>2. ASSUME NEW c \in Calls
      PROVE  CallInv(c, NewCall)
  <2> DEFINE r == NewCall
  <2>1. /\ r \in CallRecord
        /\ r.pc = "idle" /\ r.outcome = "none" /\ r.ran = <<>> /\ r.cleaned = <<>>
        /\ r.deferred = <<>> /\ r.cleaning = <<>>
    BY DEF NewCall, CallRecord, Strings, Outcomes
  <2> HIDE DEF r
  <2>2. Phases(r) /\ Placed(c, r) /\ Stacked(r)
    BY <2>1 DEF Phases, Placed, Stacked
  <2> QED
    BY <2>1, <2>2 DEF CallInv, r
<1>3. call = [c \in Calls |-> NewCall]
  BY DEF EngineInit
<1>4. \A c \in Calls : CallInv(c, call[c])
  BY Zenon, <1>2, <1>3
<1> QED
  BY <1>1, <1>3, <1>4 DEF EngineInv

LEMMA EngineStep ==
  ASSUME EngineInv, [EngineNext]_engineVars
  PROVE  EngineInv'
<1>1. CASE New
  <2>1. UNCHANGED setting /\ UNCHANGED call /\ state # "loaded"
    BY <1>1 DEF New
  <2>2. Setting'
    BY <1>1 DEF EngineInv, Setting, New, setting, Validate, Names, HasRunner,
      ActionPhase
  <2> QED
    BY <2>1, <2>2, OtherStepKept
<1>2. ASSUME NEW c \in Calls, Begin(c)
      PROVE  EngineInv'
  <2> DEFINE fits == {k \in DOMAIN plugin.workflows : MeetsConditions(plugin.workflows[k])}
             k == CHOOSE i \in fits : \A j \in fits : i <= j
  <2>1. state = "loaded" /\ call[c].pc = "idle" /\ UNCHANGED <<setting, state>>
    BY <1>2 DEF Begin
  <2>2. PICK q \in IF fits = {} THEN {Leave(call[c], "noWorkflow")}
                   ELSE {[call[c] EXCEPT !.pc = "next", !.workflow = k,
                                         !.todo = plugin.workflows[k].acts],
                         Leave(call[c], "initError")} : call' = [call EXCEPT ![c] = q]
    BY <1>2 DEF Begin
  <2>3. Setting /\ CallInv(c, call[c])
    BY DEF EngineInv
  <2>4. fits # {} => k \in fits
    <3>1. fits \subseteq Nat
      BY <2>3, PluginFacts
    <3> HIDE DEF fits
    <3>2. fits # {} => \E x \in fits : \A y \in fits : x <= y
      BY Zenon, <3>1, LeastNumber
    <3> QED
      BY Zenon, <3>2
  <2>5. fits \subseteq DOMAIN plugin.workflows
    OBVIOUS
  <2> HIDE DEF fits, k
  <2>6. \/ q = Leave(call[c], "noWorkflow") \/ q = Leave(call[c], "initError")
        \/ \E i \in DOMAIN plugin.workflows : q = Started(call[c], i)
    BY Zenon, <2>2, <2>4, <2>5 DEF Started
  <2>7. CallInv(c, q)
    BY Zenon, <2>1, <2>3, <2>6, BeginKept
  <2> QED
    BY <2>1, <2>2, <2>7, CallStepKept
<1>3. ASSUME NEW c \in Calls, Step(c)
      PROVE  EngineInv'
  <2> DEFINE r == call[c]
  <2>1. Setting /\ CallInv(c, r)
    BY DEF EngineInv
  <2>2. r.pc # "idle" => state = "loaded"
    BY <2>1 DEF CallInv, Phases
  <2>3. UNCHANGED <<setting, state>>
    BY <1>3 DEF Step, NextAction, RunHTTP, RunUtility, RunCallback, Unwind
  <2>4. CASE NextAction(c)
    <3>1. PICK t, p : t = TargetPhase(c) /\ p = ActionPhase(Head(r.todo))
      OBVIOUS
    <3>2. PICK q : q = IF r.todo = <<>> THEN Leave(r, "report")
                       ELSE IF t # Undefined /\ p < t THEN [r EXCEPT !.todo = Tail(@)]
                       ELSE IF t # Undefined /\ p > t THEN Leave(r, "nil")
                       ELSE Dispatch(c, r)
      OBVIOUS
    <3>3. r.pc = "next" /\ call' = [call EXCEPT ![c] = q]
      BY Zenon, <2>4, <3>1, <3>2 DEF NextAction
    <3>4. CallInv(c, q)
      BY Zenon, <2>1, <3>1, <3>2, <3>3, AdvanceKept
    <3> QED
      BY <2>3, <3>3, <3>4, CallStepKept
  <2>5. CASE RunHTTP(c)
    <3>1. PICK res \in Results : call' = [call EXCEPT ![c] = TryURI(r, res)]
      <4>1. PICK res \in (IF plugin.actions[Current(r)].broken THEN {"invalid"} ELSE {}) \union
                    (IF scanDone THEN {"clientError"} ELSE {"ok", "failed", "clientError"}) :
              call' = [call EXCEPT ![c] =
                TryURI(r, IF res # "clientError" THEN res
                            ELSE IF plugin.actions[Current(r)].lenient THEN "ok" ELSE "failed")]
        BY Zenon, <2>5 DEF RunHTTP
      <4>2. PICK x : x = IF res # "clientError" THEN res
                         ELSE IF plugin.actions[Current(r)].lenient THEN "ok" ELSE "failed"
        OBVIOUS
      <4>3. x \in Results
        <5>1. res \in {"invalid", "ok", "failed", "clientError"}
          BY <4>1
        <5> QED
          BY <4>2, <5>1 DEF Results
      <4> QED
        BY Zenon, <4>1, <4>2, <4>3
    <3>2. r.pc = "act"
      BY <2>5 DEF RunHTTP, Acting
    <3>3. state = "loaded"
      BY <2>2, <3>2
    <3>4. CallInv(c, TryURI(r, res))
      BY Zenon, <2>1, <3>2, <3>3, TryKept
    <3> QED
      BY <2>3, <3>1, <3>4, CallStepKept
  <2>6. ASSUME NEW res \in Results, call' = [call EXCEPT ![c] = Ended(r, res)], r.pc = "act"
        PROVE  EngineInv'
    <3>1. state = "loaded"
      BY <2>2, <2>6
    <3>2. CallInv(c, Ended(r, res))
      BY Zenon, <2>1, <2>6, <3>1, TryKept
    <3> QED
      BY <2>3, <2>6, <3>2, CallStepKept
  <2>7. CASE RunUtility(c)
    <3>1. PICK x : x = IF plugin.actions[Current(r)].broken THEN "invalid" ELSE "ok"
      OBVIOUS
    <3>2. x \in Results
      BY <3>1 DEF Results
    <3>3. r.pc = "act" /\ call' = [call EXCEPT ![c] = Ended(r, x)]
      BY <2>7, <3>1 DEF RunUtility, Acting
    <3> QED
      BY Zenon, <2>6, <3>2, <3>3
  <2>8. CASE RunCallback(c)
    <3>1. PICK res \in {"ok", "failed", "invalid"} : call' = [call EXCEPT ![c] = Ended(r, res)]
      BY <2>8 DEF RunCallback
    <3>2. r.pc = "act" /\ res \in Results
      BY <2>8 DEF RunCallback, Acting, Results
    <3> QED
      BY Zenon, <2>6, <3>1, <3>2
  <2>9. CASE Unwind(c)
    <3>1. PICK q : q = IF r.cleaning # <<>> THEN Dispatch(c, r)
                       ELSE IF r.deferred # <<>>
                         THEN [r EXCEPT !.cleaning = Last(r.deferred), !.deferred = Front(@)]
                       ELSE [r EXCEPT !.pc = "returned"]
      OBVIOUS
    <3>2. r.pc = "unwind" /\ call' = [call EXCEPT ![c] = q]
      BY Zenon, <2>9, <3>1 DEF Unwind
    <3>3. CallInv(c, q)
      BY Zenon, <2>1, <3>1, <3>2, UnwindKept
    <3> QED
      BY <2>3, <3>2, <3>3, CallStepKept
  <2> QED
    BY <1>3, <2>4, <2>5, <2>7, <2>8, <2>9 DEF Step
<1>4. ASSUME UNCHANGED <<setting, state, call>>
      PROVE  EngineInv'
  <2>1. Setting'
    BY <1>4 DEF EngineInv, Setting, setting, Validate, Names, HasRunner, ActionPhase
  <2> QED
    BY <1>4, <2>1, OtherStepKept
<1>5. CASE \E s \in planted : CallBack(s)
  BY <1>4, <1>5 DEF CallBack
<1>6. CASE CancelScan
  BY <1>4, <1>6 DEF CancelScan
<1>7. CASE EngineTerminated \/ UNCHANGED engineVars
  BY <1>4, <1>7 DEF EngineTerminated, engineVars
<1> QED
  BY <1>1, <1>2, <1>3, <1>5, <1>6, <1>7 DEF EngineNext

\* What CleanupsExact says of a call.
ListRun(r, k) ==
  LET want == plugin.actions[r.ran[k]].cleanups IN
  \E first \in 1 .. Len(r.cleaned) + 1, n \in 0 .. Len(want) :
    /\ {i \in DOMAIN r.cleaned : r.cleaned[i].of = k} = Part(first, n)
    /\ \A i \in 1 .. n : r.cleaned[first + i - 1].name = want[i]
    /\ \A i \in 1 .. n - 1 : r.cleaned[first + i - 1].res = "ok"
    /\ n < Len(want) => n > 0 /\ r.cleaned[first + n - 1].res # "ok"

CleanedUp(c, r) ==
  /\ \A i, j \in DOMAIN r.cleaned : i < j => r.cleaned[i].of >= r.cleaned[j].of
  /\ \A i \in DOMAIN r.cleaned : r.cleaned[i].of \in DOMAIN r.ran /\ r.cleaned[i].res # "notFound"
  /\ Returned(c) => \A k \in DOMAIN r.ran : ListRun(r, k)

LEMMA EngineExact == ASSUME EngineInv PROVE WorkflowExact
<1>1. ASSUME NEW c \in Calls, Returned(c), call[c].outcome \in {"report", "nil"}
      PROVE  \E first \in 1 .. Len(Workflow(c).acts) + 1 :
               /\ {i \in DOMAIN Workflow(c).acts : InPhase(c, Workflow(c).acts[i])}
                    = Part(first, Len(call[c].ran))
               /\ \A j \in DOMAIN call[c].ran :
                    call[c].ran[j] = Workflow(c).acts[first + j - 1]
  <2>1. Placed(c, call[c])
    BY DEF EngineInv, CallInv
  <2> QED
    BY Zenon, <1>1, <2>1 DEF Placed, Acts, Workflow
<1>2. PhaseComplete
  BY Zenon, <1>1 DEF PhaseComplete
<1>3. ASSUME NEW c \in Calls, NEW r, r = call[c]
      PROVE  /\ \A i, j \in DOMAIN r.cleaned : i < j => r.cleaned[i].of >= r.cleaned[j].of
             /\ \A i \in DOMAIN r.cleaned :
                  r.cleaned[i].of \in DOMAIN r.ran /\ r.cleaned[i].res # "notFound"
             /\ Returned(c) => \A k \in DOMAIN r.ran : RunDown(r, k)
  <2>1. r \in CallRecord /\ Phases(r) /\ Stacked(r)
    BY <1>3 DEF EngineInv, CallInv
  <2>2. Len(r.deferred) \in Nat /\ DOMAIN r.ran = 1 .. Len(r.ran)
    BY <2>1 DEF CallRecord, Strings
  <2>3. \A k \in Len(r.deferred) + 1 .. Len(r.ran) : k \in DOMAIN r.ran
    BY <2>2
  <2>4. /\ \A i, j \in DOMAIN r.cleaned : i < j => r.cleaned[i].of >= r.cleaned[j].of
        /\ \A i \in DOMAIN r.cleaned :
             r.cleaned[i].of \in Len(r.deferred) + 1 .. Len(r.ran) /\ r.cleaned[i].res # "notFound"
    BY <2>1 DEF Stacked
  <2>5. ASSUME Returned(c)
        PROVE  \A k \in DOMAIN r.ran : RunDown(r, k)
    <3>1. r.deferred = <<>> /\ r.cleaning = <<>>
      BY <1>3, <2>1, <2>5 DEF Returned, Phases
    <3>2. Len(r.deferred) + 1 .. Len(r.ran) = DOMAIN r.ran
      BY <2>2, <3>1
    <3> QED
      BY <2>1, <3>1, <3>2 DEF Stacked
  <2> QED
    BY <2>3, <2>4, <2>5
<1>4. ASSUME NEW r, NEW k \in DOMAIN r.ran, RunDown(r, k)
      PROVE  ListRun(r, k)
  BY Zenon, <1>4 DEF RunDown, Undone, CleanupsOf, ListRun
<1>5. CleanupsExact
  <2>1. \A c \in Calls : CleanedUp(c, call[c])
    BY Zenon, <1>3, <1>4 DEF CleanedUp
  <2> QED
    BY <2>1 DEF CleanedUp, ListRun, CleanupsExact
<1> QED
  BY <1>2, <1>5 DEF WorkflowExact

\* A call that ends well has run every action of its phase in the workflow's
\* order and no other, and every cleanup of an action that succeeded has been run,
\* latest action first, each list up to its first failure: DetectForPhase,
\* runActionFromName and the functions it defers, for all plugins and callers.
THEOREM WorkflowsExact == EngineSpec => []WorkflowExact
<1>1. EngineInit => EngineInv
  BY EngineStarts
<1>2. EngineInv /\ [EngineNext]_engineVars => EngineInv'
  BY EngineStep
<1> QED
  BY <1>1, <1>2, EngineExact, PTL DEF EngineSpec

\* An interaction belongs to a service that was sent the address, and each call
\* whose callback action succeeded had one.
Confirmed(c, r) ==
  \A j \in DOMAIN r.ran : plugin.actions[r.ran[j]].kind = "callback" => c \in interactions

Attributed ==
  /\ \A c \in planted : mix[c].service \in vulnerable
  /\ interactions \subseteq planted
  /\ \A c \in Calls : Confirmed(c, call[c])

LEMMA LeaveConfirmed ==
  ASSUME NEW c, NEW r \in CallRecord, Confirmed(c, r), NEW out
  PROVE  Confirmed(c, Leave(r, out))
<1>1. Leave(r, out).ran = r.ran
  BY DEF Leave, CallRecord
<1> QED
  BY Zenon, <1>1 DEF Confirmed

LEMMA EndedConfirmed ==
  ASSUME NEW c, NEW r \in CallRecord, Confirmed(c, r), NEW res,
         r.outcome = "none" => r.todo # <<>>,
         res = "ok" /\ r.outcome = "none" /\ plugin.actions[Current(r)].kind = "callback"
           => c \in interactions
  PROVE  Confirmed(c, Ended(r, res))
<1> DEFINE n == Current(r)
<1>1. CASE r.outcome = "none" /\ res = "ok"
  <2>1. Ended(r, res).ran = Append(r.ran, n)
    BY <1>1 DEF Ended, CallRecord
  <2>2. r.ran \in Seq(STRING)
    BY DEF CallRecord, Strings
  <2>3. r.todo \in Seq(STRING) /\ r.todo # <<>> /\ n = Head(r.todo)
    BY <1>1 DEF CallRecord, Strings, Current
  <2>4. n \in STRING
    BY <2>3, HeadTailProperties
  <2>5. plugin.actions[n].kind = "callback" => c \in interactions
    BY <1>1
  <2> HIDE DEF n
  <2>6. \A j \in DOMAIN Append(r.ran, n) :
          Append(r.ran, n)[j] = n \/ (j \in DOMAIN r.ran /\ Append(r.ran, n)[j] = r.ran[j])
    <3>1. /\ Len(Append(r.ran, n)) = Len(r.ran) + 1 /\ Append(r.ran, n)[Len(r.ran) + 1] = n
          /\ \A i \in 1 .. Len(r.ran) : Append(r.ran, n)[i] = r.ran[i]
          /\ Append(r.ran, n) \in Seq(STRING)
      BY <2>2, <2>4, AppendProperties
    <3>2. /\ Len(r.ran) \in Nat /\ DOMAIN r.ran = 1 .. Len(r.ran)
          /\ DOMAIN Append(r.ran, n) = 1 .. Len(r.ran) + 1
      BY <2>2, <3>1, LenProperties
    <3>3. \A j \in 1 .. Len(r.ran) + 1 : j = Len(r.ran) + 1 \/ j \in 1 .. Len(r.ran)
      BY <3>2
    <3> TAKE j \in DOMAIN Append(r.ran, n)
    <3>4. j = Len(r.ran) + 1 \/ j \in 1 .. Len(r.ran)
      BY Zenon, <3>2, <3>3
    <3>5. CASE j = Len(r.ran) + 1
      <4>1. Append(r.ran, n)[j] = n
        BY <3>1, <3>5
      <4> QED
        BY <4>1
    <3>6. CASE j \in 1 .. Len(r.ran)
      BY Zenon, <3>1, <3>2, <3>6
    <3> QED
      BY <3>4, <3>5, <3>6
  <2>7. ASSUME NEW j \in DOMAIN Append(r.ran, n), plugin.actions[Append(r.ran, n)[j]].kind = "callback"
        PROVE  c \in interactions
    <3>1. CASE Append(r.ran, n)[j] = n
      BY <2>5, <2>7, <3>1
    <3>2. CASE j \in DOMAIN r.ran /\ Append(r.ran, n)[j] = r.ran[j]
      BY <2>7, <3>2 DEF Confirmed
    <3> QED
      BY <2>6, <3>1, <3>2
  <2> QED
    BY Zenon, <2>1, <2>7 DEF Confirmed
<1>2. CASE r.outcome = "none" /\ res # "ok"
  <2>1. Ended(r, res) = Leave(r, res)
    BY <1>2 DEF Ended
  <2> QED
    BY Zenon, <2>1, LeaveConfirmed
<1>3. CASE r.outcome # "none"
  <2>1. Ended(r, res).ran = r.ran
    BY <1>3 DEF Ended, CallRecord
  <2> QED
    BY Zenon, <2>1 DEF Confirmed
<1> QED
  BY <1>1, <1>2, <1>3

LEMMA DispatchConfirmed ==
  ASSUME NEW c, NEW r \in CallRecord, Confirmed(c, r), r.outcome = "none" => r.todo # <<>>
  PROVE  Confirmed(c, Dispatch(c, r))
<1>1. Dispatch(c, r) \in {Ended(r, "notFound"), Ended(r, "failed"), Ended(r, "invalid"),
                            [r EXCEPT !.pc = "act", !.uri = 1]}
  BY Zenon DEF Dispatch
<1>2. "notFound" # "ok" /\ "failed" # "ok" /\ "invalid" # "ok"
  OBVIOUS
<1>3. /\ Confirmed(c, Ended(r, "notFound"))
      /\ Confirmed(c, Ended(r, "failed"))
      /\ Confirmed(c, Ended(r, "invalid"))
  BY Zenon, <1>2, EndedConfirmed
<1>4. Confirmed(c, [r EXCEPT !.pc = "act", !.uri = 1])
  <2>1. [r EXCEPT !.pc = "act", !.uri = 1].ran = r.ran
    BY DEF CallRecord
  <2> QED
    BY Zenon, <2>1 DEF Confirmed
<1> QED
  BY <1>1, <1>3, <1>4

LEMMA AttributedStep ==
  ASSUME EngineInv, Attributed, UNCHANGED setting, UNCHANGED planted,
         interactions \subseteq interactions', interactions' \subseteq planted,
         NEW c \in Calls, NEW q, Confirmed(c, q), call' = [call EXCEPT ![c] = q]
  PROVE  Attributed'
<1>1. DOMAIN call = Calls
  BY DEF EngineInv
<1>2. UNCHANGED <<plugin, mix, vulnerable>>
  BY DEF setting
<1>3. ASSUME NEW d \in Calls
      PROVE  Confirmed(d, call[d])'
  <2>1. PICK x : x = call'[d]
    OBVIOUS
  <2>2. Confirmed(d, x)
    <3>1. CASE d = c
      BY <1>1, <2>1, <3>1
    <3>2. CASE d # c
      BY <1>1, <2>1, <3>2 DEF Attributed
    <3> QED
      BY <3>1, <3>2
  <2>3. Confirmed(d, x)'
    BY <1>2, <2>2 DEF Confirmed
  <2> QED
    BY <2>1, <2>3
<1> QED
  BY <1>2, <1>3 DEF Attributed


\* The other actions add no callback action to what has run.
LEMMA SecretsStep ==
  ASSUME EngineInv, Attributed, NEW c \in Calls, RunHTTP(c)
  PROVE  Attributed'
<1> DEFINE r == call[c]
<1>1. UNCHANGED setting /\ UNCHANGED interactions
  BY DEF RunHTTP
<1>2. r \in CallRecord /\ Placed(c, r) /\ Confirmed(c, r)
  BY DEF EngineInv, CallInv, Attributed
<1>3. r.pc = "act" /\ plugin.actions[Current(r)].kind = "http"
  BY DEF RunHTTP, Acting
<1>4. PICK res : call' = [call EXCEPT ![c] = TryURI(r, res)]
  BY Zenon DEF RunHTTP
<1>5. Confirmed(c, TryURI(r, res))
  <2>1. plugin.actions[Current(r)].kind # "callback"
    BY <1>3
  <2>2. r.outcome = "none" => r.todo # <<>>
    BY <1>2, <1>3 DEF Placed
  <2>3. Confirmed(c, Ended(r, res))
    BY Zenon, <1>2, <2>1, <2>2, EndedConfirmed
  <2>4. Confirmed(c, [r EXCEPT !.uri = @ + 1])
    <3>1. [r EXCEPT !.uri = @ + 1].ran = r.ran
      BY <1>2 DEF CallRecord
    <3> QED
      BY Zenon, <1>2, <3>1 DEF Confirmed
  <2> QED
    BY Zenon, <2>3, <2>4 DEF TryURI
<1>6. planted \subseteq planted' /\ \A d \in planted' : mix[d].service \in vulnerable
  <2>1. planted' = planted \/ (planted' = planted \union {c} /\ mix[c].service \in vulnerable)
    BY Zenon DEF RunHTTP, Secret
  <2> QED
    BY <2>1 DEF Attributed
<1>7. PICK q : q = TryURI(r, res)
  OBVIOUS
<1>8. call' = [call EXCEPT ![c] = q] /\ Confirmed(c, q)
  BY <1>4, <1>5, <1>7
<1>9. \A d \in Calls : Confirmed(d, call[d])'
  <2> TAKE d \in Calls
  <2>1. PICK x : x = call'[d]
    OBVIOUS
  <2>2. Confirmed(d, x)
    <3>1. CASE d = c
      BY <1>8, <2>1, <3>1 DEF EngineInv
    <3>2. CASE d # c
      BY <1>8, <2>1, <3>2 DEF Attributed, EngineInv
    <3> QED
      BY <3>1, <3>2
  <2>3. Confirmed(d, x)'
    BY <1>1, <2>2 DEF Confirmed, setting
  <2> QED
    BY <2>1, <2>3
<1>10. interactions' \subseteq planted'
  BY <1>1, <1>6 DEF Attributed
<1>11. \A d \in planted' : mix'[d].service \in vulnerable'
  BY <1>1, <1>6 DEF setting
<1> QED
  BY <1>9, <1>10, <1>11 DEF Attributed

LEMMA AttributedKept ==
  ASSUME EngineInv, Attributed, [EngineNext]_engineVars
  PROVE  Attributed'
<1>1. ASSUME UNCHANGED <<setting, call, planted>>, interactions \subseteq interactions',
             interactions' \subseteq planted
      PROVE  Attributed'
  <2>1. UNCHANGED <<plugin, mix, vulnerable>>
    BY <1>1 DEF setting
  <2>2. \A d \in Calls : Confirmed(d, call[d])'
    BY <1>1, <2>1 DEF Attributed, Confirmed
  <2> QED
    BY <1>1, <2>1, <2>2 DEF Attributed
<1>2. interactions \subseteq planted
  BY DEF Attributed
<1>3. CASE New \/ CancelScan \/ EngineTerminated \/ UNCHANGED engineVars
  BY <1>1, <1>2, <1>3 DEF New, CancelScan, EngineTerminated, engineVars
<1>4. CASE \E s \in planted : CallBack(s)
  BY <1>1, <1>2, <1>4 DEF CallBack
<1>5. ASSUME NEW c \in Calls, Begin(c) \/ Step(c)
      PROVE  Attributed'
  <2> DEFINE r == call[c]
  <2>1. r \in CallRecord /\ Phases(r) /\ Placed(c, r) /\ Confirmed(c, r)
    BY DEF EngineInv, CallInv, Attributed
  <2>2. ASSUME UNCHANGED <<setting, planted, interactions>>, NEW q, Confirmed(c, q),
               call' = [call EXCEPT ![c] = q]
        PROVE  Attributed'
    BY <1>2, <2>2, AttributedStep
  <2>3. CASE Begin(c)
    <3>1. UNCHANGED <<setting, planted, interactions>>
      BY <2>3 DEF Begin
    <3>2. PICK q, k : /\ q = Leave(r, "noWorkflow") \/ q = Leave(r, "initError")
                         \/ q = Started(r, k)
                      /\ call' = [call EXCEPT ![c] = q]
      <4> DEFINE fits == {i \in DOMAIN plugin.workflows : MeetsConditions(plugin.workflows[i])}
                 first == CHOOSE i \in fits : \A j \in fits : i <= j
      <4>1. PICK q \in IF fits = {} THEN {Leave(call[c], "noWorkflow")}
                       ELSE {[call[c] EXCEPT !.pc = "next", !.workflow = first,
                                             !.todo = plugin.workflows[first].acts],
                             Leave(call[c], "initError")} : call' = [call EXCEPT ![c] = q]
        BY <2>3 DEF Begin
      <4> HIDE DEF fits, first
      <4> QED
        BY Zenon, <4>1 DEF Started
    <3>3. Confirmed(c, Leave(r, "noWorkflow")) /\ Confirmed(c, Leave(r, "initError"))
      BY Zenon, <2>1, LeaveConfirmed
    <3>4. Confirmed(c, Started(r, k))
      <4>1. Started(r, k).ran = r.ran
        BY <2>1 DEF Started, CallRecord
      <4> QED
        BY Zenon, <2>1, <4>1 DEF Confirmed
    <3>5. Confirmed(c, q)
      BY <3>2, <3>3, <3>4
    <3> QED
      BY <2>2, <3>1, <3>2, <3>5
  <2>4. CASE NextAction(c)
    <3>1. UNCHANGED <<setting, planted, interactions>> /\ r.pc = "next"
      BY <2>4 DEF NextAction
    <3>2. PICK q : /\ \/ q = Leave(r, "report") \/ q = Leave(r, "nil")
                      \/ q = [r EXCEPT !.todo = Tail(@)]
                      \/ r.todo # <<>> /\ q = Dispatch(c, r)
                   /\ call' = [call EXCEPT ![c] = q]
      BY Zenon, <2>4 DEF NextAction
    <3>3. Confirmed(c, Leave(r, "report")) /\ Confirmed(c, Leave(r, "nil"))
      BY Zenon, <2>1, LeaveConfirmed
    <3>4. Confirmed(c, [r EXCEPT !.todo = Tail(@)])
      <4>1. [r EXCEPT !.todo = Tail(@)].ran = r.ran
        BY <2>1 DEF CallRecord
      <4> QED
        BY Zenon, <2>1, <4>1 DEF Confirmed
    <3>5. r.todo # <<>> => Confirmed(c, Dispatch(c, r))
      BY Zenon, <2>1, DispatchConfirmed
    <3>6. Confirmed(c, q)
      BY Zenon, <3>2, <3>3, <3>4, <3>5
    <3> QED
      BY <2>2, <3>1, <3>2, <3>6
  <2>5. CASE RunHTTP(c)
    BY <2>5, SecretsStep
  <2>6. r.pc = "act" /\ r.outcome = "none" => r.todo # <<>>
    BY <2>1 DEF Placed
  <2>7. CASE RunUtility(c)
    <3>1. UNCHANGED <<setting, planted, interactions>> /\ r.pc = "act"
      BY <2>7 DEF RunUtility, Acting
    <3>2. plugin.actions[Current(r)].kind # "callback"
      BY <2>7 DEF RunUtility, Acting
    <3>3. PICK res : call' = [call EXCEPT ![c] = Ended(r, res)]
      BY Zenon, <2>7 DEF RunUtility
    <3>4. Confirmed(c, Ended(r, res))
      BY Zenon, <2>1, <2>6, <3>1, <3>2, EndedConfirmed
    <3> QED
      BY <2>2, <3>1, <3>3, <3>4
  <2>8. CASE RunCallback(c)
    <3>1. UNCHANGED <<setting, planted, interactions>> /\ r.pc = "act"
      BY <2>8 DEF RunCallback, Acting
    <3>2. PICK res : /\ call' = [call EXCEPT ![c] = Ended(r, res)]
                     /\ res = "ok" => c \in interactions
      BY <2>8 DEF RunCallback, Secret
    <3>3. Confirmed(c, Ended(r, res))
      BY Zenon, <2>1, <2>6, <3>1, <3>2, EndedConfirmed
    <3> QED
      BY <2>2, <3>1, <3>2, <3>3
  <2>9. CASE Unwind(c)
    <3>1. UNCHANGED <<setting, planted, interactions>> /\ r.pc = "unwind"
      BY <2>9 DEF Unwind
    <3>2. r.outcome # "none"
      BY <2>1, <3>1 DEF Phases
    <3>3. PICK q : /\ \/ q = Dispatch(c, r)
                      \/ q = [r EXCEPT !.cleaning = Last(r.deferred), !.deferred = Front(@)]
                      \/ q = [r EXCEPT !.pc = "returned"]
                   /\ call' = [call EXCEPT ![c] = q]
      BY Zenon, <2>9 DEF Unwind
    <3>4. Confirmed(c, Dispatch(c, r))
      BY Zenon, <2>1, <3>2, DispatchConfirmed
    <3>5. /\ [r EXCEPT !.cleaning = Last(r.deferred), !.deferred = Front(@)].ran = r.ran
          /\ [r EXCEPT !.pc = "returned"].ran = r.ran
      BY <2>1 DEF CallRecord
    <3>6. Confirmed(c, q)
      BY Zenon, <2>1, <3>3, <3>4, <3>5 DEF Confirmed
    <3> QED
      BY <2>2, <3>1, <3>3, <3>6
  <2> QED
    BY <1>5, <2>3, <2>4, <2>5, <2>7, <2>8, <2>9 DEF Step
<1> QED
  BY <1>3, <1>4, <1>5 DEF EngineNext

\* A finding that rests on an interaction is about a service that called back:
\* the secret of an environment is planted by its own call only, so parallel
\* calls do not confirm each other (NewEnvironment, runCallbackAction).
THEOREM CallbacksAttributed ==
  EngineSpec => []CallbackAttributed
<1>1. EngineInit => EngineInv /\ Attributed
  <2> SUFFICES ASSUME EngineInit PROVE EngineInv /\ Attributed
    OBVIOUS
  <2>1. \A c \in Calls : call[c].ran = <<>>
    BY DEF EngineInit, NewCall
  <2>2. Attributed
    BY <2>1 DEF Attributed, Confirmed, EngineInit
  <2> QED
    BY <2>2, EngineStarts
<1>2. EngineInv /\ Attributed /\ [EngineNext]_engineVars => (EngineInv /\ Attributed)'
  BY EngineStep, AttributedKept
<1>3. EngineInv /\ Attributed => CallbackAttributed
  <2> SUFFICES ASSUME EngineInv, Attributed, NEW c \in Calls, NEW n \in Range(call[c].ran),
                      plugin.actions[n].kind = "callback"
               PROVE  mix[c].service \in vulnerable
    BY Zenon DEF CallbackAttributed
  <2>1. PICK j \in DOMAIN call[c].ran : call[c].ran[j] = n
    BY DEF Range
  <2>2. c \in interactions
    BY <2>1 DEF Attributed, Confirmed
  <2> QED
    BY <2>2 DEF Attributed
<1> QED
  BY <1>1, <1>2, <1>3, PTL DEF EngineSpec
=============================================================================
