---------------------------- MODULE CallbackServer ----------------------------
(***************************************************************************)
(* The out-of-band callback server (tools/callbackserver), as the scanner  *)
(* runs it or on its own: the in-memory interaction store with its cleanup *)
(* goroutine, the HTTP and DNS endpoints that record interactions, the     *)
(* endpoint that is polled and the client with which the scanner names     *)
(* callbacks and polls for them (common/clients/callbackserver).           *)
(*                                                                         *)
(* Time is a counter.  The ticker is punctual: the clock does not pass a   *)
(* tick before the cleanup goroutine has taken it.  A DNS query is the     *)
(* identifier it asks for, or Other for a name that is refused.            *)
(***************************************************************************)
EXTENDS CallbackNames

CONSTANTS
  Configs,          \* configurations: the endpoints to start, by whom, the URIs
  TTL,              \* interaction_ttl_seconds
  CleanupInterval,  \* cleanup_interval_seconds
  MaxTime,          \* bound: the last instant of the clock
  MaxDatagrams      \* bound: the DNS datagrams that arrive

\* A server with any other times is not created.
ValidateConfig == TTL \in Nat \ {0} /\ CleanupInterval \in Nat \ {0}

ASSUME CallbackAssumption ==
  /\ ValidateConfig
  /\ Other \notin Ids
  /\ \A cfg \in Configs : /\ cfg.local \subseteq {"poll", "http", "dns"}
                           /\ cfg.standalone \in BOOLEAN
                           /\ cfg.uris.http.path \in Seq(STRING)
  /\ MaxTime \in Nat
  /\ MaxDatagrams \in Nat

VARIABLES
  config,     \* the configuration: local, standalone and uris
  phase,      \* startCallbackServer and run: what they do next
  up,         \* the endpoints that are listening
  ctxDone,    \* the context given to New and the Start functions is done
  now,        \* the clock
  nextTick,   \* when the ticker of cleanupLoop fires
  cleaning,   \* cleanupLoop has not returned
  storage,    \* InMemoryInteractionStore.storage; nothing for an absent key
  dnsLoop,    \* ServeDNS: "off", "loop" or "returned"
  dnsBuf,     \* the 512 bytes all handlers share: the last datagram read
  handlers,   \* the HandleDNS goroutines, each with the query it was given
  datagrams,  \* how many datagrams have been read
  polled,     \* the last poll: the reply, the answer of HasInteraction and, as
              \* history, whether a no denied an interaction that is due
  seen,       \* history: when <<id, type>> was last registered
  called      \* history: the callbacks <<id, type>> that targets made

serverVars == <<config, phase, up, ctxDone>>
storeVars  == <<nextTick, cleaning, storage>>
dnsVars    == <<dnsLoop, dnsBuf, handlers, datagrams>>
vars       == <<serverVars, now, storeVars, dnsVars, polled, seen, called>>

Types == {"http", "dns"}

Never == -1

NoPoll == [id |-> Other, at |-> Never, got |-> {}, reply |-> "none", answer |-> "none", due |-> FALSE]

Init ==
  /\ config \in Configs
  /\ phase = IF config.standalone THEN "http" ELSE "poll"
  /\ up = {}
  /\ ctxDone = FALSE
  /\ now = 0
  /\ nextTick = CleanupInterval
  /\ cleaning = TRUE
  /\ storage = [c \in Ids |-> {}]
  /\ dnsLoop = "off"
  /\ dnsBuf = Other
  /\ handlers = <<>>
  /\ datagrams = 0
  /\ polled = NoPoll
  /\ seen = [x \in Ids \X Types |-> Never]
  /\ called = {}

-----------------------------------------------------------------------------
(* startCallbackServer of the scanner, and main of the standalone server.  *)

\* StartPolling, StartRecordingHTTP and StartRecordingDNS, in this order; the
\* standalone server starts recording first, and over HTTP only.
Following ==
  IF config.standalone THEN [http |-> "poll", poll |-> "serving"]
                       ELSE [poll |-> "http", http |-> "dns", dns |-> "serving"]

\* An endpoint that is not local is skipped.  One that cannot be bound ends the
\* start: the earlier ones of the scanner go on listening, those of the
\* standalone server end with its process.
Start(e) ==
  /\ phase = e
  /\ \/ e \notin config.local /\ phase' = Following[e] /\ UNCHANGED <<up, dnsLoop, cleaning>>
     \/ /\ e \in config.local
        /\ phase' = "failed"
        /\ up' = IF config.standalone THEN {} ELSE up
        /\ cleaning' = (cleaning /\ ~config.standalone)
        /\ UNCHANGED dnsLoop
     \/ /\ e \in config.local
        /\ phase' = Following[e]
        /\ up' = up \cup {e}
        /\ dnsLoop' = IF e = "dns" THEN "loop" ELSE dnsLoop
        /\ UNCHANGED cleaning
  /\ UNCHANGED <<config, ctxDone, now, nextTick, storage, dnsBuf, handlers, datagrams,
                 polled, seen, called>>

\* Shutdown when the scan is over; the standalone server waits for a signal.
Shutdown ==
  /\ phase = "serving"
  /\ config.standalone => ctxDone
  /\ phase' = "shutdown"
  /\ up' = {}
  /\ UNCHANGED <<config, ctxDone, now, storeVars, dnsVars, polled, seen, called>>

\* The signal handler of the standalone server cancels the context.
Cancel ==
  /\ ~ctxDone
  /\ ctxDone' = TRUE
  /\ UNCHANGED <<config, phase, up, now, storeVars, dnsVars, polled, seen, called>>

-----------------------------------------------------------------------------
(* The interaction store; each operation holds its mutex throughout.       *)

\* An interaction of a type replaces the older one of that type.
Register_NotRefreshed(c, t) ==
  /\ storage' = [storage EXCEPT ![c] =
       IF \E i \in @ : i.type = t THEN @ ELSE @ \cup {[type |-> t, at |-> now]}]
  /\ seen' = [seen EXCEPT ![<<c, t>>] = now]

Register(c, t) ==
  /\ storage' = [storage EXCEPT ![c] =
       {i \in @ : i.type # t} \cup {[type |-> t, at |-> now]}]
  /\ seen' = [seen EXCEPT ![<<c, t>>] = now]

Expired(i) == now > i.at + TTL

\* One turn of cleanupLoop: it ends once the context is done.
Cleanup ==
  /\ cleaning
  /\ now = nextTick
  /\ IF ctxDone
       THEN cleaning' = FALSE /\ UNCHANGED <<storage, nextTick>>
       ELSE /\ storage' = [c \in Ids |-> {i \in storage[c] : ~Expired(i)}]
            /\ nextTick' = nextTick + CleanupInterval
            /\ UNCHANGED cleaning
  /\ UNCHANGED <<serverVars, now, dnsVars, polled, seen, called>>

Tick ==
  /\ now < MaxTime
  /\ cleaning => now < nextTick
  /\ now' = now + 1
  /\ UNCHANGED <<serverVars, storeVars, dnsVars, polled, seen, called>>

-----------------------------------------------------------------------------
\* A target calls back to the URL that GetHTTPCallbackURI gave it: ServeHTTP of
\* the RecordingHandler takes the identifier out of its path.
RecordHTTP(c) ==
  /\ "http" \in up
  /\ \E path \in GetHTTPCallbackURI(config.uris, c) :
       LET id == IdentifierFromURL(path) IN
         IF id = Other THEN UNCHANGED <<storage, seen>> ELSE Register(id, "http")
  /\ called' = called \cup {<<c, "http">>}
  /\ UNCHANGED <<serverVars, now, nextTick, cleaning, dnsVars, polled>>

\* PollingHandler.ServeHTTP and Get: interactions of any age are found, and the
\* status without one is 404.
Served(c) == IF storage[c] # {} THEN "ok" ELSE "notFound"

\* What a poll can get: nothing, or a 200 that cannot be read; what the polling
\* endpoint serves; or some other status than 200, the endpoint's own 400 and
\* 500 or that of a proxy, also while the endpoint is not up.
Replies(c) == {"failed", "otherStatus"} \cup (IF "poll" \in up THEN {Served(c)} ELSE {})

\* HasInteraction: every status but 200 is a no.
Answer(reply) ==
  CASE reply = "failed" -> "error"
    [] reply = "ok"     -> "yes"
    [] OTHER            -> "no"

Poll(c) ==
  /\ IsCallbackServerEnabled(config.uris)
  /\ \E reply \in Replies(c) :
       polled' = [id |-> c, at |-> now, reply |-> reply, answer |-> Answer(reply),
                  got |-> IF reply = "ok" THEN storage[c] ELSE {},
                  due |-> /\ Answer(reply) = "no"
                          /\ \E t \in Types : seen[<<c, t>>] # Never /\ now <= seen[<<c, t>>] + TTL]
  /\ UNCHANGED <<serverVars, now, storeVars, dnsVars, seen, called>>

\* One round of ServeDNS.  The handler is given a slice of the buffer that the
\* next round reads into; reading fails when the connection is closed.
ReadDNS(q) ==
  /\ dnsLoop = "loop"
  /\ "dns" \in up
  /\ ~ctxDone
  /\ datagrams < MaxDatagrams
  /\ q # Other => \E labels \in GetDNSCallbackDomain(config.uris, q) :
                    IdentifierOfQuery(labels, config.uris.dns) = q
  /\ datagrams' = datagrams + 1
  /\ dnsBuf' = q
  /\ handlers' = Append(handlers, q)
  /\ called' = called \cup (({q} \cap Ids) \X {"dns"})
  /\ UNCHANGED <<serverVars, now, storeVars, dnsLoop, polled, seen>>

\* The round in which the context is found done, or the read fails.
LoopDNS ==
  /\ dnsLoop = "loop"
  /\ ctxDone \/ "dns" \notin up
  /\ dnsLoop' = IF ctxDone THEN "returned" ELSE "loop"
  /\ UNCHANGED <<serverVars, now, storeVars, dnsBuf, handlers, datagrams,
                 polled, seen, called>>

\* What a handler unpacks: its own query, unless the buffer has been read
\* into since; then the newer query or a mix of both, which names nothing.
Unpacked(q) == IF q = dnsBuf THEN {q} ELSE {dnsBuf, Other}

DNSType == "dns"

HandleDNS(k) ==
  /\ k \in 1 .. Len(handlers)
  /\ \E q \in Unpacked(handlers[k]) :
       IF q \in Ids THEN Register(q, DNSType)
                    ELSE UNCHANGED <<storage, seen>>
  /\ handlers' = RemoveAt(handlers, k)
  /\ UNCHANGED <<serverVars, now, nextTick, cleaning, dnsLoop, dnsBuf,
                 datagrams, polled, called>>

Terminated == phase \in {"failed", "shutdown"} /\ UNCHANGED vars

Next ==
  \/ \E e \in {"poll", "http", "dns"} : Start(e)
  \/ Shutdown
  \/ Cancel
  \/ Tick
  \/ Cleanup
  \/ \E c \in Ids : RecordHTTP(c) \/ Poll(c)
  \/ \E q \in Ids \cup {Other} : ReadDNS(q)
  \/ LoopDNS
  \/ \E k \in 1 .. Len(handlers) : HandleDNS(k)
  \/ Terminated

Spec == Init /\ [][Next]_vars

\* The goroutines of the server are scheduled and the clock goes on.
Fairness ==
  /\ WF_vars(Tick)
  /\ WF_vars(Cleanup)
  /\ WF_vars(LoopDNS)
  /\ WF_vars(\E k \in 1 .. Len(handlers) : HandleDNS(k))

FairSpec == Spec /\ Fairness

-----------------------------------------------------------------------------
Interaction == [type : Types, at : 0 .. MaxTime]

TypeOK ==
  /\ phase \in {"poll", "http", "dns", "serving", "shutdown", "failed"}
  /\ config \in Configs
  /\ up \subseteq config.local
  /\ ctxDone \in BOOLEAN
  /\ now \in 0 .. MaxTime
  /\ nextTick \in Nat
  /\ cleaning \in BOOLEAN
  /\ storage \in [Ids -> SUBSET Interaction]
  /\ dnsLoop \in {"off", "loop", "returned"}
  /\ dnsBuf \in Ids \cup {Other}
  /\ handlers \in Seq(Ids \cup {Other})
  /\ datagrams \in 0 .. MaxDatagrams
  /\ polled.got \subseteq Interaction
  /\ seen \in [Ids \X Types -> {Never} \cup 0 .. MaxTime]
  /\ called \subseteq Ids \X Types

\* An interaction is kept for its whole time to live, counted from the last
\* time it was recorded, whatever other interactions of the same identifier
\* and cleanups come in between, and there is one per type.
FreshKept ==
  \A c \in Ids, t \in Types :
    /\ seen[<<c, t>>] # Never /\ now <= seen[<<c, t>>] + TTL =>
         [type |-> t, at |-> seen[<<c, t>>]] \in storage[c]
    /\ Cardinality({i \in storage[c] : i.type = t}) <= 1

\* The answer to a poll is true: an interaction is reported only if the target
\* called back, and one within its time to live is denied only after a reply
\* with some other status than the endpoint's 200 and 404, which the client
\* takes for a no.  What is recorded for an identifier is what was done with it,
\* an HTTP interaction only for an HTTP request and a DNS interaction only for
\* a query, even when handlers read a buffer that has been overwritten; and
\* every callback to the URL the client made up is recorded, unless the public
\* URI has a path of its own.
PollIsTrue ==
  /\ \A i \in polled.got : <<polled.id, i.type>> \in called
  /\ polled.answer = "no" /\ polled.due => polled.reply = "otherStatus"
  /\ \A x \in called : x[2] = "http" /\ config.uris.http.path \in {<<>>, <<"">>} =>
       seen[x] # Never

\* What the comment on HasInteraction says it checks: whether the server has
\* recorded an interaction, so that a no, which is no error, means that none is
\* within its time to live.  (Violated: a 500, or a proxy's 502, is a no.)
NoMeansNone == polled.answer = "no" => ~polled.due

\* While the cleanup runs, a poll never reports an interaction that is older
\* than its time to live plus one cleanup interval.
StaleBounded ==
  ~ctxDone => \A i \in polled.got : polled.at - i.at <= TTL + CleanupInterval

\* The store keeps what it should, and for no longer.
StoreExact == FreshKept /\ StaleBounded

\* What the comment on the DNS RecordingHandler says: it records interactions.
\* Each query for an identifier has been registered once no handler is left.
\* (Violated: handlers share one buffer.)
QueriesRecorded ==
  handlers = <<>> => \A x \in called : x[2] = "dns" => seen[x] # Never

\* What the comment on Shutdown says: the server is shut down, so its DNS loop
\* ends.  (Violated: it retries the closed connection for ever.)
ShutdownEndsLoop == (phase = "shutdown") ~> (dnsLoop # "loop")
=============================================================================
