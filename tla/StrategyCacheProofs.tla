------------------------- MODULE StrategyCacheProofs -------------------------
(***************************************************************************)
(* The strategy cache of the agentic detector: a cached strategy fits the  *)
(* service it is used for, and what is on disk is usable, for any number   *)
(* of services, crashes and failed writes.                                 *)
(***************************************************************************)
EXTENDS StrategyCache, TLAPS

-----------------------------------------------------------------------------
(* The inductive invariant.                                                *)

Adding == {"openStrategy", "writeStrategy", "openIndex", "writeIndex"}

\* One Add at a time, with its strategy at hand and its entry in the index.
OneAdds ==
  /\ \A s \in Services : pc[s] \in Adding <=> mutex = s
  /\ \A s \in Services : pc[s] \in Adding \cup {"hash"} => strategy[s] \in Strategies
  /\ \A s \in Services : pc[s] \in Adding => HashToPath[Key(s)] # None

\* The index is written when the strategy's file is.
AdderFiled ==
  \A s \in Services : pc[s] \in {"openIndex", "writeIndex"} => strategies[Key(s)] \in Strategies

\* A strategy is filed under the hash of the page it logs in at.
FiledByHash == \A h \in Hashes : strategies[h] \in Strategies => KeyOf(strategies[h]) = h

\* As long as nothing was damaged, an entry was added, or is being added.
EntriesAdded ==
  damaged = {} =>
    /\ \A h \in Hashes : HashToPath[h] # None =>
         h \in added \/ \E s \in Services : mutex = s /\ h = Key(s)
    /\ \A s \in Services, h \in Hashes : snap[s][h] # None => h \in added

\* And what was added is there, but for the file that is being written again.
AddedKept ==
  damaged = {} =>
    /\ \A h \in added :
         /\ HashToPath[h] # None
         /\ \/ strategies[h] \in Strategies
            \/ \E s \in Services : mutex = s /\ pc[s] = "writeStrategy" /\ h = Key(s)
    /\ mutex = None => \/ indexFile = HashToPath
                       \/ indexFile = None /\ HashToPath = NoEntries

\* An entry in memory has its file, or is about to have it made.
EntriesFiled ==
  "failed" \notin damaged =>
    \A h \in Hashes : HashToPath[h] # None =>
      \/ strategies[h] # None
      \/ \E s \in Services : mutex = s /\ pc[s] = "openStrategy" /\ h = Key(s)

CacheInv ==
  /\ TypeOK
  /\ OneAdds
  /\ AdderFiled
  /\ FiledByHash
  /\ EntriesAdded
  /\ AddedKept
  /\ EntriesFiled
  /\ IndexBacked
  /\ CachedFits

-----------------------------------------------------------------------------
(* Assumptions and types, as the proofs use them.                          *)

LEMMA Markers ==
  /\ None \notin Services /\ None \notin Paths /\ None \notin Strategies
  /\ Torn \notin Strategies /\ Torn # None
  /\ None \notin [Hashes -> Paths \cup {None}] /\ Torn \notin [Hashes -> Paths \cup {None}]
  /\ NoEntries \in [Hashes -> Paths \cup {None}]
  /\ \A h \in Hashes : NoEntries[h] = None
  BY CacheAssumption DEF NoEntries

LEMMA Hashed ==
  /\ \A s \in Services, p \in Paths : PageHash[s][p] \in Hashes
  /\ \A x \in Strategies : KeyOf(x) \in Hashes
  BY CacheAssumption DEF KeyOf, Strategies

\* The service that adds has its strategy and its key.
LEMMA AdderFacts ==
  ASSUME CacheInv, NEW s \in Services, pc[s] \in Adding \cup {"hash"}
  PROVE  /\ strategy[s] \in Strategies /\ Key(s) \in Hashes
         /\ strategy[s].path \in Paths
         /\ pc[s] \in Adding => mutex = s /\ mutex # None /\ HashToPath[Key(s)] # None
         /\ pc[s] \in Adding => \A t \in Services : t # s => pc[t] \notin Adding /\ mutex # t
  BY Hashed, Markers DEF CacheInv, OneAdds, Key, Strategies

\* What a probe does: it drops a path, or ends the search with the file of the
\* hash that the page at the path has.
LEMMA ProbeFacts ==
  ASSUME CacheInv, NEW s \in Services, Probe(s)
  PROVE  /\ pc[s] = "probe"
         /\ UNCHANGED <<HashToPath, mutex, indexFile, strategies, crashes, damaged, added>>
         /\ \/ /\ \E p \in todo[s] : todo' = [todo EXCEPT ![s] = @ \ {p}]
               /\ UNCHANGED <<pc, snap, strategy>>
            \/ /\ todo' = [todo EXCEPT ![s] = {}] /\ snap' = [snap EXCEPT ![s] = NoEntries]
               /\ \E p \in Paths, h \in Hashes :
                    /\ snap[s][h] = p /\ h = PageHash[s][p]
                    /\ strategy' = [strategy EXCEPT ![s] =
                                      IF strategies[h] = Torn THEN None ELSE strategies[h]]
                    /\ \/ strategies[h] = None /\ pc' = [pc EXCEPT ![s] = "agent"]
                       \/ strategies[h] = Torn /\ pc' = [pc EXCEPT ![s] = "badCache"]
                       \/ strategies[h] \in Strategies /\ pc' = [pc EXCEPT ![s] = "cached"]
<1>1. pc[s] = "probe"
      /\ UNCHANGED <<HashToPath, mutex, indexFile, strategies, crashes, damaged, added>>
  BY DEF Probe, diskVars
<1>2. todo[s] \subseteq Paths /\ \A h \in Hashes : strategies[h] \in Strategies \cup {None, Torn}
  BY DEF CacheInv, TypeOK
<1>3. PICK p \in todo[s] :
        \/ /\ todo' = [todo EXCEPT ![s] = @ \ {p}]
           /\ UNCHANGED <<pc, snap, strategy>>
        \/ \E h \in Matches(s, p) :
             /\ strategy' = [strategy EXCEPT ![s] = IF strategies[h] = Torn THEN None
                                                    ELSE strategies[h]]
             /\ Goto(s, CASE strategies[h] = None -> "agent"
                          [] strategies[h] = Torn -> "badCache"
                          [] OTHER -> "cached")
             /\ Forget(s)
  BY DEF Probe
<1>4. ASSUME NEW h \in Matches(s, p), Forget(s),
             strategy' = [strategy EXCEPT ![s] = IF strategies[h] = Torn THEN None
                                                 ELSE strategies[h]],
             Goto(s, CASE strategies[h] = None -> "agent"
                       [] strategies[h] = Torn -> "badCache"
                       [] OTHER -> "cached")
      PROVE  /\ todo' = [todo EXCEPT ![s] = {}] /\ snap' = [snap EXCEPT ![s] = NoEntries]
             /\ p \in Paths /\ h \in Hashes /\ snap[s][h] = p /\ h = PageHash[s][p]
             /\ \/ strategies[h] = None /\ pc' = [pc EXCEPT ![s] = "agent"]
                \/ strategies[h] = Torn /\ pc' = [pc EXCEPT ![s] = "badCache"]
                \/ strategies[h] \in Strategies /\ pc' = [pc EXCEPT ![s] = "cached"]
  <2>1. h \in Hashes /\ snap[s][h] = p /\ h = PageHash[s][p]
    BY DEF Matches
  <2>2. \/ strategies[h] = None /\ pc' = [pc EXCEPT ![s] = "agent"]
        \/ strategies[h] = Torn /\ pc' = [pc EXCEPT ![s] = "badCache"]
        \/ strategies[h] \in Strategies /\ pc' = [pc EXCEPT ![s] = "cached"]
    BY <1>2, <1>4, <2>1, Markers DEF Goto
  <2> QED
    BY <1>2, <1>3, <1>4, <2>1, <2>2 DEF Forget
<1> QED
  BY <1>1, <1>3, <1>4

LEMMA TypeStep ==
  ASSUME CacheInv, [Next]_vars
  PROVE  TypeOK'
<1> USE DEF Steps
<1>1. ASSUME NEW s \in Services, Snapshot(s)
      PROVE  TypeOK'
  BY <1>1, Markers DEF CacheInv, TypeOK, Snapshot, Goto, diskVars
<1>2. ASSUME NEW s \in Services, Probe(s)
      PROVE  TypeOK'
  <2>1. /\ pc \in [Services -> Steps] /\ todo \in [Services -> SUBSET Paths]
        /\ snap \in [Services -> [Hashes -> Paths \cup {None}]]
        /\ strategy \in [Services -> Strategies \cup {None}]
        /\ \A h \in Hashes : strategies[h] \in Strategies \cup {None, Torn}
    BY DEF CacheInv, TypeOK
  <2>2. todo' \in [Services -> SUBSET Paths]
    BY <1>2, <2>1, ProbeFacts
  <2>3. snap' \in [Services -> [Hashes -> Paths \cup {None}]]
    BY <1>2, <2>1, ProbeFacts, Markers
  <2>4. pc' \in [Services -> Steps]
    <3>1. pc' = pc \/ \E l \in {"agent", "badCache", "cached"} : pc' = [pc EXCEPT ![s] = l]
      BY <1>2, ProbeFacts
    <3> QED
      BY <2>1, <3>1
  <2>5. strategy' \in [Services -> Strategies \cup {None}]
    BY <1>2, <2>1, ProbeFacts
  <2> QED
    BY <1>2, <2>2, <2>3, <2>4, <2>5, ProbeFacts DEF CacheInv, TypeOK
<1>3. ASSUME NEW s \in Services, Miss(s) \/ RunAgent(s) \/ Again(s)
      PROVE  TypeOK'
  <2>1. CASE Miss(s)
    BY <2>1, Markers DEF CacheInv, TypeOK, Miss, Goto, Forget, diskVars
  <2>2. CASE RunAgent(s)
    <3>1. strategy' \in [Services -> Strategies \cup {None}]
      BY <2>2 DEF RunAgent, Strategies, CacheInv, TypeOK
    <3> QED
      BY <2>2, <3>1 DEF CacheInv, TypeOK, RunAgent, Goto, diskVars
  <2>3. CASE Again(s)
    BY <2>3 DEF CacheInv, TypeOK, Again, Goto, diskVars
  <2> QED
    BY <1>3, <2>1, <2>2, <2>3
<1>4. ASSUME NEW s \in Services, Enter(s)
      PROVE  TypeOK'
  BY <1>4, AdderFacts DEF CacheInv, TypeOK, Enter, Goto, FirstWrite, diskVars
<1>5. ASSUME NEW s \in Services, OpenStrategy(s) \/ WriteStrategy(s)
      PROVE  TypeOK'
  BY <1>5, AdderFacts DEF CacheInv, TypeOK, OpenStrategy, WriteStrategy, Goto, Unlock, Adding
<1>6. ASSUME NEW s \in Services, OpenIndex(s) \/ WriteIndex(s)
      PROVE  TypeOK'
  BY <1>6, AdderFacts DEF CacheInv, TypeOK, OpenIndex, WriteIndex, Goto, Unlock, Saved, Adding
<1>7. CASE Crash
  <2>1. HashToPath' \in [Hashes -> Paths \cup {None}]
    BY <1>7, Markers DEF CacheInv, TypeOK, Crash, Load
  <2>2. crashes' \in 0 .. MaxCrashes
    BY <1>7, CacheAssumption DEF CacheInv, TypeOK, Crash
  <2>3. damaged' \subseteq {"failed", "cutOff"}
    BY <1>7 DEF CacheInv, TypeOK, Crash
  <2> QED
    BY <1>7, <2>1, <2>2, <2>3, Markers DEF CacheInv, TypeOK, Crash, diskVars
<1>8. CASE UNCHANGED vars
  BY <1>8 DEF CacheInv, TypeOK, vars, diskVars, callVars
<1> QED
  BY <1>1, <1>2, <1>3, <1>4, <1>5, <1>6, <1>7, <1>8 DEF Next

-----------------------------------------------------------------------------
(* The steps that leave the index and the files alone.                     *)

Looking(s) == Snapshot(s) \/ Probe(s) \/ Miss(s) \/ RunAgent(s) \/ Again(s)

LEMMA LookingFacts ==
  ASSUME CacheInv, NEW s \in Services, Looking(s)
  PROVE  /\ UNCHANGED <<HashToPath, mutex, indexFile, strategies, damaged, added>>
         /\ pc[s] \notin Adding /\ pc'[s] \notin Adding
         /\ pc'[s] = "hash" => strategy'[s] \in Strategies
         /\ \A t \in Services : t # s => /\ pc'[t] = pc[t] /\ strategy'[t] = strategy[t]
                                         /\ snap'[t] = snap[t]
         /\ \/ snap'[s] = snap[s] \/ snap'[s] = NoEntries
            \/ snap'[s] = HashToPath /\ mutex = None
<1> USE DEF Adding
<1>1. /\ pc \in [Services -> Steps] /\ snap \in [Services -> [Hashes -> Paths \cup {None}]]
      /\ strategy \in [Services -> Strategies \cup {None}]
  BY DEF CacheInv, TypeOK
<1>2. CASE Snapshot(s)
  BY <1>1, <1>2 DEF Snapshot, MayRead, Goto, diskVars
<1>3. CASE Probe(s)
  <2>1. \/ pc' = pc
        \/ \E l \in {"agent", "badCache", "cached"} : pc' = [pc EXCEPT ![s] = l]
    BY <1>3, ProbeFacts
  <2>2. strategy' = strategy \/ \E x : strategy' = [strategy EXCEPT ![s] = x]
    BY <1>3, ProbeFacts
  <2>3. snap' = snap \/ snap' = [snap EXCEPT ![s] = NoEntries]
    BY <1>3, ProbeFacts
  <2>4. pc[s] = "probe" /\ UNCHANGED <<HashToPath, mutex, indexFile, strategies, damaged, added>>
    BY <1>3, ProbeFacts
  <2>5. pc'[s] \notin Adding \cup {"hash"} /\ \A t \in Services : t # s => pc'[t] = pc[t]
    BY <1>1, <2>1, <2>4
  <2>6. \A t \in Services : t # s => strategy'[t] = strategy[t] /\ snap'[t] = snap[t]
    BY <1>1, <2>2, <2>3
  <2>7. snap'[s] = snap[s] \/ snap'[s] = NoEntries
    BY <1>1, <2>3
  <2> QED
    BY <2>4, <2>5, <2>6, <2>7
<1>4. CASE Miss(s)
  <2>1. /\ pc[s] = "probe" /\ pc' = [pc EXCEPT ![s] = "agent"]
        /\ snap' = [snap EXCEPT ![s] = NoEntries] /\ strategy' = strategy
        /\ UNCHANGED <<HashToPath, mutex, indexFile, strategies, damaged, added>>
    BY <1>4 DEF Miss, Goto, Forget, diskVars
  <2> QED
    BY <1>1, <2>1
<1>5. CASE RunAgent(s)
  <2>1. /\ pc[s] = "agent" /\ snap' = snap
        /\ UNCHANGED <<HashToPath, mutex, indexFile, strategies, damaged, added>>
    BY <1>5 DEF RunAgent, diskVars
  <2>2. CASE strategy' = strategy /\ \E l \in {"error", "noAuth"} : pc' = [pc EXCEPT ![s] = l]
    BY <1>1, <2>1, <2>2
  <2>3. CASE /\ pc' = [pc EXCEPT ![s] = "hash"]
             /\ \E x \in Strategies : strategy' = [strategy EXCEPT ![s] = x]
    BY <1>1, <2>1, <2>3
  <2> QED
    BY <1>5, <2>2, <2>3 DEF RunAgent, Goto, Strategies
<1>6. CASE Again(s)
  <2>1. /\ pc[s] \in {"found", "cached", "noAuth", "badCache", "error"}
        /\ pc' = [pc EXCEPT ![s] = "idle"] /\ strategy' = [strategy EXCEPT ![s] = None]
        /\ UNCHANGED <<HashToPath, mutex, indexFile, strategies, damaged, added, snap>>
    BY <1>6 DEF Again, Goto, diskVars
  <2> QED
    BY <1>1, <2>1
<1> QED
  BY <1>2, <1>3, <1>4, <1>5, <1>6 DEF Looking

LEMMA LookingKeeps ==
  ASSUME CacheInv, NEW s \in Services, Looking(s)
  PROVE  OneAdds' /\ FiledByHash' /\ EntriesAdded' /\ AddedKept' /\ EntriesFiled' /\ IndexBacked'
<1>1. /\ UNCHANGED <<HashToPath, mutex, indexFile, strategies, damaged, added>>
      /\ pc[s] \notin Adding /\ pc'[s] \notin Adding
      /\ pc'[s] = "hash" => strategy'[s] \in Strategies
      /\ \A t \in Services : t # s => /\ pc'[t] = pc[t] /\ strategy'[t] = strategy[t]
                                      /\ snap'[t] = snap[t]
      /\ \/ snap'[s] = snap[s] \/ snap'[s] = NoEntries
         \/ snap'[s] = HashToPath /\ mutex = None
  BY LookingFacts
<1>2. \A t \in Services : mutex = t => t # s /\ pc[t] \in Adding
  BY <1>1 DEF CacheInv, OneAdds
<1>3. OneAdds'
  BY <1>1 DEF CacheInv, OneAdds, Key, Adding
<1>4. FiledByHash' /\ IndexBacked'
  BY <1>1 DEF CacheInv, FiledByHash, IndexBacked, KeyOf
<1>5. \A t \in Services : mutex = t => pc'[t] = pc[t] /\ KeyOf(strategy'[t]) = KeyOf(strategy[t])
  BY <1>1, <1>2
<1>6. EntriesAdded'
  <2>1. ASSUME damaged = {}, NEW h \in Hashes, HashToPath[h] # None
        PROVE  h \in added \/ \E t \in Services : mutex = t /\ h = KeyOf(strategy'[t])
    BY <1>5, <2>1 DEF CacheInv, EntriesAdded, Key
  <2>2. ASSUME damaged = {}, NEW t \in Services, NEW h \in Hashes, snap'[t][h] # None
        PROVE  h \in added
    <3>1. CASE snap'[t] = snap[t]
      BY <2>2, <3>1 DEF CacheInv, EntriesAdded
    <3>2. CASE snap'[t] = NoEntries
      BY <2>2, <3>2, Markers
    <3>3. CASE snap'[t] = HashToPath /\ mutex = None
      BY <2>2, <3>3, Markers DEF CacheInv, EntriesAdded
    <3> QED
      BY <1>1, <3>1, <3>2, <3>3
  <2> QED
    BY <1>1, <2>1, <2>2 DEF EntriesAdded, Key
<1>7. AddedKept'
  <2>1. ASSUME damaged = {}, NEW h \in added
        PROVE  /\ HashToPath[h] # None
               /\ \/ strategies[h] \in Strategies
                  \/ \E t \in Services : /\ mutex = t /\ pc'[t] = "writeStrategy"
                                         /\ h = KeyOf(strategy'[t])
    BY <1>5, <2>1 DEF CacheInv, AddedKept, Key
  <2> QED
    BY <1>1, <2>1 DEF CacheInv, AddedKept, Key
<1>8. EntriesFiled'
  <2>1. ASSUME "failed" \notin damaged, NEW h \in Hashes, HashToPath[h] # None
        PROVE  \/ strategies[h] # None
               \/ \E t \in Services : /\ mutex = t /\ pc'[t] = "openStrategy"
                                      /\ h = KeyOf(strategy'[t])
    BY <1>5, <2>1 DEF CacheInv, EntriesFiled, Key
  <2> QED
    BY <1>1, <2>1 DEF EntriesFiled, Key
<1> QED
  BY <1>3, <1>4, <1>6, <1>7, <1>8

-----------------------------------------------------------------------------
(* The steps of Add.                                                       *)

\* An Add that stops, or a call that does not begin it: nothing is damaged that
\* was not said to be.
LEMMA EnterKeeps ==
  ASSUME CacheInv, NEW s \in Services, Enter(s)
  PROVE  OneAdds' /\ FiledByHash' /\ EntriesAdded' /\ AddedKept' /\ EntriesFiled' /\ IndexBacked'
<1> DEFINE k == KeyOf(strategy[s])
<1>1. /\ pc[s] = "hash" /\ strategy[s] \in Strategies /\ k \in Hashes
      /\ strategy[s].path # None /\ strategy[s].path \in Paths
      /\ pc \in [Services -> Steps] /\ HashToPath \in [Hashes -> Paths \cup {None}]
      /\ UNCHANGED <<indexFile, strategies, strategy, snap, damaged, added>>
  BY AdderFacts, Markers DEF Enter, diskVars, CacheInv, TypeOK, Key
<1>2. FiledByHash' /\ IndexBacked'
  BY <1>1 DEF CacheInv, FiledByHash, IndexBacked, KeyOf
<1>3. CASE pc' = [pc EXCEPT ![s] = "found"] /\ UNCHANGED <<HashToPath, mutex>>
  <2>1. \A t \in Services : /\ pc[t] \in Adding <=> pc'[t] \in Adding
                            /\ pc'[t] \in Adding \cup {"hash"} => pc'[t] = pc[t]
                            /\ pc'[t] = "writeStrategy" <=> pc[t] = "writeStrategy"
                            /\ pc'[t] = "openStrategy" <=> pc[t] = "openStrategy"
    BY <1>1, <1>3 DEF Adding
  <2>2. OneAdds'
    BY <1>1, <1>3, <2>1 DEF CacheInv, OneAdds, Key
  <2>3. EntriesAdded' /\ EntriesFiled'
    BY <1>1, <1>3, <2>1 DEF CacheInv, EntriesAdded, EntriesFiled, Key
  <2>4. AddedKept'
    BY <1>1, <1>3, <2>1 DEF CacheInv, AddedKept, Key
  <2> QED
    BY <1>2, <2>2, <2>3, <2>4
<1>4. CASE /\ mutex = None /\ mutex' = s
           /\ HashToPath' = [HashToPath EXCEPT ![k] = strategy[s].path]
           /\ pc' = [pc EXCEPT ![s] = "openStrategy"]
  <2>1. /\ pc'[s] = "openStrategy" /\ HashToPath'[k] # None
        /\ \A h \in Hashes : h # k => HashToPath'[h] = HashToPath[h]
        /\ \A t \in Services : t # s => pc'[t] = pc[t]
    BY <1>1, <1>4
  <2>2. \A t \in Services : pc[t] \notin Adding
    BY <1>4, Markers DEF CacheInv, OneAdds
  <2>3. k = Key(s)' /\ \A t \in Services : Key(t)' = Key(t)
    BY <1>1 DEF Key
  <2> HIDE DEF k
  <2>4. OneAdds'
    <3>1. \A t \in Services : pc'[t] \in Adding <=> t = s
      BY <2>1, <2>2 DEF Adding
    <3>2. \A t \in Services : pc'[t] \in Adding \cup {"hash"} => strategy'[t] \in Strategies
      BY <1>1, <2>1, <3>1 DEF CacheInv, OneAdds
    <3> QED
      BY <1>4, <2>1, <2>3, <3>1, <3>2 DEF OneAdds
  <2>5. EntriesAdded'
    <3>1. ASSUME damaged = {}, NEW h \in Hashes, HashToPath'[h] # None
          PROVE  h \in added \/ h = k
      BY <1>4, <2>1, <3>1, Markers DEF CacheInv, EntriesAdded
    <3>2. ASSUME damaged = {}
          PROVE  \A t \in Services, h \in Hashes : snap[t][h] # None => h \in added
      BY <3>2 DEF CacheInv, EntriesAdded
    <3> QED
      BY <1>1, <1>4, <2>3, <3>1, <3>2 DEF EntriesAdded
  <2>6. AddedKept'
    <3>1. ASSUME damaged = {}, NEW h \in added
          PROVE  HashToPath'[h] # None /\ strategies[h] \in Strategies
      <4>1. h \in Hashes
        BY DEF CacheInv, TypeOK
      <4> QED
        BY <1>4, <2>1, <3>1, <4>1, Markers DEF CacheInv, AddedKept
    <3> QED
      BY <1>1, <1>4, <3>1, Markers DEF AddedKept
  <2>7. EntriesFiled'
    <3>1. ASSUME "failed" \notin damaged, NEW h \in Hashes, HashToPath'[h] # None
          PROVE  strategies[h] # None \/ h = k
      BY <1>4, <2>1, <3>1, Markers DEF CacheInv, EntriesFiled
    <3> QED
      BY <1>1, <1>4, <2>1, <2>3, <3>1 DEF EntriesFiled
  <2> QED
    BY <1>2, <2>4, <2>5, <2>6, <2>7
<1> QED
  BY <1>3, <1>4 DEF Enter, Goto, FirstWrite, Key

\* The service that holds the mutex goes on to its next step, or lets it go.
LEMMA AdderMoves ==
  ASSUME CacheInv, NEW s \in Services, pc[s] \in Adding,
         UNCHANGED <<HashToPath, strategy, snap>>,
         \/ Unlock(s)
         \/ mutex' = mutex /\ \E l \in Adding : pc' = [pc EXCEPT ![s] = l]
  PROVE  /\ OneAdds'
         /\ pc'[s] \in Adding => mutex' = s
         /\ pc'[s] \notin Adding => mutex' = None /\ pc'[s] = "found"
         /\ mutex = s /\ \A t \in Services : t # s => pc'[t] = pc[t] /\ mutex # t /\ mutex' # t
         /\ Key(s) \in Hashes /\ strategy[s] \in Strategies /\ HashToPath[Key(s)] # None
<1> USE DEF Adding
<1>1. /\ strategy[s] \in Strategies /\ Key(s) \in Hashes /\ HashToPath[Key(s)] # None
      /\ mutex = s /\ \A t \in Services : t # s => pc[t] \notin Adding /\ mutex # t
      /\ pc \in [Services -> Steps]
  BY AdderFacts DEF CacheInv, TypeOK
<1>2. /\ \A t \in Services : t # s => pc'[t] = pc[t] /\ mutex' # t
      /\ \/ pc'[s] = "found" /\ mutex' = None
         \/ pc'[s] \in Adding /\ mutex' = s
  BY <1>1, Markers DEF Unlock, Goto
<1>3. OneAdds'
  <2>1. \A t \in Services : pc'[t] \in Adding <=> mutex' = t
    BY <1>1, <1>2, Markers
  <2>2. \A t \in Services : pc'[t] \in Adding \cup {"hash"} => strategy'[t] \in Strategies
    BY <1>1, <1>2 DEF CacheInv, OneAdds
  <2>3. \A t \in Services : pc'[t] \in Adding => HashToPath'[KeyOf(strategy'[t])] # None
    BY <1>1, <1>2 DEF Key
  <2> QED
    BY <2>1, <2>2, <2>3 DEF OneAdds, Key
<1> QED
  BY <1>1, <1>2, <1>3

\* A write that failed damages the cache, and ends the Add.
LEMMA WriteFails ==
  ASSUME CacheInv, NEW s \in Services, pc[s] \in Adding, Unlock(s),
         damaged' = damaged \cup {"failed"},
         UNCHANGED <<HashToPath, strategy, snap, indexFile, strategies, added>>
  PROVE  OneAdds' /\ FiledByHash' /\ EntriesAdded' /\ AddedKept' /\ EntriesFiled' /\ IndexBacked'
<1>1. "failed" \in damaged' /\ damaged' # {}
  OBVIOUS
<1>2. OneAdds'
  BY AdderMoves
<1>3. FiledByHash'
  BY DEF CacheInv, FiledByHash, KeyOf
<1> QED
  BY <1>1, <1>2, <1>3 DEF EntriesAdded, AddedKept, EntriesFiled, IndexBacked

LEMMA OpenStrategyKeeps ==
  ASSUME CacheInv, NEW s \in Services, OpenStrategy(s)
  PROVE  OneAdds' /\ FiledByHash' /\ EntriesAdded' /\ AddedKept' /\ EntriesFiled' /\ IndexBacked'
<1> DEFINE k == KeyOf(strategy[s])
<1>1. /\ pc[s] = "openStrategy" /\ pc[s] \in Adding
      /\ UNCHANGED <<HashToPath, indexFile, strategy, snap, added>>
      /\ pc \in [Services -> Steps] /\ strategies \in [Hashes -> Strategies \cup {None, Torn}]
  BY DEF OpenStrategy, Adding, CacheInv, TypeOK
<1>2. CASE Unlock(s) /\ damaged' = damaged \cup {"failed"} /\ UNCHANGED strategies
  BY <1>1, <1>2, WriteFails
<1>3. CASE /\ strategies' = [strategies EXCEPT ![k] = Torn] /\ UNCHANGED <<mutex, damaged>>
           /\ pc' = [pc EXCEPT ![s] = "writeStrategy"]
  <2>1. /\ OneAdds' /\ mutex = s /\ mutex' = s /\ pc'[s] = "writeStrategy"
        /\ \A t \in Services : t # s => pc'[t] = pc[t] /\ mutex # t
        /\ k \in Hashes /\ \A t \in Services : Key(t)' = Key(t)
        /\ Key(s) = k
    BY <1>1, <1>3, AdderMoves DEF Adding, Key
  <2> HIDE DEF k
  <2>2. /\ strategies'[k] = Torn /\ \A h \in Hashes : h # k => strategies'[h] = strategies[h]
        /\ \A h \in Hashes : strategies[h] # None => strategies'[h] # None
    BY <1>1, <1>3, <2>1, Markers
  <2>3. FiledByHash'
    <3>1. \A h \in Hashes : strategies'[h] \in Strategies => KeyOf(strategies'[h]) = h
      BY <2>2, Markers DEF CacheInv, FiledByHash
    <3> QED
      BY <3>1 DEF FiledByHash, KeyOf
  <2>4. EntriesAdded'
    BY <1>1, <1>3, <2>1 DEF CacheInv, EntriesAdded
  <2>5. AddedKept'
    <3>1. ASSUME damaged = {}, NEW h \in added
          PROVE  HashToPath[h] # None /\ (h = k \/ strategies'[h] \in Strategies)
      <4>1. h \in Hashes
        BY DEF CacheInv, TypeOK
      <4> QED
        BY <1>1, <2>1, <2>2, <3>1, <4>1 DEF CacheInv, AddedKept
    <3> QED
      BY <1>1, <1>3, <2>1, <3>1, Markers DEF AddedKept
  <2>6. EntriesFiled'
    <3>1. ASSUME "failed" \notin damaged, NEW h \in Hashes, HashToPath[h] # None
          PROVE  strategies'[h] # None
      BY <1>1, <2>1, <2>2, <3>1, Markers DEF CacheInv, EntriesFiled
    <3> QED
      BY <1>1, <1>3, <3>1 DEF EntriesFiled
  <2>7. IndexBacked'
    BY <1>1, <1>3, <2>2 DEF CacheInv, IndexBacked
  <2> QED
    BY <2>1, <2>3, <2>4, <2>5, <2>6, <2>7
<1> QED
  BY <1>2, <1>3 DEF OpenStrategy, Goto, Key

LEMMA WriteStrategyKeeps ==
  ASSUME CacheInv, NEW s \in Services, WriteStrategy(s)
  PROVE  OneAdds' /\ FiledByHash' /\ EntriesAdded' /\ AddedKept' /\ EntriesFiled' /\ IndexBacked'
<1> DEFINE k == KeyOf(strategy[s])
<1>1. /\ pc[s] = "writeStrategy" /\ pc[s] \in Adding
      /\ UNCHANGED <<HashToPath, indexFile, strategy, snap, added>>
      /\ pc \in [Services -> Steps] /\ strategies \in [Hashes -> Strategies \cup {None, Torn}]
  BY DEF WriteStrategy, Adding, CacheInv, TypeOK
<1>2. CASE Unlock(s) /\ damaged' = damaged \cup {"failed"} /\ UNCHANGED strategies
  BY <1>1, <1>2, WriteFails
<1>3. CASE /\ strategies' = [strategies EXCEPT ![k] = strategy[s]] /\ UNCHANGED <<mutex, damaged>>
           /\ pc' = [pc EXCEPT ![s] = "openIndex"]
  <2>1. /\ OneAdds' /\ mutex = s /\ mutex' = s /\ pc'[s] = "openIndex"
        /\ \A t \in Services : t # s => pc'[t] = pc[t] /\ mutex # t
        /\ k \in Hashes /\ \A t \in Services : Key(t)' = Key(t)
        /\ Key(s) = k /\ strategy[s] \in Strategies /\ KeyOf(strategy[s]) = k
    BY <1>1, <1>3, AdderMoves DEF Adding, Key
  <2> HIDE DEF k
  <2>2. /\ strategies'[k] = strategy[s]
        /\ \A h \in Hashes : h # k => strategies'[h] = strategies[h]
        /\ \A h \in Hashes : strategies[h] # None => strategies'[h] # None
        /\ \A h \in Hashes : strategies[h] \in Strategies => strategies'[h] \in Strategies
    BY <1>1, <1>3, <2>1, Markers
  <2>3. FiledByHash'
    <3>1. \A h \in Hashes : strategies'[h] \in Strategies => KeyOf(strategies'[h]) = h
      BY <2>1, <2>2, Markers DEF CacheInv, FiledByHash
    <3> QED
      BY <3>1 DEF FiledByHash, KeyOf
  <2>4. EntriesAdded'
    BY <1>1, <1>3, <2>1 DEF CacheInv, EntriesAdded
  <2>5. AddedKept'
    <3>1. ASSUME damaged = {}, NEW h \in added
          PROVE  HashToPath[h] # None /\ strategies'[h] \in Strategies
      <4>1. h \in Hashes
        BY DEF CacheInv, TypeOK
      <4> QED
        BY <1>1, <2>1, <2>2, <3>1, <4>1 DEF CacheInv, AddedKept
    <3> QED
      BY <1>1, <1>3, <2>1, <3>1, Markers DEF AddedKept
  <2>6. EntriesFiled'
    <3>1. ASSUME "failed" \notin damaged, NEW h \in Hashes, HashToPath[h] # None
          PROVE  strategies'[h] # None
      BY <1>1, <2>1, <2>2, <3>1, Markers DEF CacheInv, EntriesFiled
    <3> QED
      BY <1>1, <1>3, <3>1 DEF EntriesFiled
  <2>7. IndexBacked'
    BY <1>1, <1>3, <2>2 DEF CacheInv, IndexBacked
  <2> QED
    BY <2>1, <2>3, <2>4, <2>5, <2>6, <2>7
<1> QED
  BY <1>2, <1>3 DEF WriteStrategy, Goto, Key

LEMMA OpenIndexKeeps ==
  ASSUME CacheInv, NEW s \in Services, OpenIndex(s)
  PROVE  OneAdds' /\ FiledByHash' /\ EntriesAdded' /\ AddedKept' /\ EntriesFiled' /\ IndexBacked'
<1>1. /\ pc[s] = "openIndex" /\ pc[s] \in Adding
      /\ UNCHANGED <<HashToPath, strategies, strategy, snap, added>>
      /\ \A t \in Services : Key(t)' = Key(t)
  BY DEF OpenIndex, Adding, Key
<1>2. CASE Unlock(s) /\ damaged' = damaged \cup {"failed"} /\ UNCHANGED indexFile
  BY <1>1, <1>2, WriteFails
<1>3. CASE /\ indexFile' = Torn /\ UNCHANGED <<mutex, damaged>>
           /\ pc' = [pc EXCEPT ![s] = "writeIndex"]
  <2>1. /\ OneAdds' /\ mutex = s /\ mutex' = s /\ pc'[s] = "writeIndex"
        /\ \A t \in Services : t # s => pc'[t] = pc[t] /\ mutex # t
    <3>1. pc \in [Services -> Steps]
      BY DEF CacheInv, TypeOK
    <3> QED
      BY <1>1, <1>3, <3>1, AdderMoves DEF Adding
  <2>2. FiledByHash' /\ EntriesAdded'
    BY <1>1, <1>3, <2>1 DEF CacheInv, FiledByHash, EntriesAdded, KeyOf
  <2>3. AddedKept'
    BY <1>1, <1>3, <2>1, Markers DEF CacheInv, AddedKept
  <2>4. EntriesFiled'
    BY <1>1, <1>3, <2>1, Markers DEF CacheInv, EntriesFiled
  <2>5. IndexBacked'
    BY <1>3 DEF IndexBacked
  <2> QED
    BY <2>1, <2>2, <2>3, <2>4, <2>5
<1> QED
  BY <1>2, <1>3 DEF OpenIndex, Goto

LEMMA WriteIndexKeeps ==
  ASSUME CacheInv, NEW s \in Services, WriteIndex(s)
  PROVE  OneAdds' /\ FiledByHash' /\ EntriesAdded' /\ AddedKept' /\ EntriesFiled' /\ IndexBacked'
<1>1. /\ pc[s] = "writeIndex" /\ pc[s] \in Adding /\ Unlock(s)
      /\ UNCHANGED <<HashToPath, strategies, strategy, snap>>
      /\ \A t \in Services : Key(t)' = Key(t)
  BY DEF WriteIndex, Adding, Key
<1>2. CASE damaged' = damaged \cup {"failed"} /\ UNCHANGED <<indexFile, added>>
  BY <1>1, <1>2, WriteFails
<1>3. CASE indexFile' = HashToPath /\ added' = added \cup {Key(s)} /\ UNCHANGED damaged
  <2>1. /\ OneAdds' /\ mutex = s /\ mutex' = None
        /\ \A t \in Services : t # s => mutex # t
        /\ strategies[Key(s)] \in Strategies /\ HashToPath[Key(s)] # None
    <3>1. pc'[s] = "found"
      BY <1>1 DEF Unlock, Goto, CacheInv, TypeOK
    <3> QED
      BY <1>1, <3>1, AdderMoves DEF Adding, CacheInv, AdderFiled
  <2>2. FiledByHash'
    BY <1>1 DEF CacheInv, FiledByHash, KeyOf
  <2>3. EntriesAdded'
    BY <1>1, <1>3, <2>1 DEF CacheInv, EntriesAdded
  <2>4. AddedKept'
    <3>1. ASSUME damaged = {}, NEW h \in added'
          PROVE  HashToPath[h] # None /\ strategies[h] \in Strategies
      BY <1>1, <1>3, <2>1, <3>1 DEF CacheInv, AddedKept
    <3> QED
      BY <1>1, <1>3, <3>1 DEF AddedKept
  <2>5. \A h \in Hashes : "failed" \notin damaged /\ HashToPath[h] # None => strategies[h] # None
    BY <1>1, <2>1, Markers DEF CacheInv, EntriesFiled
  <2>6. EntriesFiled' /\ IndexBacked'
    BY <1>1, <1>3, <2>5 DEF EntriesFiled, IndexBacked
  <2> QED
    BY <2>1, <2>2, <2>3, <2>4, <2>6
<1> QED
  BY <1>1, <1>2, <1>3 DEF WriteIndex, Saved

-----------------------------------------------------------------------------
\* The process dies: only an Add it was in the middle of is cut off.
LEMMA CrashKeeps ==
  ASSUME CacheInv, Crash
  PROVE  OneAdds' /\ FiledByHash' /\ EntriesAdded' /\ AddedKept' /\ EntriesFiled' /\ IndexBacked'
<1>1. /\ HashToPath' = Load /\ mutex' = None
      /\ pc' = [t \in Services |-> "idle"] /\ snap' = [t \in Services |-> NoEntries]
      /\ UNCHANGED <<indexFile, strategies, added>>
      /\ damaged \subseteq damaged' /\ ("failed" \in damaged' => "failed" \in damaged)
      /\ damaged' = {} => mutex = None /\ damaged = {}
  BY DEF Crash, diskVars
<1>2. OneAdds' /\ FiledByHash'
  BY <1>1, Markers DEF CacheInv, OneAdds, FiledByHash, KeyOf, Adding
<1>3. IndexBacked'
  BY <1>1 DEF CacheInv, IndexBacked
<1>4. damaged' = {} => HashToPath' = HashToPath
  <2>1. CASE indexFile = HashToPath
    BY <1>1, <2>1, Markers DEF CacheInv, TypeOK, Load
  <2>2. CASE indexFile = None /\ HashToPath = NoEntries
    BY <1>1, <2>2 DEF Load
  <2> QED
    BY <1>1, <2>1, <2>2 DEF CacheInv, AddedKept
<1>5. EntriesAdded'
  <2>1. ASSUME damaged' = {}, NEW h \in Hashes, HashToPath'[h] # None
        PROVE  h \in added
    BY <1>1, <1>4, <2>1, Markers DEF CacheInv, EntriesAdded
  <2>2. \A t \in Services, h \in Hashes : snap'[t][h] = None
    BY <1>1, Markers
  <2> QED
    BY <1>1, <2>1, <2>2 DEF EntriesAdded
<1>6. AddedKept'
  <2>1. ASSUME damaged' = {}, NEW h \in added
        PROVE  HashToPath'[h] # None /\ strategies[h] \in Strategies
    BY <1>1, <1>4, <2>1, Markers DEF CacheInv, AddedKept
  <2> QED
    BY <1>1, <1>4, <2>1 DEF CacheInv, AddedKept
<1>7. EntriesFiled'
  <2>1. ASSUME "failed" \notin damaged', NEW h \in Hashes, HashToPath'[h] # None
        PROVE  strategies[h] # None
    <3>1. indexFile \notin {None, Torn} /\ HashToPath' = indexFile
      BY <1>1, <2>1, Markers DEF Load
    <3> QED
      BY <1>1, <2>1, <3>1 DEF CacheInv, IndexBacked
  <2> QED
    BY <1>1, <2>1 DEF EntriesFiled
<1> QED
  BY <1>2, <1>3, <1>5, <1>6, <1>7

LEMMA StepFiled ==
  ASSUME CacheInv, [Next]_vars
  PROVE  AdderFiled'
<1> USE DEF Adding
<1>1. pc \in [Services -> Steps] /\ strategies \in [Hashes -> Strategies \cup {None, Torn}]
  BY DEF CacheInv, TypeOK
<1>2. ASSUME NEW s \in Services, Looking(s)
      PROVE  AdderFiled'
  BY <1>2, LookingFacts DEF CacheInv, AdderFiled, Key
<1>3. ASSUME NEW s \in Services, Enter(s)
      PROVE  AdderFiled'
  <2>1. /\ \E l \in {"found", "openStrategy"} : pc' = [pc EXCEPT ![s] = l]
        /\ UNCHANGED <<strategies, strategy>>
    BY <1>3 DEF Enter, Goto, FirstWrite, diskVars
  <2> QED
    BY <1>1, <2>1 DEF CacheInv, AdderFiled, Key
<1>4. ASSUME NEW s \in Services, pc[s] \in Adding, UNCHANGED strategy,
             \A t \in Services : t # s => pc'[t] = pc[t],
             pc'[s] \in {"openIndex", "writeIndex"} => strategies'[Key(s)] \in Strategies
      PROVE  AdderFiled'
  BY <1>4, AdderFacts DEF AdderFiled, Key
<1>5. ASSUME NEW s \in Services, OpenStrategy(s)
      PROVE  AdderFiled'
  <2>1. /\ \E l \in {"found", "writeStrategy"} : pc' = [pc EXCEPT ![s] = l]
        /\ pc[s] \in Adding /\ UNCHANGED strategy
    BY <1>5 DEF OpenStrategy, Goto, Unlock
  <2> QED
    BY <1>1, <1>4, <2>1
<1>6. ASSUME NEW s \in Services, WriteStrategy(s)
      PROVE  AdderFiled'
  <2>1. /\ pc[s] \in Adding /\ UNCHANGED strategy
        /\ \/ pc' = [pc EXCEPT ![s] = "found"]
           \/ /\ pc' = [pc EXCEPT ![s] = "openIndex"]
              /\ strategies' = [strategies EXCEPT ![Key(s)] = strategy[s]]
    BY <1>6 DEF WriteStrategy, Goto, Unlock
  <2>2. Key(s) \in Hashes /\ strategy[s] \in Strategies
    BY <2>1, AdderFacts
  <2> QED
    BY <1>1, <1>4, <2>1, <2>2
<1>7. ASSUME NEW s \in Services, OpenIndex(s) \/ WriteIndex(s)
      PROVE  AdderFiled'
  <2>1. /\ \E l \in {"found", "writeIndex"} : pc' = [pc EXCEPT ![s] = l]
        /\ pc[s] \in {"openIndex", "writeIndex"} /\ UNCHANGED <<strategy, strategies>>
    BY <1>7 DEF OpenIndex, WriteIndex, Goto, Unlock
  <2>2. strategies[Key(s)] \in Strategies
    BY <2>1 DEF CacheInv, AdderFiled
  <2> QED
    BY <1>1, <1>4, <2>1, <2>2
<1>8. CASE Crash
  BY <1>8 DEF Crash, AdderFiled
<1>9. CASE UNCHANGED vars
  BY <1>9 DEF vars, callVars, diskVars, CacheInv, AdderFiled, Key
<1> QED
  BY <1>2, <1>3, <1>5, <1>6, <1>7, <1>8, <1>9 DEF Next, Looking

\* A strategy that is read fits the page it is read for, and an unusable one was
\* damaged or is being written again.
LEMMA StepFits ==
  ASSUME CacheInv, [Next]_vars
  PROVE  CachedFits'
<1> DEFINE Fits(s) == \E p \in Paths : PageHash[s][p] = KeyOf(strategy[s])
           Known(s) == \E p \in Paths : PageHash[s][p] \in added
<1>1. /\ pc \in [Services -> Steps] /\ strategy \in [Services -> Strategies \cup {None}]
      /\ damaged \subseteq damaged' /\ added \subseteq added'
  <2>1. CASE UNCHANGED <<damaged, added>>
    BY <2>1 DEF CacheInv, TypeOK
  <2>2. ASSUME NEW s \in Services,
               OpenStrategy(s) \/ WriteStrategy(s) \/ OpenIndex(s) \/ WriteIndex(s)
        PROVE  damaged \subseteq damaged' /\ added \subseteq added'
    BY <2>2 DEF OpenStrategy, WriteStrategy, OpenIndex, WriteIndex
  <2>3. CASE Crash
    BY <2>3 DEF Crash, CacheInv, TypeOK
  <2>4. ASSUME NEW s \in Services, Looking(s)
        PROVE  UNCHANGED <<damaged, added>>
    BY <2>4, LookingFacts
  <2> QED
    BY <2>1, <2>2, <2>3, <2>4 DEF Next, Looking, Enter, CacheInv, TypeOK, vars
<1>2. ASSUME NEW t \in Services, pc'[t] = pc[t], strategy'[t] = strategy[t]
      PROVE  /\ pc'[t] = "cached" => \E p \in Paths : PageHash[t][p] = KeyOf(strategy'[t])
             /\ pc'[t] = "badCache" => damaged' # {} \/ \E p \in Paths : PageHash[t][p] \in added'
  BY <1>1, <1>2 DEF CacheInv, CachedFits
<1>3. ASSUME NEW s \in Services, Probe(s), pc'[s] \in {"cached", "badCache"}
      PROVE  /\ pc'[s] = "cached" => \E p \in Paths : PageHash[s][p] = KeyOf(strategy'[s])
             /\ pc'[s] = "badCache" => damaged' # {} \/ \E p \in Paths : PageHash[s][p] \in added'
  <2>1. PICK p \in Paths, h \in Hashes :
          /\ snap[s][h] = p /\ h = PageHash[s][p]
          /\ strategy' = [strategy EXCEPT ![s] = IF strategies[h] = Torn THEN None
                                                 ELSE strategies[h]]
          /\ \/ strategies[h] = None /\ pc' = [pc EXCEPT ![s] = "agent"]
             \/ strategies[h] = Torn /\ pc' = [pc EXCEPT ![s] = "badCache"]
             \/ strategies[h] \in Strategies /\ pc' = [pc EXCEPT ![s] = "cached"]
    BY <1>1, <1>3, ProbeFacts
  <2>2. CASE pc'[s] = "cached"
    <3>1. strategies[h] \in Strategies /\ strategy'[s] = strategies[h]
      BY <1>1, <2>1, <2>2, Markers
    <3>2. KeyOf(strategies[h]) = h
      BY <3>1 DEF CacheInv, FiledByHash
    <3> QED
      BY <2>1, <2>2, <3>1, <3>2
  <2>3. CASE pc'[s] = "badCache"
    <3>1. damaged = {} => h \in added
      BY <2>1, Markers DEF CacheInv, EntriesAdded
    <3> QED
      BY <1>1, <2>1, <2>3, <3>1
  <2> QED
    BY <1>3, <2>2, <2>3
<1>4. ASSUME NEW s \in Services,
             \A t \in Services : t # s => pc'[t] = pc[t] /\ strategy'[t] = strategy[t],
             pc'[s] \notin {"cached", "badCache"} \/ Probe(s)
                \/ (pc'[s] = pc[s] /\ strategy'[s] = strategy[s])
      PROVE  CachedFits'
  <2>1. ASSUME NEW t \in Services
        PROVE  /\ pc'[t] = "cached" => \E p \in Paths : PageHash[t][p] = KeyOf(strategy'[t])
               /\ pc'[t] = "badCache" => damaged' # {} \/ \E p \in Paths : PageHash[t][p] \in added'
    BY <1>2, <1>3, <1>4
  <2> QED
    BY <2>1 DEF CachedFits, KeyOf
<1>5. ASSUME NEW s \in Services, Looking(s)
      PROVE  CachedFits'
  <2>1. Probe(s) \/ pc'[s] \notin {"cached", "badCache"}
    BY <1>1, <1>5 DEF Looking, Snapshot, Miss, RunAgent, Again, Goto
  <2> QED
    BY <1>4, <1>5, <2>1, LookingFacts
<1>6. ASSUME NEW s \in Services,
             Enter(s) \/ OpenStrategy(s) \/ WriteStrategy(s) \/ OpenIndex(s) \/ WriteIndex(s)
      PROVE  CachedFits'
  <2>1. /\ \E l \in {"found", "openStrategy", "writeStrategy", "openIndex", "writeIndex"} :
             pc' = [pc EXCEPT ![s] = l]
        /\ UNCHANGED strategy
    BY <1>6 DEF Enter, OpenStrategy, WriteStrategy, OpenIndex, WriteIndex, Goto, Unlock, FirstWrite
  <2> QED
    BY <1>1, <1>4, <2>1
<1>7. CASE Crash
  BY <1>7 DEF Crash, CachedFits
<1>8. CASE UNCHANGED vars
  BY <1>2, <1>8 DEF CachedFits, KeyOf, vars, callVars
<1> QED
  BY <1>5, <1>6, <1>7, <1>8 DEF Next, Looking

LEMMA StepCache ==
  ASSUME CacheInv, [Next]_vars
  PROVE  CacheInv'
<1>1. OneAdds' /\ FiledByHash' /\ EntriesAdded' /\ AddedKept' /\ EntriesFiled' /\ IndexBacked'
  <2>1. CASE UNCHANGED vars
    <3>1. UNCHANGED <<HashToPath, mutex, indexFile, strategies, pc, snap, strategy, damaged, added>>
      BY <2>1 DEF vars, diskVars, callVars
    <3>2. OneAdds' /\ FiledByHash' /\ EntriesAdded'
      BY <3>1 DEF CacheInv, OneAdds, FiledByHash, EntriesAdded, Key, KeyOf
    <3>3. AddedKept' /\ EntriesFiled' /\ IndexBacked'
      BY <3>1 DEF CacheInv, AddedKept, EntriesFiled, IndexBacked, Key
    <3> QED
      BY <3>2, <3>3
  <2> QED
    BY <2>1, LookingKeeps, EnterKeeps, OpenStrategyKeeps, WriteStrategyKeeps, OpenIndexKeeps,
       WriteIndexKeeps, CrashKeeps DEF Next, Looking
<1> QED
  BY <1>1, TypeStep, StepFiled, StepFits DEF CacheInv

LEMMA SpecCache == Spec => []CacheInv
<1>1. Init => CacheInv
  <2> SUFFICES ASSUME Init
               PROVE  CacheInv
    OBVIOUS
  <2>1. TypeOK
    BY Markers, CacheAssumption DEF Init, TypeOK, Steps
  <2>2. OneAdds /\ AdderFiled /\ FiledByHash /\ EntriesAdded
    BY Markers DEF Init, OneAdds, AdderFiled, FiledByHash, EntriesAdded, Adding
  <2>3. AddedKept /\ EntriesFiled /\ IndexBacked /\ CachedFits
    BY Markers DEF Init, AddedKept, EntriesFiled, IndexBacked, CachedFits
  <2> QED
    BY <2>1, <2>2, <2>3 DEF CacheInv
<1> QED
  BY <1>1, StepCache, PTL DEF Spec

\* A strategy taken from the cache was verified on a service with the same login
\* page, and an unusable one is the trace of damage or of a second Add.
THEOREM CachedStrategyFits == Spec => []CachedFits
  BY SpecCache, PTL DEF CacheInv

\* What was added survives restarts, and the index on disk never names a
\* strategy without a file, at whatever points the process dies.
THEOREM DiskIsExact == Spec => []DiskExact
<1>1. CacheInv => DiskExact
  <2> SUFFICES ASSUME CacheInv
               PROVE  DiskExact
    OBVIOUS
  <2>1. ASSUME mutex = None, damaged = {}, NEW h \in added
        PROVE  HashToPath[h] # None /\ strategies[h] \in Strategies /\ indexFile = HashToPath
    <3>1. HashToPath[h] # None /\ strategies[h] \in Strategies
      BY <2>1, Markers DEF CacheInv, AddedKept
    <3>2. h \in Hashes
      BY DEF CacheInv, TypeOK
    <3> QED
      BY <2>1, <3>1, <3>2, Markers DEF CacheInv, AddedKept
  <2> QED
    BY <2>1 DEF DiskExact, Durable, CacheInv
<1> QED
  BY <1>1, SpecCache, PTL
=============================================================================
