---------------------------- MODULE StrategyCache ----------------------------
(***************************************************************************)
(* The strategy cache of the agentic weak-credentials detector             *)
(* (plugins/detectors/adkweakcreds): Module.getStrategy asks the Index for *)
(* a strategy, runs the agent on a miss and adds what it found.  Detect    *)
(* runs for several services at once on one Index; the files outlive the   *)
(* process, which may die between any two of its writes.                   *)
(*                                                                         *)
(* A strategy is the service it was verified against and the path it logs  *)
(* in at.  os.WriteFile empties the file before it writes, so a file is    *)
(* Torn for a while, and stays so if the write fails or the process dies.  *)
(***************************************************************************)
EXTENDS Integers, FiniteSets

CONSTANTS
  Services,    \* the services Detect is called for
  Paths,       \* URL paths
  Hashes,      \* hashes of page contents
  PageHash,    \* PageHash[s][p]: the hash of the page of service s at path p
  None,        \* no file, no entry, no strategy
  Torn,        \* a file cut short
  MaxCrashes   \* bound: how often the process dies

Strategies == [svc : Services, path : Paths]

ASSUME CacheAssumption ==
  /\ PageHash \in [Services -> [Paths -> Hashes]]
  /\ None \notin Services \cup Paths \cup Strategies
  /\ Torn \notin Strategies \cup {None}
  /\ {None, Torn} \cap [Hashes -> Paths \cup {None}] = {}
  /\ MaxCrashes \in Nat

VARIABLES
  HashToPath,   \* Index.HashToPath, None for no entry
  mutex,        \* the service whose Add holds Index.mut, or None
  indexFile,    \* index.json: None, Torn or a saved HashToPath
  strategies,   \* <hash>.strategy.json: None, Torn or a strategy
  pc,           \* the step of each Detect call
  todo, snap,   \* FindForService: paths left to probe, and the copied index
  strategy,     \* what getStrategy has or returned
  crashes,
  damaged,      \* history: "failed" writes, writes "cutOff" by a crash
  added         \* history: the hashes whose Add returned nil

diskVars == <<indexFile, strategies>>
callVars == <<pc, todo, snap, strategy>>
vars     == <<HashToPath, mutex, diskVars, callVars, crashes, damaged, added>>

NoEntries == [h \in Hashes |-> None]

\* The hash of the page that a strategy logs in at.
KeyOf(x) == PageHash[x.svc][x.path]

Key(s) == KeyOf(strategy[s])

Init ==
  /\ HashToPath = NoEntries
  /\ mutex = None
  /\ indexFile = None
  /\ strategies = NoEntries
  /\ pc = [s \in Services |-> "idle"]
  /\ todo = [s \in Services |-> {}]
  /\ snap = [s \in Services |-> NoEntries]
  /\ strategy = [s \in Services |-> None]
  /\ crashes = 0
  /\ damaged = {}
  /\ added = {}

Goto(s, l) == pc' = [pc EXCEPT ![s] = l]

-----------------------------------------------------------------------------
(* FindForService.                                                         *)

\* Copy the index under the read lock.
MayRead == mutex = None

Snapshot(s) ==
  /\ pc[s] = "idle"
  /\ MayRead
  /\ snap' = [snap EXCEPT ![s] = HashToPath]
  /\ todo' = [todo EXCEPT ![s] = {HashToPath[h] : h \in Hashes} \ {None}]
  /\ Goto(s, "probe")
  /\ UNCHANGED <<HashToPath, mutex, diskVars, strategy, crashes, damaged, added>>

Matches_PathOnly(s, p) == {h \in Hashes : snap[s][h] = p}
Matches(s, p) == {h \in Hashes : snap[s][h] = p /\ h = PageHash[s][p]}

\* FindForService returns: its locals are gone.
Forget(s) ==
  /\ todo' = [todo EXCEPT ![s] = {}]
  /\ snap' = [snap EXCEPT ![s] = NoEntries]

\* Look at one path, in the order of a Go map: its page cannot be had or was
\* not hashed, or its hash is compared; a match reads the strategy's file,
\* without the lock, and ends the search whether the file is there or not.
Probe(s) ==
  /\ pc[s] = "probe"
  /\ \E p \in todo[s] :
       \/ /\ todo' = [todo EXCEPT ![s] = @ \ {p}]
          /\ UNCHANGED <<pc, snap, strategy>>
       \/ /\ Matches(s, p) = {}
          /\ todo' = [todo EXCEPT ![s] = @ \ {p}]
          /\ UNCHANGED <<pc, snap, strategy>>
       \/ \E h \in Matches(s, p) :
            /\ strategy' = [strategy EXCEPT ![s] = IF strategies[h] = Torn THEN None
                                                   ELSE strategies[h]]
            /\ Goto(s, CASE strategies[h] = None -> "agent"
                         [] strategies[h] = Torn -> "badCache"
                         [] OTHER -> "cached")
            /\ Forget(s)
  /\ UNCHANGED <<HashToPath, mutex, diskVars, crashes, damaged, added>>

Miss(s) ==
  /\ pc[s] = "probe"
  /\ todo[s] = {}
  /\ Goto(s, "agent")
  /\ Forget(s)
  /\ UNCHANGED <<HashToPath, mutex, diskVars, strategy, crashes, damaged, added>>

\* The agent fails, reports no authentication, or has its strategy verified.
RunAgent(s) ==
  /\ pc[s] = "agent"
  /\ \/ Goto(s, "error") /\ UNCHANGED strategy
     \/ Goto(s, "noAuth") /\ UNCHANGED strategy
     \/ /\ Goto(s, "hash")
        /\ \E p \in Paths :
             strategy' = [strategy EXCEPT ![s] = [svc |-> s, path |-> p]]
  /\ UNCHANGED <<HashToPath, mutex, diskVars, todo, snap, crashes, damaged, added>>

-----------------------------------------------------------------------------
(* Add.  Whatever goes wrong is logged and the strategy is used.           *)

\* The strategy is saved before the index that names it.
FirstWrite_Index == "openIndex"
FirstWrite == "openStrategy"

\* fetchAndHashPage fails, or the lock is taken and the entry made.
Enter(s) ==
  /\ pc[s] = "hash"
  /\ \/ Goto(s, "found") /\ UNCHANGED <<HashToPath, mutex>>
     \/ /\ mutex = None
        /\ mutex' = s
        /\ HashToPath' = [HashToPath EXCEPT ![Key(s)] = strategy[s].path]
        /\ Goto(s, FirstWrite)
  /\ UNCHANGED <<diskVars, todo, snap, strategy, crashes, damaged, added>>

Unlock(s) == mutex' = None /\ Goto(s, "found")

\* saveStrategy: the file is opened and emptied, then written.
OpenStrategy(s) ==
  /\ pc[s] = "openStrategy"
  /\ \/ /\ Unlock(s)
        /\ damaged' = damaged \cup {"failed"}
        /\ UNCHANGED strategies
     \/ /\ strategies' = [strategies EXCEPT ![Key(s)] = Torn]
        /\ Goto(s, "writeStrategy")
        /\ UNCHANGED <<mutex, damaged>>
  /\ UNCHANGED <<HashToPath, indexFile, todo, snap, strategy, crashes, added>>

WriteStrategy(s) ==
  /\ pc[s] = "writeStrategy"
  /\ \/ /\ Unlock(s)
        /\ damaged' = damaged \cup {"failed"}
        /\ UNCHANGED strategies
     \/ /\ strategies' = [strategies EXCEPT ![Key(s)] = strategy[s]]
        /\ Goto(s, "openIndex")
        /\ UNCHANGED <<mutex, damaged>>
  /\ UNCHANGED <<HashToPath, indexFile, todo, snap, strategy, crashes, added>>

\* save, likewise.
OpenIndex(s) ==
  /\ pc[s] = "openIndex"
  /\ \/ /\ Unlock(s)
        /\ damaged' = damaged \cup {"failed"}
        /\ UNCHANGED indexFile
     \/ /\ indexFile' = Torn
        /\ Goto(s, "writeIndex")
        /\ UNCHANGED <<mutex, damaged>>
  /\ UNCHANGED <<HashToPath, strategies, todo, snap, strategy, crashes, added>>

Saved(s) == HashToPath

WriteIndex(s) ==
  /\ pc[s] = "writeIndex"
  /\ Unlock(s)
  /\ \/ damaged' = damaged \cup {"failed"} /\ UNCHANGED <<indexFile, added>>
     \/ /\ indexFile' = Saved(s)
        /\ added' = added \cup {Key(s)}
        /\ UNCHANGED damaged
  /\ UNCHANGED <<HashToPath, strategies, todo, snap, strategy, crashes>>

-----------------------------------------------------------------------------
\* Detect is called again for a service it has finished with.
Again(s) ==
  /\ pc[s] \in {"found", "cached", "noAuth", "badCache", "error"}
  /\ Goto(s, "idle")
  /\ strategy' = [strategy EXCEPT ![s] = None]
  /\ UNCHANGED <<HashToPath, mutex, diskVars, todo, snap, crashes, damaged, added>>

\* The process dies and a new one loads the index: a missing or torn file is
\* an empty cache.
Load == IF indexFile \in {None, Torn} THEN NoEntries ELSE indexFile

Crash ==
  /\ crashes < MaxCrashes
  /\ crashes' = crashes + 1
  /\ HashToPath' = Load
  /\ damaged' = IF mutex = None THEN damaged ELSE damaged \cup {"cutOff"}
  /\ mutex' = None
  /\ pc' = [s \in Services |-> "idle"]
  /\ todo' = [s \in Services |-> {}]
  /\ snap' = [s \in Services |-> NoEntries]
  /\ strategy' = [s \in Services |-> None]
  /\ UNCHANGED <<diskVars, added>>

Next ==
  \/ \E s \in Services :
       \/ Snapshot(s) \/ Probe(s) \/ Miss(s) \/ RunAgent(s)
       \/ Enter(s) \/ OpenStrategy(s) \/ WriteStrategy(s)
       \/ OpenIndex(s) \/ WriteIndex(s)
       \/ Again(s)
  \/ Crash

Spec == Init /\ [][Next]_vars

-----------------------------------------------------------------------------
Steps == {"idle", "probe", "agent", "hash", "openStrategy", "writeStrategy",
          "openIndex", "writeIndex", "found", "cached", "noAuth", "badCache",
          "error"}

TypeOK ==
  /\ HashToPath \in [Hashes -> Paths \cup {None}]
  /\ mutex \in Services \cup {None}
  /\ indexFile \in [Hashes -> Paths \cup {None}] \cup {None, Torn}
  /\ strategies \in [Hashes -> Strategies \cup {None, Torn}]
  /\ pc \in [Services -> Steps]
  /\ todo \in [Services -> SUBSET Paths]
  /\ snap \in [Services -> [Hashes -> Paths \cup {None}]]
  /\ strategy \in [Services -> Strategies \cup {None}]
  /\ crashes \in 0 .. MaxCrashes
  /\ damaged \subseteq {"failed", "cutOff"}
  /\ added \subseteq Hashes

\* The cache is only an accelerator.  A strategy taken from it was verified on
\* a service that shows the same login page, whatever was added, torn or
\* reloaded in the meantime; and a call ends with an unusable one only after a
\* write failed or was interrupted, or while an entry that was complete before
\* is written again: every other trouble falls back to the agent.
CachedFits ==
  \A s \in Services :
    /\ pc[s] = "cached" => \E p \in Paths : PageHash[s][p] = KeyOf(strategy[s])
    /\ pc[s] = "badCache" => damaged # {} \/ \E p \in Paths : PageHash[s][p] \in added

\* What was added stays: as long as no write failed or was cut off, an entry
\* whose Add succeeded is in memory, its strategy is whole, and both survive a
\* restart, whichever Adds came after it.
Durable ==
  mutex = None /\ damaged = {} =>
    \A h \in added :
      /\ HashToPath[h] # None
      /\ strategies[h] \in Strategies
      /\ indexFile = HashToPath

\* The index on disk never names a strategy without a file, at whatever point
\* a process died, because the strategy is written first.  (A write that
\* failed is another matter: the entry stays in memory, and the next Add
\* saves it.)
IndexBacked ==
  indexFile \notin {None, Torn} /\ "failed" \notin damaged =>
    \A h \in Hashes : indexFile[h] # None => strategies[h] # None

\* What is on disk is usable: an entry outlives crashes, and the index never
\* points at nothing.
DiskExact == Durable /\ IndexBacked
=============================================================================
