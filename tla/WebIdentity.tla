----------------------------- MODULE WebIdentity -----------------------------
(***************************************************************************)
(* The web fingerprinter (plugins/fingerprint/webidentity): loading of the *)
(* signatures, the crawl of each endpoint of a service with its callbacks  *)
(* at work in parallel, the matching of what they found, and the           *)
(* reconciliation of the services found at the endpoints.  Several         *)
(* services are fingerprinted at once; they share the registry and the     *)
(* storage of pages (PageStore).                                           *)
(*                                                                         *)
(* A URL is a sequence of tokens, the first of which is its endpoint; a    *)
(* prefix or suffix of the string is a prefix or suffix of the sequence.   *)
(* The crawler may call back for any of the pages of the site and stop at  *)
(* any time, as its limits and deadlines make it.                          *)
(***************************************************************************)
EXTENDS PageStore, Sequences, SequencesExt

CONSTANTS
  Services,   \* the network services handed to the fingerprinter
  IsWeb,      \* IsWeb[s]: whether HTTP methods were found on s
  AddressOf,  \* AddressOf[s]: what s is known by, of "host" and "ip"
  ServiceOf,  \* ServiceOf[p]: the service that page p belongs to
  UrlOf,      \* UrlOf[p]: the URL of page p
  Files,      \* the signature files, as records [software, paths, versions]
  Slots       \* how many callbacks a crawl runs at once

ASSUME WebAssumption ==
  /\ IsWeb \in [Services -> BOOLEAN]
  /\ AddressOf \in [Services -> (SUBSET {"host", "ip"}) \ {{}}]
  /\ ServiceOf \in [Pages -> Services]
  /\ IsFiniteSet(Files)
  /\ \A f \in Files : f.software \notin {"unknown", "dropped"}
  /\ Slots \in Nat \ {0}

Software == {f.software : f \in Files}

VARIABLES
  toLoad,       \* the signature files still to be read, in directory order
  registry,     \* Registry.knownHashes
  module,       \* the module: "loading", "ready", or "failed"
  stage,        \* stage[s]: "idle", "crawling", "failed" or "returned"
  endpoint,     \* endpoint[s]: which of the endpoints is crawled
  step,         \* step[p]: "unseen", "visited" or "matched", by its callback
  matches,      \* matches[s]: runInfo.matches, from software to identities
  found,        \* found[s]: the services found at the endpoints so far
  report        \* report[s]: the services that Fingerprint returned

webVars == <<toLoad, registry, module, stage, endpoint, step, matches, found, report>>
vars == <<webVars, storeVars>>

-----------------------------------------------------------------------------
(* The registry of signatures. *)

Unknown == [software |-> "unknown", paths |-> {}, versions |-> {}]
Dropped == [software |-> "dropped", paths |-> {}, versions |-> {}]

AddSoftware_LastWins(id, sw) ==
  IF id.software = sw THEN id ELSE [Unknown EXCEPT !.software = sw]
\* A hash that two applications claim is of no use for either.
AddSoftware(id, sw) ==
  CASE id = Unknown -> [Unknown EXCEPT !.software = sw]
    [] id.software = sw -> id
    [] OTHER -> Dropped

\* addPath and addVersions for all that a file says of a hash.
AddEntries(id, sw, paths, versions) ==
  LET new == AddSoftware(id, sw)
  IN  IF new = Dropped THEN new
      ELSE [new EXCEPT !.paths = @ \cup paths, !.versions = @ \cup versions]

\* Hashes that a file lists on an empty path are left out, unless something
\* else has made them known.
EmptyPathHashes(f) == {c[2] : c \in {d \in ToSet(f.paths) : d[1] = <<>>}}

\* The entries of a file are all for one application, so that their order makes
\* no difference.
Load(reg, f) ==
  [h \in Hashes |->
     LET paths == {c[1] : c \in {d \in ToSet(f.paths) : d[2] = h}} \ {<<>>}
         versions == {v[2] : v \in {w \in ToSet(f.versions) : w[1] = h}}
         skipped == h \in EmptyPathHashes(f) /\ reg[h] = Unknown
     IN  IF paths # {} \/ (versions # {} /\ ~skipped)
           THEN AddEntries(reg[h], f.software, paths, UNION versions)
           ELSE reg[h]]

\* stripQueryAndFragment
Clean(url) ==
  LET cuts == {i \in DOMAIN url : url[i] = "?"}
  IN  IF cuts = {} THEN url ELSE SubSeq(url, 1, Min(cuts) - 1)

\* The identities known for page p, a set of one or none: the roots are what
\* precedes a path under which its content is known.
Find(p) ==
  LET id == registry[HashOf[p]]
      url == Clean(UrlOf[p])
      known == {path \in id.paths : IsSuffix(path, url)}
      roots == {SubSeq(url, 1, Len(url) - Len(path)) : path \in known}
  IN  IF id \in {Unknown, Dropped} \/ (id.paths # {} /\ roots = {}) THEN {}
      ELSE {[software |-> id.software, roots |-> roots, versions |-> id.versions]}

-----------------------------------------------------------------------------
(* The matching. *)

IntersectVersions(known, new) ==
  LET both == known.versions \cap new.versions
  IN  IF both = {} THEN known ELSE [known EXCEPT !.versions = both]

\* A page belongs to a known application if its root, as a string, continues
\* the root of that.
Covers_Always(known, new) == TRUE
Covers(known, new) == \E kr \in known.roots, nr \in new.roots : IsPrefix(kr, nr)

AddMatch(ids, id) ==
  LET covering == {i \in DOMAIN ids : Covers(ids[i], id)}
  IN  IF covering = {} THEN Append(ids, id)
      ELSE [ids EXCEPT ![Min(covering)] = IntersectVersions(@, id)]

\* splitServiceByEndpoint: crawled by hostname and by address, one by one.
Split(s) == IF AddressOf[s] = {"host", "ip"} THEN <<{"host"}, {"ip"}>> ELSE <<AddressOf[s]>>

Address(s) == Split(s)[endpoint[s]]

\* The pages of the endpoint of s that is being crawled.
Current(s) == {p \in Pages : ServiceOf[p] = s /\ UrlOf[p][1] \in Address(s)}

CrawlResults(s) == {p \in Current(s) : step[p] # "unseen"}

Below(roots, p) == \E r \in roots : IsPrefix(r, UrlOf[p])

\* A service of the report; software, roots and versions are empty if unknown.
Unidentified(s, ps) ==
  [addr |-> Address(s), software |-> {}, root |-> <<>>, versions |-> {}, pages |-> ps]

IdentityToNewService(s, id) ==
  [addr |-> Address(s), software |-> {id.software},
   root |-> IF Cardinality(id.roots) = 1 THEN CHOOSE r \in id.roots : TRUE ELSE <<>>,
   versions |-> id.versions,
   pages |-> {p \in CrawlResults(s) : Below(id.roots, p)}]

KnownRoots(s) ==
  UNION {id.roots : id \in UNION {ToSet(matches[s][sw]) : sw \in Software}}

ServiceFromUnidentified(s) ==
  LET rest == {p \in CrawlResults(s) : ~Below(KnownRoots(s), p)}
  IN  IF rest = {} THEN <<>> ELSE <<Unidentified(s, rest)>>

Matching(s) ==
  IF \A sw \in Software : matches[s][sw] = <<>>
    THEN <<Unidentified(s, CrawlResults(s))>>
    ELSE LET New(id) == IdentityToNewService(s, id)
             OfSoftware(acc, sw) == acc \o [i \in DOMAIN matches[s][sw] |-> New(matches[s][sw][i])]
         IN  FoldLeft(OfSoftware, <<>>, SetToSeq(Software)) \o ServiceFromUnidentified(s)

-----------------------------------------------------------------------------
(* The reconciliation. *)

\* The path of a URL: what follows its endpoint and precedes its query.
ExtractPath(url) == IF url = <<>> THEN <<>> ELSE Tail(Clean(url))

\* The maps that crawlHashes can build: one of the pages of a path remains.
CrawlHashes(ps) ==
  {h \in [{ExtractPath(UrlOf[p]) : p \in ps} -> Hashes] :
     \A path \in DOMAIN h :
       \E p \in ps : ExtractPath(UrlOf[p]) = path /\ h[path] = HashOf[p]}

\* Whether the pages of two unidentified services can be found equal.
MaySame(ps, qs) == {g = h : g \in CrawlHashes(ps), h \in CrawlHashes(qs)}

\* areServicesIdentical; same says how the comparison of pages turns out.
Identical_AnyRoot(a, b, same) ==
  IF a.software # {} /\ b.software # {} THEN a.software = b.software
  ELSE a.software = b.software /\ same
Identical(a, b, same) ==
  IF a.software # {} /\ b.software # {}
    THEN a.software = b.software /\ ExtractPath(a.root) = ExtractPath(b.root)
    ELSE a.software = b.software /\ same

Reconcile(s, services, same) ==
  LET Merge(acc, new) ==
        LET twins == {i \in DOMAIN acc : Identical(acc[i], new, same)}
        IN  IF twins = {} THEN Append(acc, new)
            ELSE [acc EXCEPT ![Min(twins)].addr = AddressOf[s],
                             ![Min(twins)].pages = @ \cup new.pages]
  IN  FoldLeft(Merge, <<>>, services)

\* How comparing the unidentified services, at most one per endpoint, can end.
Comparisons(services) ==
  LET un == {i \in DOMAIN services : services[i].software = {}}
  IN  IF Cardinality(un) < 2 THEN {FALSE}
      ELSE MaySame(services[Min(un)].pages, services[Max(un)].pages)

-----------------------------------------------------------------------------
NoMatches == [sw \in Software |-> <<>>]

Init ==
  /\ StoreInit
  /\ toLoad \in SetToSeqs(Files)
  /\ registry = [h \in Hashes |-> Unknown]
  /\ module = "loading"
  /\ stage = [s \in Services |-> "idle"]
  /\ endpoint = [s \in Services |-> 1]
  /\ step = [p \in Pages |-> "unseen"]
  /\ matches = [s \in Services |-> NoMatches]
  /\ found = [s \in Services |-> <<>>]
  /\ report = [s \in Services |-> <<>>]

\* loadAllFingerprints: a file that cannot be read or parsed, and the module
\* cannot be used.
LoadFile ==
  /\ module = "loading"
  /\ \/ /\ toLoad # <<>>
        /\ registry' = Load(registry, Head(toLoad))
        /\ toLoad' = Tail(toLoad)
        /\ UNCHANGED module
     \/ module' = (IF toLoad = <<>> THEN "ready" ELSE "failed") /\ UNCHANGED <<toLoad, registry>>
  /\ UNCHANGED <<stage, endpoint, step, matches, found, report, storeVars>>

ReturnReport(s, what) ==
  /\ stage' = [stage EXCEPT ![s] = "returned"]
  /\ report' = [report EXCEPT ![s] = what]

Fingerprint(s) ==
  /\ module = "ready"
  /\ stage[s] = "idle"
  /\ IF IsWeb[s] THEN stage' = [stage EXCEPT ![s] = "crawling"] /\ UNCHANGED report
     ELSE ReturnReport(s, <<[addr |-> AddressOf[s], software |-> {}, root |-> <<>>,
                       versions |-> {}, pages |-> {}]>>)
  /\ UNCHANGED <<toLoad, registry, module, endpoint, step, matches, found, storeVars>>

Busy(s) == {p \in CrawlResults(s) : ret[p] = "none"}

\* The crawler calls back: the first critical section of processPage.
AddVisited(p) ==
  /\ stage[ServiceOf[p]] = "crawling"
  /\ p \in Current(ServiceOf[p])
  /\ step[p] = "unseen"
  /\ Cardinality(Busy(ServiceOf[p])) < Slots
  /\ step' = [step EXCEPT ![p] = "visited"]
  /\ UNCHANGED <<toLoad, registry, module, stage, endpoint, matches, found, report, storeVars>>

\* The second one, for pages with a known identity.
Match(p) ==
  /\ step[p] = "visited"
  /\ step' = [step EXCEPT ![p] = "matched"]
  /\ matches' = [matches EXCEPT ![ServiceOf[p]] =
       [sw \in Software |->
          LET ids == {id \in Find(p) : id.software = sw}
          IN  IF ids = {} THEN @[sw] ELSE AddMatch(@[sw], CHOOSE id \in ids : TRUE)]]
  /\ UNCHANGED <<toLoad, registry, module, stage, endpoint, found, report, storeVars>>

Keep(p) == step[p] = "matched" /\ Artifacts(p) /\ UNCHANGED webVars

Failed(s) == \E p \in Current(s) : ret[p] = "error"

\* The crawl ends with the error of a callback or of its own.
CrawlFails(s) ==
  /\ stage[s] = "crawling"
  /\ Busy(s) = {}
  /\ stage' = [stage EXCEPT ![s] = "failed"]
  /\ UNCHANGED <<toLoad, registry, module, endpoint, step, matches, found, report, storeVars>>

\* The crawl ends and its findings are matched; then comes the next endpoint,
\* or all findings are reconciled.
CrawlEnds(s) ==
  /\ stage[s] = "crawling"
  /\ Busy(s) = {}
  /\ ~Failed(s)
  /\ found' = [found EXCEPT ![s] = @ \o Matching(s)]
  /\ IF endpoint[s] < Len(Split(s))
       THEN /\ endpoint' = [endpoint EXCEPT ![s] = @ + 1]
            /\ matches' = [matches EXCEPT ![s] = NoMatches]
            /\ UNCHANGED <<stage, report>>
       ELSE /\ \E same \in Comparisons(found'[s]) : ReturnReport(s, Reconcile(s, found'[s], same))
            /\ UNCHANGED <<endpoint, matches>>
  /\ UNCHANGED <<toLoad, registry, module, step, storeVars>>

Terminated ==
  /\ module = "failed" \/ \A s \in Services : stage[s] \in {"failed", "returned"}
  /\ UNCHANGED vars

Next ==
  \/ LoadFile
  \/ \E s \in Services : Fingerprint(s) \/ CrawlFails(s) \/ CrawlEnds(s)
  \/ \E p \in Pages : AddVisited(p) \/ Match(p) \/ Keep(p)
  \/ Terminated

Spec == Init /\ [][Next]_vars

-----------------------------------------------------------------------------
TypeOK ==
  /\ StoreTypeOK
  /\ ToSet(toLoad) \subseteq Files
  /\ DOMAIN registry = Hashes
  /\ module \in {"loading", "ready", "failed"}
  /\ stage \in [Services -> {"idle", "crawling", "failed", "returned"}]
  /\ endpoint \in [Services -> 1 .. 2]
  /\ step \in [Pages -> {"unseen", "visited", "matched"}]
  /\ \A s \in Services : matches[s] \in [Software -> Seq([software : Software,
       roots : SUBSET UNION {Seq(Range(UrlOf[p])) : p \in Pages}, versions : SUBSET Nat])]

\* The applications that claim a hash; one that has it on an empty path only
\* claims nothing.
Claims(f) ==
  {c[2] : c \in {d \in ToSet(f.paths) : d[1] # <<>>}} \cup
  ({v[1] : v \in ToSet(f.versions)} \ EmptyPathHashes(f))

Claimants(h) == {f.software : f \in {g \in Files : h \in Claims(g)}}

\* Whatever the order of the files, a hash identifies an application only if
\* no other one claims it, and the only claimant of a hash that no other file
\* lists at all is found by it.
RegistryExact ==
  module = "ready" =>
    \A h \in Hashes :
      LET listing == {f.software : f \in {g \in Files : h \in Claims(g) \cup EmptyPathHashes(g)}}
      IN  /\ registry[h] \notin {Unknown, Dropped} => Claimants(h) = {registry[h].software}
          /\ listing = Claimants(h) /\ Cardinality(listing) = 1 => registry[h].software \in listing

\* The pages that the crawls of s have visited.
Visited(s) == {p \in Pages : ServiceOf[p] = s /\ step[p] # "unseen"}

Reported(s) == stage[s] = "returned"

\* No page gets lost between matching and reconciliation: each one that was
\* visited is listed by a service of the report, and so is no other.
PagesKept ==
  \A s \in Services :
    Reported(s) => UNION {report[s][i].pages : i \in DOMAIN report[s]} = Visited(s)

\* The version that runs is never ruled out: one that each identified page of
\* an application allows is among those reported, in whatever order callbacks
\* came and although the findings of two endpoints are put together.
TrueVersionKept ==
  \A s \in Services : Reported(s) =>
    \A i \in DOMAIN report[s] :
      LET svc == report[s][i]
          own == UNION {Find(p) : p \in svc.pages}
          ids == {id \in own : {id.software} = svc.software}
      IN  svc.root # <<>> =>
            \A v \in UNION {id.versions : id \in ids} :
              (\A id \in ids : v \in id.versions) => v \in svc.versions

\* Each application is reported once, with both addresses only if it was found
\* by both.
ReportedOnce ==
  \A s \in Services : Reported(s) =>
    \A i, j \in DOMAIN report[s] :
      LET a == report[s][i]
          b == report[s][j]
      IN  /\ i # j /\ a.software # {} =>
               <<a.software, ExtractPath(a.root)>> # <<b.software, ExtractPath(b.root)>>
          /\ i # j /\ a.software = {} /\ b.software = {} => MaySame(a.pages, b.pages) # {TRUE}
          /\ a.root # <<>> /\ a.addr = {"host", "ip"} =>
               \A e \in a.addr : \E p \in a.pages : UrlOf[p][1] = e

\* What is reported of a service covers its pages and repeats nothing.
ReportExact == PagesKept /\ ReportedOnce
=============================================================================
