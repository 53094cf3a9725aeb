-------------------------- MODULE WebIdentityProofs --------------------------
(***************************************************************************)
(* The web fingerprinter: its artifacts stay within their space, for any   *)
(* pages, sizes and limits, and however callbacks interleave and fail; and *)
(* its registry does not depend on the order of the signature files.       *)
(***************************************************************************)
EXTENDS WebIdentity, FiniteSetTheorems, SequenceTheorems, TLAPS

\* The pages whose reservation is held: their file is about to be written, or was.
Reserved == {p \in Pages : pc[p] \in {"open", "write"} \/ ret[p] = "written"}

\* The space in use is that of the reservations; a whole file is that of a page
\* whose write succeeded; and who reserves has passed the limit of the file size.
StoreInv ==
  /\ StoreTypeOK
  /\ \A p \in Pages : pc[p] = "returned" <=> ret[p] # "none"
  /\ IsFiniteSet(PageBytes(Reserved))
  /\ usedStorage = Cardinality(PageBytes(Reserved))
  /\ \A p \in Pages : pc[p] \in {"reserve", "open", "write"} => SizeOf(p) <= MaxFile
  /\ \A h \in Hashes :
       files[h] = "whole" => \E p \in Pages : ret[p] = "written" /\ HashOf[p] = h
  /\ \A h \in Hashes : files[h] # "absent" => Size[h] <= MaxFile

-----------------------------------------------------------------------------
(* Counting bytes.                                                         *)

LEMMA SizeFacts == \A p \in Pages : HashOf[p] \in Hashes /\ SizeOf(p) \in Nat
  BY StoreAssumption DEF SizeOf

LEMMA OnePage ==
  ASSUME NEW p \in Pages
  PROVE  IsFiniteSet({p} \X (1 .. SizeOf(p))) /\ Cardinality({p} \X (1 .. SizeOf(p))) = SizeOf(p)
<1> DEFINE n == SizeOf(p)
           f == [b \in 1 .. n |-> <<p, b>>]
<1>1. n \in Nat
  BY SizeFacts
<1> HIDE DEF n
<1>2. f \in Bijection(1 .. n, {p} \X (1 .. n))
  <2>1. f \in [1 .. n -> {p} \X (1 .. n)]
    OBVIOUS
  <2>2. \A a, b \in 1 .. n : f[a] = f[b] => a = b
    OBVIOUS
  <2>3. \A x \in {p} \X (1 .. n) : \E b \in 1 .. n : f[b] = x
    OBVIOUS
  <2> QED
    BY <2>1, <2>2, <2>3 DEF Bijection, Injection, Surjection, IsInjective
<1>3. IsFiniteSet(1 .. n) /\ Cardinality(1 .. n) = n
  BY <1>1, FS_Interval
<1> QED
  BY <1>2, <1>3, FS_Bijection DEF ExistsBijection, n

\* One page more or less.
LEMMA BytesAdded ==
  ASSUME NEW S \in SUBSET Pages, NEW p \in Pages \ S, IsFiniteSet(PageBytes(S))
  PROVE  /\ IsFiniteSet(PageBytes(S \cup {p}))
         /\ Cardinality(PageBytes(S \cup {p})) = Cardinality(PageBytes(S)) + SizeOf(p)
<1> DEFINE A == PageBytes(S)
           B == {p} \X (1 .. SizeOf(p))
<1>1. PageBytes(S \cup {p}) = A \cup B
  BY DEF PageBytes
<1>2. A \cap B = {}
  BY DEF PageBytes
<1>3. IsFiniteSet(B) /\ Cardinality(B) = SizeOf(p) /\ SizeOf(p) \in Nat
  BY OnePage, SizeFacts
<1>4. Cardinality(A) \in Nat
  BY FS_CardinalityType
<1> HIDE DEF A, B
<1>5. IsFiniteSet(A \cup B)
      /\ Cardinality(A \cup B) = Cardinality(A) + Cardinality(B) - Cardinality(A \cap B)
  BY <1>3, FS_Union DEF A
<1>6. Cardinality(A \cap B) = 0
  BY <1>2, FS_EmptySet
<1>7. Cardinality(A \cup B) = Cardinality(A) + SizeOf(p)
  BY <1>3, <1>4, <1>5, <1>6
<1>8. IsFiniteSet(A \cup B)
  BY <1>5
<1> QED
  BY <1>1, <1>7, <1>8, Zenon DEF A

LEMMA BytesTaken ==
  ASSUME NEW S \in SUBSET Pages, NEW p \in S, IsFiniteSet(PageBytes(S))
  PROVE  /\ IsFiniteSet(PageBytes(S \ {p}))
         /\ Cardinality(PageBytes(S)) = Cardinality(PageBytes(S \ {p})) + SizeOf(p)
<1>1. PageBytes(S \ {p}) \subseteq PageBytes(S)
  BY DEF PageBytes
<1>2. IsFiniteSet(PageBytes(S \ {p}))
  BY <1>1, FS_Subset
<1>3. (S \ {p}) \cup {p} = S
  OBVIOUS
<1> QED
  BY <1>2, <1>3, BytesAdded

\* Whole files are no bigger than the pages written into them.
LEMMA FilesCovered ==
  ASSUME StoreInv
  PROVE  LET W == {p \in Pages : ret[p] = "written"}
             F == FileBytes({h \in Hashes : files[h] = "whole"})
         IN  IsFiniteSet(F) /\ Cardinality(F) <= Cardinality(PageBytes(W))
<1> DEFINE W == {p \in Pages : ret[p] = "written"}
           F == FileBytes({h \in Hashes : files[h] = "whole"})
           X == {x \in PageBytes(W) : <<HashOf[x[1]], x[2]>> \in F}
           f == [x \in X |-> <<HashOf[x[1]], x[2]>>]
<1>1. PageBytes(W) \subseteq PageBytes(Reserved)
  BY DEF PageBytes, Reserved
<1>2. IsFiniteSet(PageBytes(W))
  BY <1>1, FS_Subset DEF StoreInv
<1>3. X \subseteq PageBytes(W)
  OBVIOUS
<1>4. IsFiniteSet(X) /\ Cardinality(X) <= Cardinality(PageBytes(W))
      /\ Cardinality(X) \in Nat /\ Cardinality(PageBytes(W)) \in Nat
  BY <1>2, <1>3, FS_Subset, FS_CardinalityType
<1>5. f \in Surjection(X, F)
  <2>1. f \in [X -> F]
    OBVIOUS
  <2>2. ASSUME NEW y \in F
        PROVE  \E x \in X : f[x] = y
    <3>1. PICK h \in Hashes : files[h] = "whole" /\ y \in {h} \X (1 .. Size[h])
      BY DEF FileBytes
    <3>2. PICK p \in Pages : ret[p] = "written" /\ HashOf[p] = h
      BY <3>1 DEF StoreInv
    <3>3. PICK b \in 1 .. Size[h] : y = <<h, b>>
      BY <3>1
    <3>4. <<p, b>> \in PageBytes(W)
      BY <3>2, <3>3 DEF PageBytes, SizeOf
    <3>5. <<p, b>> \in X /\ f[<<p, b>>] = y
      BY <3>2, <3>3, <3>4
    <3> QED
      BY <3>5
  <2> QED
    BY <2>1, <2>2 DEF Surjection
<1> HIDE DEF X, F, f, W
<1>6. IsFiniteSet(F) /\ Cardinality(F) <= Cardinality(X)
  BY <1>4, <1>5, FS_Surjection
<1>7. Cardinality(F) \in Nat
  BY <1>6, FS_CardinalityType
<1> QED
  BY <1>4, <1>6, <1>7 DEF F, W
-----------------------------------------------------------------------------
(* The steps of a callback.                                                *)

LEMMA InitStore == StoreInit => StoreInv
<1> SUFFICES ASSUME StoreInit
             PROVE  StoreInv
  OBVIOUS
<1>1. Reserved = {} /\ PageBytes({}) = {}
  BY DEF StoreInit, Reserved, PageBytes
<1>2. IsFiniteSet(PageBytes(Reserved)) /\ Cardinality(PageBytes(Reserved)) = 0
  BY <1>1, FS_EmptySet
<1>3. StoreTypeOK
  BY StoreAssumption DEF StoreInit, StoreTypeOK
<1> QED
  BY <1>2, <1>3 DEF StoreInit, StoreInv

\* Nothing but the step of one callback changes, and it reserves nothing.
LEMMA QuietSteps ==
  ASSUME StoreInv, NEW p \in Pages,
         \/ Process(p) \/ Stat(p)
         \/ Reserve(p) /\ ~Fits(p)
  PROVE  StoreInv'
<1>1. /\ UNCHANGED <<enforce, usedStorage, files>>
      /\ pc[p] \in {"idle", "stat", "reserve"}
      /\ \/ pc' = [pc EXCEPT ![p] = "stat"] /\ UNCHANGED ret
         \/ /\ pc' = [pc EXCEPT ![p] = "reserve"] /\ UNCHANGED ret
            /\ SizeOf(p) <= MaxFile
         \/ /\ pc' = [pc EXCEPT ![p] = "returned"]
            /\ \E what \in {"skipped", "error"} : ret' = [ret EXCEPT ![p] = what]
  <2>1. CASE Process(p)
    BY <2>1 DEF Process, Goto, Return
  <2>2. CASE Stat(p)
    <3>1. ~TooBig(p) => SizeOf(p) <= MaxFile
      BY SizeFacts, StoreAssumption DEF TooBig
    <3> QED
      BY <2>2, <3>1 DEF Stat, Goto, Return
  <2>3. CASE Reserve(p) /\ ~Fits(p)
    BY <2>3 DEF Reserve, Return, Goto
  <2> QED
    BY <2>1, <2>2, <2>3
<1>2. StoreTypeOK'
  BY <1>1 DEF StoreInv, StoreTypeOK
<1>3. \A q \in Pages : q # p => pc'[q] = pc[q] /\ ret'[q] = ret[q]
  BY <1>1 DEF StoreInv, StoreTypeOK
<1>4. /\ pc[p] \notin {"open", "write"} /\ ret[p] = "none"
      /\ pc'[p] \in {"stat", "reserve", "returned"} /\ ret'[p] # "written"
      /\ pc'[p] = "returned" <=> ret'[p] # "none"
      /\ pc'[p] = "reserve" => SizeOf(p) <= MaxFile
  BY <1>1 DEF StoreInv, StoreTypeOK
<1>5. Reserved' = Reserved
  BY <1>3, <1>4 DEF Reserved
<1>6. PageBytes(Reserved)' = PageBytes(Reserved)
  BY <1>5 DEF PageBytes, SizeOf
<1>7. \A q \in Pages : ret[q] = "written" => ret'[q] = "written"
  BY <1>3, <1>4
<1> QED
  BY <1>1, <1>2, <1>3, <1>4, <1>6, <1>7 DEF StoreInv, SizeOf

LEMMA ReserveStep ==
  ASSUME StoreInv, NEW p \in Pages, Reserve(p), Fits(p)
  PROVE  StoreInv'
<1>1. /\ UNCHANGED <<enforce, files, ret>>
      /\ usedStorage' = usedStorage + SizeOf(p) /\ usedStorage + SizeOf(p) <= MaxSpace
      /\ pc[p] = "reserve" /\ pc' = [pc EXCEPT ![p] = "open"]
  BY DEF Reserve, Fits, Goto
<1>2. ret[p] = "none" /\ p \notin Reserved
  BY <1>1 DEF StoreInv, StoreTypeOK, Reserved
<1>3. Reserved' = Reserved \cup {p}
  BY <1>1 DEF Reserved, StoreInv, StoreTypeOK
<1>4. PageBytes(Reserved)' = PageBytes(Reserved \cup {p})
  BY <1>3 DEF PageBytes, SizeOf
<1>5. /\ IsFiniteSet(PageBytes(Reserved \cup {p}))
      /\ Cardinality(PageBytes(Reserved \cup {p})) = Cardinality(PageBytes(Reserved)) + SizeOf(p)
  BY <1>2, BytesAdded DEF StoreInv, Reserved
<1>6. usedStorage' \in 0 .. MaxSpace
  BY <1>1, SizeFacts, StoreAssumption DEF StoreInv, StoreTypeOK
<1>7. StoreTypeOK'
  BY <1>1, <1>6 DEF StoreInv, StoreTypeOK
<1>8. usedStorage' = Cardinality(PageBytes(Reserved)')
  BY <1>1, <1>4, <1>5 DEF StoreInv
<1>9. \A q \in Pages : q # p => pc'[q] = pc[q]
  BY <1>1 DEF StoreInv, StoreTypeOK
<1>10. pc'[p] = "open"
  BY <1>1 DEF StoreInv, StoreTypeOK
<1> QED
  BY <1>1, <1>2, <1>4, <1>5, <1>7, <1>8, <1>9, <1>10 DEF StoreInv, SizeOf

\* A failing write returns what was reserved.
LEMMA FailStep ==
  ASSUME StoreInv, NEW p \in Pages, pc[p] \in {"open", "write"}, WriteFailed(p),
         UNCHANGED enforce
  PROVE  StoreInv'
<1>1. /\ UNCHANGED <<enforce, files>>
      /\ usedStorage' = Released(p)
      /\ pc' = [pc EXCEPT ![p] = "returned"] /\ ret' = [ret EXCEPT ![p] = "error"]
  BY DEF WriteFailed, Return, Goto
<1>2. ret[p] = "none" /\ p \in Reserved
  BY DEF StoreInv, StoreTypeOK, Reserved
<1>3. \A q \in Pages : q # p => pc'[q] = pc[q] /\ ret'[q] = ret[q]
  BY <1>1 DEF StoreInv, StoreTypeOK
<1>4. pc'[p] = "returned" /\ ret'[p] = "error"
  BY <1>1 DEF StoreInv, StoreTypeOK
<1>5. Reserved' = Reserved \ {p}
  BY <1>3, <1>4 DEF Reserved
<1>6. PageBytes(Reserved)' = PageBytes(Reserved \ {p})
  BY <1>5 DEF PageBytes, SizeOf
<1> DEFINE rest == Cardinality(PageBytes(Reserved \ {p}))
<1>7. IsFiniteSet(PageBytes(Reserved \ {p})) /\ rest \in Nat /\ usedStorage = rest + SizeOf(p)
  <2>1. /\ IsFiniteSet(PageBytes(Reserved \ {p}))
        /\ Cardinality(PageBytes(Reserved)) = rest + SizeOf(p)
    BY <1>2, BytesTaken DEF StoreInv, Reserved
  <2> QED
    BY <2>1, FS_CardinalityType DEF StoreInv
<1> HIDE DEF rest
<1>8. usedStorage' = rest
  <2>1. ~(usedStorage < SizeOf(p)) /\ usedStorage - SizeOf(p) = rest
    BY <1>7, SizeFacts
  <2> QED
    BY <1>1, <2>1 DEF Released
<1>9. usedStorage' \in 0 .. MaxSpace
  BY <1>7, <1>8, SizeFacts, StoreAssumption DEF StoreInv, StoreTypeOK
<1>10. StoreTypeOK'
  BY <1>1, <1>9 DEF StoreInv, StoreTypeOK
<1>11. usedStorage' = Cardinality(PageBytes(Reserved)')
  BY <1>6, <1>8 DEF rest
<1>12. \A q \in Pages : ret[q] = "written" => ret'[q] = "written"
  BY <1>2, <1>3
<1> QED
  BY <1>1, <1>3, <1>4, <1>6, <1>7, <1>10, <1>11, <1>12 DEF StoreInv, SizeOf

\* A succeeding one keeps it.
LEMMA WriteStep ==
  ASSUME StoreInv, NEW p \in Pages, Open(p) \/ Write(p), ~WriteFailed(p)
  PROVE  StoreInv'
<1>1. /\ UNCHANGED <<enforce, usedStorage>>
      /\ pc[p] \in {"open", "write"}
      /\ \/ /\ files' = [files EXCEPT ![HashOf[p]] = "short"]
            /\ pc' = [pc EXCEPT ![p] = "write"] /\ UNCHANGED ret
         \/ /\ files' = [files EXCEPT ![HashOf[p]] = "whole"]
            /\ pc' = [pc EXCEPT ![p] = "returned"] /\ ret' = [ret EXCEPT ![p] = "written"]
  BY DEF Open, Write, Return, Goto
<1>2. StoreTypeOK'
  BY <1>1 DEF StoreInv, StoreTypeOK
<1>3. \A q \in Pages : q # p => pc'[q] = pc[q] /\ ret'[q] = ret[q]
  BY <1>1 DEF StoreInv, StoreTypeOK
<1>4. /\ ret[p] = "none"
      /\ \/ pc'[p] = "write" /\ ret'[p] = "none" /\ files'[HashOf[p]] = "short"
         \/ pc'[p] = "returned" /\ ret'[p] = "written"
  BY <1>1, SizeFacts DEF StoreInv, StoreTypeOK
<1>5. Reserved' = Reserved
  BY <1>1, <1>3, <1>4 DEF Reserved
<1>6. PageBytes(Reserved)' = PageBytes(Reserved)
  BY <1>5 DEF PageBytes, SizeOf
<1>7. \A h \in Hashes : h # HashOf[p] => files'[h] = files[h]
  BY <1>1, SizeFacts DEF StoreInv, StoreTypeOK
<1>8. \A q \in Pages : ret[q] = "written" => ret'[q] = "written"
  BY <1>3, <1>4
<1>9. SizeOf(p) <= MaxFile /\ SizeOf(p) = Size[HashOf[p]]
  BY <1>1 DEF StoreInv, SizeOf
<1>10. \A h \in Hashes :
         files'[h] = "whole" => \E q \in Pages : ret'[q] = "written" /\ HashOf[q] = h
  BY <1>4, <1>7, <1>8 DEF StoreInv
<1>11. \A h \in Hashes : files'[h] # "absent" => Size[h] <= MaxFile
  BY <1>7, <1>9 DEF StoreInv
<1>12. \A q \in Pages : pc'[q] = "returned" <=> ret'[q] # "none"
  BY <1>3, <1>4 DEF StoreInv
<1>13. \A q \in Pages : pc'[q] \in {"reserve", "open", "write"} => SizeOf(q)' <= MaxFile
  BY <1>3, <1>4, <1>9 DEF StoreInv, SizeOf
<1> QED
  BY <1>1, <1>2, <1>6, <1>10, <1>11, <1>12, <1>13 DEF StoreInv

LEMMA StoreStep == StoreInv /\ [Next]_vars => StoreInv'
<1> SUFFICES ASSUME StoreInv, [Next]_vars
             PROVE  StoreInv'
  OBVIOUS
<1>1. CASE UNCHANGED storeVars
  <2>1. Reserved' = Reserved
    BY <1>1 DEF storeVars, Reserved
  <2>2. PageBytes(Reserved)' = PageBytes(Reserved)
    BY <2>1 DEF PageBytes, SizeOf
  <2> QED
    BY <1>1, <2>2 DEF storeVars, StoreInv, StoreTypeOK, SizeOf
<1>2. ASSUME NEW p \in Pages, Artifacts(p)
      PROVE  StoreInv'
  <2>1. CASE Process(p) \/ Stat(p) \/ Reserve(p)
    BY <2>1, QuietSteps, ReserveStep
  <2>2. CASE Open(p) \/ Write(p)
    <3>1. pc[p] \in {"open", "write"} /\ UNCHANGED enforce
      BY <2>2 DEF Open, Write
    <3> QED
      BY <2>2, <3>1, FailStep, WriteStep
  <2> QED
    BY <1>2, <2>1, <2>2 DEF Artifacts
<1>3. \/ UNCHANGED storeVars
      \/ \E p \in Pages : Artifacts(p)
  BY DEF Next, LoadFile, Fingerprint, CrawlFails, CrawlEnds, AddVisited, Match, Keep,
         Terminated, vars
<1> QED
  BY <1>1, <1>2, <1>3

\* The artifacts never take more than their space, although callbacks check for
\* a file, reserve, open and write in separate steps and may fail at each; and
\* when no callback is running the space in use is that of the files written.
THEOREM ArtifactsFit == Spec => []SpaceKept
<1>1. StoreInv => SpaceKept
  <2> SUFFICES ASSUME StoreInv
               PROVE  SpaceKept
    OBVIOUS
  <2> DEFINE W == {p \in Pages : ret[p] = "written"}
             F == FileBytes({h \in Hashes : files[h] = "whole"})
  <2>1. IsFiniteSet(F) /\ Cardinality(F) <= Cardinality(PageBytes(W))
    BY FilesCovered
  <2>2. PageBytes(W) \subseteq PageBytes(Reserved)
    BY DEF PageBytes, Reserved
  <2>3. /\ IsFiniteSet(PageBytes(W))
        /\ Cardinality(PageBytes(W)) <= usedStorage
    BY <2>2, FS_Subset DEF StoreInv
  <2>4. Cardinality(F) \in Nat /\ Cardinality(PageBytes(W)) \in Nat /\ usedStorage \in Nat
        /\ usedStorage <= MaxSpace
    BY <2>1, <2>3, FS_CardinalityType, StoreAssumption DEF StoreInv, StoreTypeOK
  <2>5. InFlight = {} => usedStorage = Cardinality(PageBytes(W))
    <3>1. InFlight = {} => Reserved = W
      BY DEF InFlight, Reserved, StoreInv
    <3> QED
      BY <3>1 DEF StoreInv
  <2>6. Cardinality(F) <= usedStorage
    <3> HIDE DEF F, W
    <3> QED
      BY <2>1, <2>3, <2>4
  <2> QED
    BY <2>4, <2>5, <2>6 DEF SpaceKept, StoreInv
<1>2. Init => StoreInv
  BY InitStore DEF Init
<1> QED
  BY <1>1, <1>2, StoreStep, PTL DEF Spec
-----------------------------------------------------------------------------
(* The registry.                                                           *)

Listing(f) == Claims(f) \cup EmptyPathHashes(f)

Loaded == Files \ ToSet(toLoad)

IsIdentity(id) == DOMAIN id = {"software", "paths", "versions"}

\* After the files L, an identity is unknown, and none of them claims the hash; or
\* it is dropped, and two of them list it for different applications; or it is
\* that of the one application that claims it.
Records(id, h, L) ==
  \/ id = Unknown /\ \A f \in L : h \notin Claims(f)
  \/ id = Dropped /\ \E f, g \in L : /\ f.software # g.software
                                     /\ h \in Listing(f) /\ h \in Listing(g)
  \/ /\ id.software \in Software
     /\ \E f \in L : h \in Claims(f) /\ f.software = id.software
     /\ \A f \in L : h \in Claims(f) => f.software = id.software

RegistryInv ==
  /\ toLoad \in Seq(Files)
  /\ \A i, j \in 1 .. Len(toLoad) : i # j => toLoad[i] # toLoad[j]
  /\ module = "ready" => toLoad = <<>>
  /\ DOMAIN registry = Hashes
  /\ \A h \in Hashes : IsIdentity(registry[h]) /\ Records(registry[h], h, Loaded)

LEMMA Markers ==
  /\ \A f \in Files : f.software \in Software
  /\ "unknown" \notin Software /\ "dropped" \notin Software
  /\ IsIdentity(Unknown) /\ IsIdentity(Dropped) /\ Unknown # Dropped
  /\ Unknown.software = "unknown" /\ Dropped.software = "dropped"
  BY WebAssumption DEF Software, IsIdentity, Unknown, Dropped

\* What a file does to the identity of a hash.
LEMMA EntriesFacts ==
  ASSUME NEW f \in Files, NEW id, IsIdentity(id), NEW ps, NEW vs
  PROVE  /\ IsIdentity(AddEntries(id, f.software, ps, vs))
         /\ id = Unknown => AddEntries(id, f.software, ps, vs).software = f.software
         /\ id.software = f.software => AddEntries(id, f.software, ps, vs).software = f.software
         /\ id # Unknown /\ id.software # f.software =>
              AddEntries(id, f.software, ps, vs) = Dropped
<1> DEFINE new == AddSoftware(id, f.software)
           res == AddEntries(id, f.software, ps, vs)
<1>1. /\ IsIdentity(new)
      /\ id = Unknown \/ id.software = f.software => new.software = f.software
      /\ id # Unknown /\ id.software # f.software => new = Dropped
  <2>1. CASE id = Unknown
    <3>1. id.software # f.software
      BY <2>1, Markers
    <3>2. new = [Unknown EXCEPT !.software = f.software]
      BY <2>1, <3>1 DEF AddSoftware
    <3> QED
      BY <2>1, <3>2 DEF Unknown, IsIdentity
  <2>2. CASE id # Unknown /\ id.software = f.software
    BY <2>2 DEF AddSoftware
  <2>3. CASE id # Unknown /\ id.software # f.software
    BY <2>3, Markers DEF AddSoftware
  <2> QED
    BY <2>1, <2>2, <2>3
<1>2. new = Dropped => res = Dropped
  BY DEF AddEntries
<1>3. new # Dropped => /\ res = [new EXCEPT !.paths = @ \cup ps, !.versions = @ \cup vs]
                       /\ IsIdentity(res) /\ res.software = new.software
  BY <1>1 DEF AddEntries, IsIdentity
<1>4. new.software = f.software => new # Dropped
  BY Markers
<1> HIDE DEF new, res
<1> QED
  BY <1>1, <1>2, <1>3, <1>4, Markers DEF res

\* Whether a file adds to a hash is settled by what it claims and what is known.
LEMMA LoadFacts ==
  ASSUME NEW f \in Files, NEW h \in Hashes, DOMAIN registry = Hashes
  PROVE  \/ /\ Load(registry, f)[h] = registry[h]
            /\ h \notin Claims(f)
         \/ /\ \E ps, vs : Load(registry, f)[h] = AddEntries(registry[h], f.software, ps, vs)
            /\ h \in Listing(f)
            /\ registry[h] = Unknown => h \in Claims(f)
<1> DEFINE paths == {c[1] : c \in {d \in ToSet(f.paths) : d[2] = h}} \ {<<>>}
           versions == {v[2] : v \in {w \in ToSet(f.versions) : w[1] = h}}
           skipped == h \in EmptyPathHashes(f) /\ registry[h] = Unknown
<1>1. Load(registry, f)[h] = IF paths # {} \/ (versions # {} /\ ~skipped)
                               THEN AddEntries(registry[h], f.software, paths, UNION versions)
                               ELSE registry[h]
  BY DEF Load
<1>2. paths # {} <=> h \in {c[2] : c \in {d \in ToSet(f.paths) : d[1] # <<>>}}
  OBVIOUS
<1>3. versions # {} <=> h \in {v[1] : v \in ToSet(f.versions)}
  OBVIOUS
<1>4. h \in Claims(f) <=> paths # {} \/ (versions # {} /\ h \notin EmptyPathHashes(f))
  BY <1>2, <1>3 DEF Claims
<1> HIDE DEF paths, versions
<1>5. CASE paths # {} \/ (versions # {} /\ ~skipped)
  BY <1>1, <1>4, <1>5 DEF Listing
<1>6. CASE ~(paths # {} \/ (versions # {} /\ ~skipped))
  BY <1>1, <1>4, <1>6
<1> QED
  BY <1>5, <1>6

LEMMA RecordsMore ==
  ASSUME NEW f \in Files, NEW h \in Hashes, NEW L \in SUBSET Files, DOMAIN registry = Hashes,
         IsIdentity(registry[h]), Records(registry[h], h, L)
  PROVE  IsIdentity(Load(registry, f)[h]) /\ Records(Load(registry, f)[h], h, L \cup {f})
<1> DEFINE old == registry[h]
           new == Load(registry, f)[h]
<1>1. CASE new = old /\ h \notin Claims(f)
  BY <1>1 DEF Records
<1>2. ASSUME NEW ps, NEW vs, new = AddEntries(old, f.software, ps, vs),
             h \in Listing(f), old = Unknown => h \in Claims(f)
      PROVE  IsIdentity(new) /\ Records(new, h, L \cup {f})
  <2>1. /\ IsIdentity(new)
        /\ old = Unknown => new.software = f.software
        /\ old.software = f.software => new.software = f.software
        /\ old # Unknown /\ old.software # f.software => new = Dropped
    BY <1>2, EntriesFacts
  <2> HIDE DEF new, old
  <2>2. CASE old = Unknown /\ \A g \in L : h \notin Claims(g)
    BY <1>2, <2>1, <2>2, Markers DEF Records
  <2>3. CASE old = Dropped /\ \E g, k \in L : /\ g.software # k.software
                                              /\ h \in Listing(g) /\ h \in Listing(k)
    <3>1. new = Dropped
      BY <2>1, <2>3, Markers
    <3> QED
      BY <2>1, <2>3, <3>1 DEF Records
  <2>4. CASE /\ old.software \in Software
             /\ \E g \in L : h \in Claims(g) /\ g.software = old.software
             /\ \A g \in L : h \in Claims(g) => g.software = old.software
    <3>1. old # Unknown
      BY <2>4, Markers
    <3>2. CASE old.software = f.software
      BY <2>1, <2>4, <3>2, Markers DEF Records
    <3>3. CASE old.software # f.software
      <4>1. new = Dropped
        BY <2>1, <3>1, <3>3
      <4>2. PICK g \in L : h \in Claims(g) /\ g.software = old.software
        BY <2>4
      <4>3. h \in Listing(g)
        BY <4>2 DEF Listing
      <4> QED
        BY <1>2, <2>1, <3>3, <4>1, <4>2, <4>3 DEF Records
    <3> QED
      BY <3>2, <3>3
  <2> QED
    BY <2>2, <2>3, <2>4 DEF Records, old
<1>3. CASE \E ps, vs : new = AddEntries(old, f.software, ps, vs)
  <2>1. PICK ps, vs : new = AddEntries(old, f.software, ps, vs)
    BY <1>3
  <2>2. CASE h \in Listing(f) /\ (old = Unknown => h \in Claims(f))
    BY <1>2, <2>1, <2>2
  <2> QED
    BY <1>1, <2>2, LoadFacts
<1> QED
  BY <1>1, <1>3, LoadFacts

LEMMA InitRegistry == Init => RegistryInv
<1> SUFFICES ASSUME Init
             PROVE  RegistryInv
  OBVIOUS
<1> DEFINE n == Cardinality(Files)
<1>1. IsFiniteSet(Files) /\ n \in Nat
  BY WebAssumption, FS_CardinalityType
<1>2. toLoad \in [1 .. n -> Files] /\ \A i, j \in 1 .. n : i # j => toLoad[i] # toLoad[j]
  BY DEF Init, SetToSeqs
<1>3. Cardinality(1 .. n) = n
  BY <1>1, FS_Interval
<1> HIDE DEF n
<1>4. toLoad \in Seq(Files) /\ Len(toLoad) = n /\ DOMAIN toLoad = 1 .. n
  BY <1>1, <1>2
<1>5. toLoad \in Injection(1 .. n, Files)
  BY <1>2 DEF Injection, IsInjective
<1>6. toLoad \in Surjection(1 .. n, Files)
  BY <1>1, <1>3, <1>5, FS_Injection DEF n
<1>7. Loaded = {}
  BY <1>4, <1>6 DEF Loaded, ToSet, Surjection
<1> QED
  BY <1>2, <1>4, <1>7, Markers DEF Init, RegistryInv, Records

LEMMA StepRegistry == RegistryInv /\ [Next]_vars => RegistryInv'
<1> SUFFICES ASSUME RegistryInv, [Next]_vars
             PROVE  RegistryInv'
  OBVIOUS
<1>1. CASE UNCHANGED <<toLoad, registry>> /\ (module' = "ready" => module = "ready" \/ toLoad = <<>>)
  <2>1. Loaded' = Loaded
    BY <1>1 DEF Loaded
  <2>2. module' = "ready" => toLoad' = <<>>
    BY <1>1 DEF RegistryInv
  <2> QED
    BY <1>1, <2>1, <2>2 DEF RegistryInv
<1>2. CASE /\ module' = module /\ module = "loading" /\ toLoad # <<>>
           /\ registry' = Load(registry, Head(toLoad)) /\ toLoad' = Tail(toLoad)
  <2> DEFINE f == Head(toLoad)
  <2>1. /\ toLoad \in Seq(Files) /\ Len(toLoad) \in Nat \ {0} /\ f = toLoad[1] /\ f \in Files
        /\ Len(toLoad') = Len(toLoad) - 1
        /\ \A i \in 1 .. Len(toLoad') : toLoad'[i] = toLoad[i + 1]
        /\ toLoad' \in Seq(Files)
    BY <1>2 DEF RegistryInv
  <2>2. \A i, j \in 1 .. Len(toLoad') : i # j => toLoad'[i] # toLoad'[j]
    <3> SUFFICES ASSUME NEW i \in 1 .. Len(toLoad'), NEW j \in 1 .. Len(toLoad'), i # j
                 PROVE  toLoad'[i] # toLoad'[j]
      OBVIOUS
    <3>1. i + 1 \in 1 .. Len(toLoad) /\ j + 1 \in 1 .. Len(toLoad) /\ i + 1 # j + 1
      BY <2>1
    <3> QED
      BY <2>1, <3>1 DEF RegistryInv
  <2>3. ToSet(toLoad') = ToSet(toLoad) \ {f}
    <3>1. DOMAIN toLoad = 1 .. Len(toLoad) /\ DOMAIN toLoad' = 1 .. Len(toLoad')
      BY <2>1
    <3>2. ASSUME NEW x \in ToSet(toLoad')
          PROVE  x \in ToSet(toLoad) /\ x # f
      <4>1. PICK i \in 1 .. Len(toLoad') : x = toLoad'[i]
        BY <3>1 DEF ToSet
      <4>2. i + 1 \in 1 .. Len(toLoad) /\ 1 \in 1 .. Len(toLoad) /\ i + 1 # 1
        BY <2>1
      <4>3. x = toLoad[i + 1] /\ x # toLoad[1]
        BY <2>1, <4>1, <4>2 DEF RegistryInv
      <4> QED
        BY <2>1, <3>1, <4>2, <4>3 DEF ToSet
    <3>3. ASSUME NEW x \in ToSet(toLoad), x # f
          PROVE  x \in ToSet(toLoad')
      <4>1. PICK i \in 1 .. Len(toLoad) : x = toLoad[i]
        BY <3>1 DEF ToSet
      <4>2. i # 1
        BY <2>1, <3>3, <4>1
      <4>3. i - 1 \in 1 .. Len(toLoad') /\ (i - 1) + 1 = i
        BY <2>1, <4>2
      <4>4. toLoad'[i - 1] = x
        BY <2>1, <4>1, <4>3
      <4> QED
        BY <3>1, <4>3, <4>4 DEF ToSet
    <3> QED
      BY <3>2, <3>3
  <2>4. Loaded' = Loaded \cup {f}
    BY <2>1, <2>3 DEF Loaded
  <2>5. DOMAIN registry' = Hashes
    BY <1>2 DEF Load
  <2>6. \A h \in Hashes : IsIdentity(registry'[h]) /\ Records(registry'[h], h, Loaded \cup {f})
    <3>1. Loaded \subseteq Files
      BY DEF Loaded
    <3> QED
      BY <1>2, <2>1, <3>1, RecordsMore DEF RegistryInv
  <2> HIDE DEF f
  <2>7. module' = "ready" => toLoad' = <<>>
    BY <1>2
  <2> QED
    BY <2>1, <2>2, <2>4, <2>5, <2>6, <2>7 DEF RegistryInv
<1>3. CASE LoadFile
  BY <1>1, <1>2, <1>3 DEF LoadFile
<1>4. CASE UNCHANGED <<toLoad, registry, module>>
  BY <1>1, <1>4
<1>5. \/ LoadFile
      \/ UNCHANGED <<toLoad, registry, module>>
  BY DEF Next, Fingerprint, CrawlFails, CrawlEnds, AddVisited, Match, Keep, Terminated,
         vars, webVars
<1> QED
  BY <1>3, <1>4, <1>5

\* For any signature files, loaded in any order: a hash identifies an application
\* only if no other claims it, and finds its only claimant if nobody else lists it.
THEOREM RegistryIsExact == Spec => []RegistryExact
<1>1. RegistryInv => RegistryExact
  <2> SUFFICES ASSUME RegistryInv, module = "ready", NEW h \in Hashes
               PROVE  LET listing == {f.software : f \in {g \in Files : h \in Listing(g)}}
                      IN  /\ registry[h] \notin {Unknown, Dropped} =>
                               Claimants(h) = {registry[h].software}
                          /\ listing = Claimants(h) /\ Cardinality(listing) = 1 =>
                               registry[h].software \in listing
    BY DEF RegistryExact, Listing
  <2> DEFINE listing == {f.software : f \in {g \in Files : h \in Listing(g)}}
  <2>1. Loaded = Files
    BY DEF RegistryInv, Loaded, ToSet
  <2>2. Records(registry[h], h, Files)
    BY <2>1 DEF RegistryInv
  <2>3. registry[h] \notin {Unknown, Dropped} => Claimants(h) = {registry[h].software}
    BY <2>2 DEF Records, Claimants
  <2>4. ASSUME listing = Claimants(h), Cardinality(listing) = 1
        PROVE  registry[h].software \in listing
    <3>1. listing # {}
      BY <2>4, FS_EmptySet
    <3>2. registry[h] # Unknown
      <4>1. PICK f \in Files : h \in Claims(f)
        BY <2>4, <3>1 DEF Claimants
      <4> QED
        BY <2>2, <4>1, Markers DEF Records
    <3>3. \A x, y \in listing : x = y
      <4> DEFINE lists == {g \in Files : h \in Listing(g)}
                 name == [f \in lists |-> f.software]
      <4>1. IsFiniteSet(lists)
        BY WebAssumption, FS_Subset
      <4>2. name \in Surjection(lists, listing)
        BY DEF Surjection
      <4>3. IsFiniteSet(listing)
        BY <4>1, <4>2, FS_Surjection
      <4> HIDE DEF listing
      <4> QED
        BY <2>4, <4>3, FS_Singleton
    <3>4. registry[h] # Dropped
      BY <2>2, <3>3, Markers DEF Records
    <3> QED
      BY <2>2, <2>4, <3>2, <3>4 DEF Records, Claimants
  <2> QED
    BY <2>3, <2>4
<1> QED
  BY <1>1, InitRegistry, StepRegistry, PTL DEF Spec
=============================================================================
