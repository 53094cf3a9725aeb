---------------------------- MODULE RunnerProofs ----------------------------
(***************************************************************************)
(* Proofs about SimpleRunner: whatever its goroutines, failures of modules *)
(* and cancellations do, the report of a scan holds each service that was  *)
(* found and not removed, once, every one of them seen by every detector,  *)
(* and exactly the findings that the detectors returned; and about the     *)
(* process around it: what it leaves behind, however it ends.              *)
(***************************************************************************)
EXTENDS Runner, Scanner, FiniteSetTheorems, SequenceTheorems, TLAPS

Report == [svc : Services, det : Nat, good : BOOLEAN]

Item == Services \cup Report

Task == [svc : Services, mod : Nat \ {0}, todo : Seq(Services), acc : Seq(Item),
         pc : {"check", "call", "append", "fail", "exited"}]

RunType ==
  /\ fingerprinters \in Nat
  /\ detectors \in Nat
  /\ degraded \in BOOLEAN
  /\ phase \in {"setup", "portscan", "fingerprint", "detect", "returned"}
  /\ step \in {"check", "go"}
  /\ stage \in {"fingerprint", "detect"}
  /\ groupErr \in BOOLEAN
  /\ failed \in BOOLEAN
  /\ input \in Seq(Services)
  /\ tasks \in Seq(Task)
  /\ results \in Seq(Item)
  /\ found \in Seq(Services)
  /\ ret \in [kind : {"none", "error", "ok"}, status : {"none", "partial", "succeeded"},
             services : Seq(Services), findings : SUBSET Report, alive : BOOLEAN]
  /\ dropped \in SUBSET Services

-----------------------------------------------------------------------------
(* Services that were split from the same one.                             *)

\* Neither is the other, nor descends from it.
Apart(x, y) == ~Descends(x, y) /\ ~Descends(y, x)

PrefixFree(s) == \A i, j \in 1 .. Len(s) : i # j => Apart(s[i], s[j])

\* What descends from the k-th service of the port scan.
Of(k) == {x \in Services : Len(x) >= 1 /\ x[1] = k}

Distinct(s) == \A i, j \in 1 .. Len(s) : i # j => s[i] # s[j]

-----------------------------------------------------------------------------
(* The inductive invariant.                                                *)

\* runConcurrent has started a goroutine for each of the first services.
Started ==
  /\ Len(tasks) <= Len(input)
  /\ step = "go" => Running /\ Len(tasks) < Len(input)
  /\ \A k \in 1 .. Len(tasks) : tasks[k].svc = input[k]
  /\ phase \in {"setup", "portscan"} => tasks = <<>> /\ input = <<>>

\* The stage of the goroutines is the one Run is in, or was when it returned.
Staged ==
  /\ phase \in {"setup", "portscan", "fingerprint"} => stage = "fingerprint"
  /\ phase = "detect" => stage = "detect"
  /\ phase \in {"setup", "portscan"} => found = <<>> /\ results = <<>> /\ ~groupErr
  /\ phase # "returned" => ret.kind = "none"

Numbered == \A k \in 1 .. Len(found) : found[k] = <<k>>

Noticed == failed => degraded

\* The goroutine of a service that is fingerprinted holds services that descend
\* from it and not from each other, and has lost it only if it was dropped
\* (n fingerprinters; D the services dropped, R those in the results).
Holds(n, k, t, D) ==
  /\ Range(t.todo) \subseteq Of(k) /\ Range(t.acc) \subseteq Of(k)
  /\ PrefixFree(t.todo) /\ PrefixFree(t.acc)
  /\ \A x \in Range(t.todo), y \in Range(t.acc) : Apart(x, y)
  /\ \E x \in Of(k) : x \in Range(t.todo) \cup Range(t.acc) \cup D
  /\ t.mod > n => t.acc = <<>>

Fingerprints(n, k, t, D, R, err) ==
  /\ t.acc \in Seq(Services)
  /\ t.pc # "exited" => Holds(n, k, t, D)
  /\ t.pc = "call" => t.todo # <<>> /\ t.mod <= n
  /\ t.pc = "append" => t.mod > n
  /\ t.pc = "exited" => err \/ \E x \in Of(k) : x \in R \cup D

Fingerprinting ==
  stage = "fingerprint" =>
    /\ reported = {}
    /\ results \in Seq(Services)
    /\ Distinct(results)
    /\ fingerprinters = 0 => input = <<>> /\ results = found
    /\ fingerprinters # 0 =>
         /\ input = found
         /\ \A x \in Range(results) :
              \E k \in 1 .. Len(tasks) : tasks[k].pc = "exited" /\ x \in Of(k)
    /\ \A k \in 1 .. Len(tasks) :
          Fingerprints(fingerprinters, k, tasks[k], dropped, Range(results), groupErr)

\* Every service found has reached the report, or was dropped.
ReportKept ==
  /\ \A s \in Range(found) : \E x \in Range(ret.services) \cup dropped : Descends(x, s)
  /\ Distinct(ret.services)

\* A goroutine has shown its service to the detectors up to the current one
\* (n detectors; S the detections so far).
Shown(n, t, S, err) ==
  /\ t.acc \in Seq(Report)
  /\ t.pc # "exited" => t.todo = <<t.svc>>
  /\ \A d \in 1 .. n : d < t.mod \/ (d = t.mod /\ t.pc = "call") => <<d, t.svc>> \in S
  /\ t.pc = "call" => t.mod <= n
  /\ t.pc = "append" => t.mod > n
  /\ t.pc = "exited" => err \/ t.mod > n

\* What the detectors reported is in the results or with a goroutine.
Pending(r) == \E k \in 1 .. Len(tasks) : tasks[k].pc # "exited" /\ r \in Range(tasks[k].acc)

Detecting ==
  stage = "detect" =>
    /\ results \in Seq(Report)
    /\ phase = "detect" => ReportKept /\ input = IF detectors = 0 THEN <<>> ELSE ret.services
    /\ \A k \in 1 .. Len(tasks) : Shown(detectors, tasks[k], detected, groupErr)
    /\ ~groupErr => \A r : r \in reported <=> r \in Range(results) \/ Pending(r)

\* A report is only made when all is done, and nothing changes afterwards.
Final ==
  ret.kind = "ok" =>
    /\ phase = "returned"
    /\ Active = {}
    /\ ServicesExact
    /\ FindingsExact

RunnerInv ==
  /\ RunType
  /\ Started
  /\ Staged
  /\ Numbered
  /\ Noticed
  /\ Fingerprinting
  /\ Detecting
  /\ Final

-----------------------------------------------------------------------------
(* Sequences of services.                                                  *)

LEMMA DescendsDef ==
  ASSUME NEW x \in Services, NEW s \in Services
  PROVE  Descends(x, s) <=> Len(x) >= Len(s) /\ \A i \in 1 .. Len(s) : x[i] = s[i]
<1>1. x \in Seq(Nat) /\ s \in Seq(Nat) /\ Len(x) \in Nat /\ Len(s) \in Nat
  BY DEF Services
<1>2. SUFFICES ASSUME Len(x) >= Len(s)
               PROVE  SubSeq(x, 1, Len(s)) = s <=> \A i \in 1 .. Len(s) : x[i] = s[i]
  BY DEF Descends
<1> DEFINE p == SubSeq(x, 1, Len(s))
<1>3. p \in Seq(Nat) /\ Len(p) = Len(s) /\ \A i \in 1 .. Len(s) : p[i] = x[i]
  BY <1>1, <1>2
<1> HIDE DEF p
<1>4. (\A i \in 1 .. Len(s) : x[i] = s[i]) => p = s
  BY <1>1, <1>3, SeqEqual
<1> QED
  BY <1>3, <1>4 DEF p

LEMMA DescendsSelf ==
  ASSUME NEW x \in Services
  PROVE  Descends(x, x)
<1>1. Len(x) \in Nat
  BY DEF Services
<1> QED
  BY <1>1, DescendsDef

\* What descends from one of two services that are apart is apart from the other.
LEMMA ApartInherited ==
  ASSUME NEW x \in Services, NEW y \in Services, NEW z \in Services,
         Apart(x, y), Descends(z, x)
  PROVE  Apart(z, y)
<1>1. Len(x) \in Nat /\ Len(y) \in Nat /\ Len(z) \in Nat
  BY DEF Services
<1>2. Len(z) >= Len(x) /\ \A i \in 1 .. Len(x) : z[i] = x[i]
  BY DescendsDef
<1>3. ASSUME Descends(z, y)
      PROVE  FALSE
  <2>1. Len(z) >= Len(y) /\ \A i \in 1 .. Len(y) : z[i] = y[i]
    BY <1>3, DescendsDef
  <2>2. CASE Len(x) <= Len(y)
    <3>1. \A i \in 1 .. Len(x) : y[i] = x[i]
      BY <1>1, <1>2, <2>1, <2>2
    <3>2. Descends(y, x)
      BY <1>1, <2>2, <3>1, DescendsDef
    <3> QED
      BY <3>2 DEF Apart
  <2>3. CASE Len(y) <= Len(x)
    <3>1. \A i \in 1 .. Len(y) : x[i] = y[i]
      BY <1>1, <1>2, <2>1, <2>3
    <3>2. Descends(x, y)
      BY <1>1, <2>3, <3>1, DescendsDef
    <3> QED
      BY <3>2 DEF Apart
  <2> QED
    BY <1>1, <2>2, <2>3
<1>4. ASSUME Descends(y, z)
      PROVE  FALSE
  <2>1. Len(y) >= Len(z) /\ \A i \in 1 .. Len(z) : y[i] = z[i]
    BY <1>4, DescendsDef
  <2>2. \A i \in 1 .. Len(x) : y[i] = x[i]
    BY <1>1, <1>2, <2>1
  <2>3. Descends(y, x)
    BY <1>1, <1>2, <2>1, <2>2, DescendsDef
  <2> QED
    BY <2>3 DEF Apart
<1> QED
  BY <1>3, <1>4 DEF Apart

LEMMA OfInherited ==
  ASSUME NEW k, NEW x \in Of(k), NEW z \in Services, Descends(z, x)
  PROVE  z \in Of(k)
<1>1. x \in Services /\ Len(x) >= 1 /\ x[1] = k
  BY DEF Of
<1>2. Len(x) \in Nat /\ Len(z) \in Nat
  BY <1>1 DEF Services
<1>3. Len(z) >= Len(x) /\ \A i \in 1 .. Len(x) : z[i] = x[i]
  BY <1>1, DescendsDef
<1>4. Len(z) >= 1 /\ 1 \in 1 .. Len(x)
  BY <1>1, <1>2, <1>3
<1> QED
  BY <1>1, <1>3, <1>4 DEF Of

LEMMA OfDescends ==
  ASSUME NEW k \in Nat, NEW x \in Of(k)
  PROVE  Descends(x, <<k>>)
<1>1. x \in Services /\ Len(x) >= 1 /\ x[1] = k
  BY DEF Of
<1>2. <<k>> \in Services /\ Len(<<k>>) = 1 /\ <<k>>[1] = k
  BY DEF Services
<1>3. \A i \in 1 .. 1 : x[i] = <<k>>[i]
  BY <1>1, <1>2
<1> QED
  BY <1>1, <1>2, <1>3, DescendsDef

\* Range, for a sequence.
LEMMA RangeDef ==
  ASSUME NEW S, NEW s \in Seq(S)
  PROVE  /\ Range(s) = {s[i] : i \in 1 .. Len(s)}
         /\ Range(s) \subseteq S
         /\ \A i \in 1 .. Len(s) : s[i] \in Range(s)
         /\ \A x \in Range(s) : \E i \in 1 .. Len(s) : x = s[i]
BY DEF Range

LEMMA RangeConcat ==
  ASSUME NEW S, NEW s \in Seq(S), NEW t \in Seq(S)
  PROVE  Range(s \o t) = Range(s) \cup Range(t)
<1>1. /\ s \o t \in Seq(S) /\ Len(s \o t) = Len(s) + Len(t)
      /\ \A i \in 1 .. Len(s) : (s \o t)[i] = s[i]
      /\ \A i \in 1 .. Len(t) : (s \o t)[Len(s) + i] = t[i]
      /\ Len(s) \in Nat /\ Len(t) \in Nat
  OBVIOUS
<1>2. ASSUME NEW i \in 1 .. Len(s) + Len(t)
      PROVE  \/ i \in 1 .. Len(s)
             \/ i - Len(s) \in 1 .. Len(t) /\ Len(s) + (i - Len(s)) = i
  BY <1>1
<1> DEFINE u == s \o t
<1> HIDE DEF u
<1>5. /\ u \in Seq(S) /\ Len(u) = Len(s) + Len(t)
      /\ \A i \in 1 .. Len(u) : u[i] \in Range(u)
      /\ \A x \in Range(u) : \E i \in 1 .. Len(u) : x = u[i]
  <2>1. u \in Seq(S) /\ Len(u) = Len(s) + Len(t)
    BY <1>1 DEF u
  <2> QED
    BY <2>1, RangeDef
<1>3. ASSUME NEW x \in Range(u)
      PROVE  x \in Range(s) \cup Range(t)
  <2>1. PICK i \in 1 .. Len(s) + Len(t) : x = u[i]
    BY <1>5
  <2>2. CASE i \in 1 .. Len(s)
    BY <1>1, <2>1, <2>2, RangeDef DEF u
  <2>3. CASE i - Len(s) \in 1 .. Len(t) /\ Len(s) + (i - Len(s)) = i
    <3>1. u[i] = t[i - Len(s)]
      BY <1>1, <2>3 DEF u
    <3> QED
      BY <2>1, <2>3, <3>1, RangeDef
  <2> QED
    BY <1>2, <2>1, <2>2, <2>3
<1>4. ASSUME NEW x \in Range(s) \cup Range(t)
      PROVE  x \in Range(u)
  <2>1. CASE x \in Range(s)
    <3>1. PICK i \in 1 .. Len(s) : x = s[i]
      BY <2>1, RangeDef
    <3>2. i \in 1 .. Len(u) /\ u[i] = x
      BY <1>1, <3>1 DEF u
    <3> QED
      BY <1>5, <3>2
  <2>2. CASE x \in Range(t)
    <3>1. PICK i \in 1 .. Len(t) : x = t[i]
      BY <2>2, RangeDef
    <3>2. Len(s) + i \in 1 .. Len(u) /\ u[Len(s) + i] = x
      BY <1>1, <3>1 DEF u
    <3> QED
      BY <1>5, <3>2
  <2> QED
    BY <2>1, <2>2
<1> QED
  BY <1>3, <1>4 DEF u

LEMMA RangeTail ==
  ASSUME NEW S, NEW s \in Seq(S), s # <<>>
  PROVE  /\ Tail(s) \in Seq(S)
         /\ Head(s) \in Range(s)
         /\ Range(Tail(s)) \subseteq Range(s)
         /\ \A x \in Range(s) : x = Head(s) \/ x \in Range(Tail(s))
<1>1. /\ Len(s) \in Nat /\ Len(s) >= 1
      /\ Head(s) = s[1]
      /\ Tail(s) \in Seq(S) /\ Len(Tail(s)) = Len(s) - 1
      /\ \A i \in 1 .. Len(Tail(s)) : Tail(s)[i] = s[i + 1]
  BY HeadTailProperties, EmptySeq
<1>2. Head(s) \in Range(s)
  BY <1>1, RangeDef
<1>3. ASSUME NEW x \in Range(Tail(s))
      PROVE  x \in Range(s)
  <2>1. PICK i \in 1 .. Len(Tail(s)) : x = Tail(s)[i]
    BY <1>1, RangeDef
  <2>2. i + 1 \in 1 .. Len(s) /\ x = s[i + 1]
    BY <1>1, <2>1
  <2> QED
    BY <2>2, RangeDef
<1>4. ASSUME NEW x \in Range(s), x # Head(s)
      PROVE  x \in Range(Tail(s))
  <2>1. PICK i \in 1 .. Len(s) : x = s[i]
    BY RangeDef
  <2>2. i # 1
    BY <1>1, <1>4, <2>1
  <2>3. i - 1 \in 1 .. Len(Tail(s)) /\ Tail(s)[i - 1] = s[(i - 1) + 1] /\ (i - 1) + 1 = i
    BY <1>1, <2>1, <2>2
  <2> QED
    BY <1>1, <2>1, <2>3, RangeDef
<1> QED
  BY <1>1, <1>2, <1>3, <1>4

LEMMA PrefixFreeTail ==
  ASSUME NEW s \in Seq(Services), s # <<>>, PrefixFree(s)
  PROVE  /\ PrefixFree(Tail(s))
         /\ \A x \in Range(Tail(s)) : Apart(x, Head(s))
<1>1. /\ Len(s) \in Nat /\ Len(s) >= 1
      /\ Head(s) = s[1]
      /\ Tail(s) \in Seq(Services) /\ Len(Tail(s)) = Len(s) - 1
      /\ \A i \in 1 .. Len(Tail(s)) : Tail(s)[i] = s[i + 1]
  BY HeadTailProperties, EmptySeq
<1>2. \A i \in 1 .. Len(Tail(s)) : i + 1 \in 1 .. Len(s) /\ i + 1 # 1
  BY <1>1
<1>3. PrefixFree(Tail(s))
  <2> SUFFICES ASSUME NEW i \in 1 .. Len(Tail(s)), NEW j \in 1 .. Len(Tail(s)), i # j
               PROVE  Apart(Tail(s)[i], Tail(s)[j])
    BY DEF PrefixFree
  <2>1. i + 1 # j + 1
    OBVIOUS
  <2>2. Apart(s[i + 1], s[j + 1])
    BY <1>2, <2>1 DEF PrefixFree
  <2> QED
    BY <1>1, <2>2
<1>4. ASSUME NEW x \in Range(Tail(s))
      PROVE  Apart(x, Head(s))
  <2>1. PICK i \in 1 .. Len(Tail(s)) : x = Tail(s)[i]
    BY <1>1, RangeDef
  <2>2. Apart(s[i + 1], s[1])
    BY <1>1, <1>2 DEF PrefixFree
  <2> QED
    BY <1>1, <2>1, <2>2
<1> QED
  BY <1>3, <1>4

LEMMA PrefixFreeConcat ==
  ASSUME NEW s \in Seq(Services), NEW t \in Seq(Services), PrefixFree(s), PrefixFree(t),
         \A x \in Range(s), y \in Range(t) : Apart(x, y)
  PROVE  PrefixFree(s \o t)
<1> DEFINE u == s \o t
<1>1. /\ Len(s) \in Nat /\ Len(t) \in Nat /\ Len(u) = Len(s) + Len(t)
      /\ \A i \in 1 .. Len(s) : u[i] = s[i]
      /\ \A i \in 1 .. Len(t) : u[Len(s) + i] = t[i]
  OBVIOUS
<1> HIDE DEF u
<1>2. ASSUME NEW i \in 1 .. Len(u)
      PROVE  \/ i \in 1 .. Len(s)
             \/ i - Len(s) \in 1 .. Len(t) /\ Len(s) + (i - Len(s)) = i
  BY <1>1
<1>3. /\ \A i \in 1 .. Len(s) : s[i] \in Range(s)
      /\ \A i \in 1 .. Len(t) : t[i] \in Range(t)
  BY RangeDef
<1>4. ASSUME NEW i \in 1 .. Len(u), NEW j \in 1 .. Len(u), i # j
      PROVE  Apart(u[i], u[j])
  <2>1. CASE i \in 1 .. Len(s) /\ j \in 1 .. Len(s)
    BY <1>1, <1>4, <2>1 DEF PrefixFree
  <2>2. CASE i \in 1 .. Len(s) /\ j - Len(s) \in 1 .. Len(t) /\ Len(s) + (j - Len(s)) = j
    <3>1. u[i] = s[i] /\ u[j] = t[j - Len(s)]
      BY <1>1, <2>2
    <3> QED
      BY <1>3, <2>2, <3>1
  <2>3. CASE i - Len(s) \in 1 .. Len(t) /\ Len(s) + (i - Len(s)) = i /\ j \in 1 .. Len(s)
    <3>1. u[j] = s[j] /\ u[i] = t[i - Len(s)]
      BY <1>1, <2>3
    <3> QED
      BY <1>3, <2>3, <3>1 DEF Apart
  <2>4. CASE /\ i - Len(s) \in 1 .. Len(t) /\ Len(s) + (i - Len(s)) = i
             /\ j - Len(s) \in 1 .. Len(t) /\ Len(s) + (j - Len(s)) = j
    <3>1. u[i] = t[i - Len(s)] /\ u[j] = t[j - Len(s)]
      BY <1>1, <2>4
    <3>2. i - Len(s) # j - Len(s)
      BY <1>1, <1>4
    <3> QED
      BY <2>4, <3>1, <3>2 DEF PrefixFree
  <2> QED
    BY <1>2, <2>1, <2>2, <2>3, <2>4
<1> QED
  BY <1>4 DEF PrefixFree, u

LEMMA PrefixFreeDistinct ==
  ASSUME NEW s \in Seq(Services), PrefixFree(s)
  PROVE  Distinct(s)
<1> SUFFICES ASSUME NEW i \in 1 .. Len(s), NEW j \in 1 .. Len(s), i # j, s[i] = s[j]
             PROVE  FALSE
  BY DEF Distinct
<1>1. s[j] \in Services
  BY ElementOfSeq
<1>2. Descends(s[i], s[j])
  BY <1>1, DescendsSelf
<1>3. Apart(s[i], s[j])
  BY DEF PrefixFree
<1> QED
  BY <1>2, <1>3 DEF Apart

LEMMA DistinctConcat ==
  ASSUME NEW S, NEW s \in Seq(S), NEW t \in Seq(S), Distinct(s), Distinct(t),
         Range(s) \cap Range(t) = {}
  PROVE  Distinct(s \o t)
<1> DEFINE u == s \o t
<1>1. /\ Len(s) \in Nat /\ Len(t) \in Nat /\ Len(u) = Len(s) + Len(t)
      /\ \A i \in 1 .. Len(s) : u[i] = s[i]
      /\ \A i \in 1 .. Len(t) : u[Len(s) + i] = t[i]
  OBVIOUS
<1> HIDE DEF u
<1>2. ASSUME NEW i \in 1 .. Len(u)
      PROVE  \/ i \in 1 .. Len(s)
             \/ i - Len(s) \in 1 .. Len(t) /\ Len(s) + (i - Len(s)) = i
  BY <1>1
<1>3. /\ \A i \in 1 .. Len(s) : s[i] \in Range(s)
      /\ \A i \in 1 .. Len(t) : t[i] \in Range(t)
  BY RangeDef
<1>4. ASSUME NEW i \in 1 .. Len(u), NEW j \in 1 .. Len(u), i # j
      PROVE  u[i] # u[j]
  <2>1. CASE i \in 1 .. Len(s) /\ j \in 1 .. Len(s)
    BY <1>1, <1>4, <2>1 DEF Distinct
  <2>2. CASE i \in 1 .. Len(s) /\ j - Len(s) \in 1 .. Len(t) /\ Len(s) + (j - Len(s)) = j
    <3>1. u[i] = s[i] /\ u[j] = t[j - Len(s)]
      BY <1>1, <2>2
    <3> QED
      BY <1>3, <2>2, <3>1
  <2>3. CASE i - Len(s) \in 1 .. Len(t) /\ Len(s) + (i - Len(s)) = i /\ j \in 1 .. Len(s)
    <3>1. u[j] = s[j] /\ u[i] = t[i - Len(s)]
      BY <1>1, <2>3
    <3> QED
      BY <1>3, <2>3, <3>1
  <2>4. CASE /\ i - Len(s) \in 1 .. Len(t) /\ Len(s) + (i - Len(s)) = i
             /\ j - Len(s) \in 1 .. Len(t) /\ Len(s) + (j - Len(s)) = j
    <3>1. u[i] = t[i - Len(s)] /\ u[j] = t[j - Len(s)]
      BY <1>1, <2>4
    <3>2. i - Len(s) # j - Len(s)
      BY <1>1, <1>4
    <3> QED
      BY <2>4, <3>1, <3>2 DEF Distinct
  <2> QED
    BY <1>2, <2>1, <2>2, <2>3, <2>4
<1> QED
  BY <1>4 DEF Distinct, u

\* A sequence without repetitions is as long as the set of its elements is large.
LEMMA DistinctCount ==
  ASSUME NEW S, NEW s \in Seq(S), Distinct(s)
  PROVE  Cardinality(Range(s)) = Len(s)
<1>1. Len(s) \in Nat /\ s \in [1 .. Len(s) -> S]
  OBVIOUS
<1>2. s \in Bijection(1 .. Len(s), Range(s))
  <2>1. s \in [1 .. Len(s) -> Range(s)]
    BY <1>1, RangeDef
  <2>2. s \in Injection(1 .. Len(s), Range(s))
    <3>1. \A i, j \in 1 .. Len(s) : s[i] = s[j] => i = j
      BY DEF Distinct
    <3> QED
      BY <2>1, <3>1 DEF Injection, IsInjective
  <2>3. s \in Surjection(1 .. Len(s), Range(s))
    BY <2>1, RangeDef DEF Surjection
  <2> QED
    BY <2>2, <2>3 DEF Bijection
<1>3. ExistsBijection(1 .. Len(s), Range(s))
  BY <1>2 DEF ExistsBijection
<1> QED
  BY <1>1, <1>3, FS_CountingElements

\* What a fingerprinter makes of a service, if it does not remove it, descends
\* from it; services it was split into are apart.
LEMMA SplitFacts ==
  ASSUME NEW s \in Services, NEW n \in Nat
  PROVE  /\ Split(s, n) \in Seq(Services)
         /\ n = 0 <=> Split(s, n) = <<>>
         /\ \A x \in Range(Split(s, n)) : Descends(x, s)
         /\ PrefixFree(Split(s, n))
<1>1. CASE n = 1
  <2>1. Split(s, n) = <<s>>
    BY <1>1 DEF Split
  <2>2. <<s>> \in Seq(Services) /\ Len(<<s>>) = 1 /\ <<s>>[1] = s /\ <<s>> # <<>>
    OBVIOUS
  <2>3. \A x \in Range(<<s>>) : x = s
    <3>1. Range(<<s>>) = {<<s>>[i] : i \in 1 .. 1}
      BY <2>2, RangeDef
    <3>2. \A i \in 1 .. 1 : i = 1
      OBVIOUS
    <3> QED
      BY <2>2, <3>1, <3>2
  <2>4. PrefixFree(<<s>>)
    BY <2>2 DEF PrefixFree
  <2> QED
    <3>1. \A x \in Range(<<s>>) : Descends(x, s)
      BY <2>3, DescendsSelf
    <3>2. n # 0
      BY <1>1
    <3> QED
      BY <2>1, <2>2, <2>4, <3>1, <3>2
<1>2. CASE n # 1
  <2> DEFINE u == [i \in 1 .. n |-> Append(s, i)]
  <2>1. Split(s, n) = u
    BY <1>2 DEF Split
  <2>2. s \in Seq(Nat) /\ Len(s) \in Nat
    BY DEF Services
  <2>3. ASSUME NEW i \in 1 .. n
        PROVE  /\ Append(s, i) \in Services
               /\ Len(Append(s, i)) = Len(s) + 1
               /\ Append(s, i)[Len(s) + 1] = i
               /\ \A j \in 1 .. Len(s) : Append(s, i)[j] = s[j]
    <3>1. i \in Nat
      OBVIOUS
    <3> QED
      BY <2>2, <3>1, AppendProperties DEF Services
  <2>4. u \in Seq(Services) /\ Len(u) = n /\ \A i \in 1 .. n : u[i] = Append(s, i)
    <3>1. DOMAIN u = 1 .. n /\ \A i \in 1 .. n : u[i] = Append(s, i)
      OBVIOUS
    <3>2. u \in [1 .. n -> Services]
      BY <2>3
    <3>3. u \in Seq(Services) /\ Len(u) = n
      BY <3>1, <3>2, LenProperties
    <3> QED
      BY <3>1, <3>3
  <2> HIDE DEF u
  <2>5. \A i \in 1 .. n : Descends(u[i], s)
    <3> SUFFICES ASSUME NEW i \in 1 .. n
                 PROVE  Descends(Append(s, i), s)
      BY <2>4
    <3>1. Len(s) + 1 >= Len(s)
      BY <2>2
    <3> QED
      BY <2>3, <3>1, DescendsDef
  <2>6. \A x \in Range(u) : Descends(x, s)
    BY <2>4, <2>5, RangeDef
  <2>7. ASSUME NEW i \in 1 .. n, NEW j \in 1 .. n, i # j
        PROVE  ~Descends(Append(s, i), Append(s, j))
    <3>1. Len(s) + 1 \in 1 .. Len(s) + 1
      BY <2>2
    <3>2. Append(s, i)[Len(s) + 1] # Append(s, j)[Len(s) + 1]
      BY <2>3, <2>7
    <3>3. /\ Append(s, i) \in Services /\ Append(s, j) \in Services
          /\ Len(s) + 1 \in 1 .. Len(Append(s, j))
      BY <2>3, <3>1
    <3> QED
      BY <3>2, <3>3, DescendsDef
  <2>8. PrefixFree(u)
    BY <2>4, <2>7 DEF PrefixFree, Apart
  <2>9. n = 0 <=> u = <<>>
    BY <2>4, EmptySeq
  <2> QED
    BY <2>1, <2>4, <2>6, <2>8, <2>9
<1> QED
  BY <1>1, <1>2

-----------------------------------------------------------------------------
(* The goroutine of a service.                                             *)

LEMMA TaskTyped ==
  ASSUME NEW t \in Task
  PROVE  /\ t.svc \in Services /\ t.mod \in Nat \ {0}
         /\ t.todo \in Seq(Services) /\ t.acc \in Seq(Item)
         /\ t.pc \in {"check", "call", "append", "fail", "exited"}
BY DEF Task

\* The goroutine t, having come to point.
AtPoint(t, point) == [t EXCEPT !.pc = point]

LEMMA AtFacts ==
  ASSUME NEW t \in Task, NEW point \in {"check", "call", "append", "fail", "exited"}
  PROVE  /\ AtPoint(t, point) \in Task
         /\ AtPoint(t, point).pc = point
         /\ AtPoint(t, point).svc = t.svc
         /\ AtPoint(t, point).mod = t.mod
         /\ AtPoint(t, point).todo = t.todo
         /\ AtPoint(t, point).acc = t.acc
BY DEF Task, AtPoint

LEMMA ItemSeq == Seq(Services) \subseteq Seq(Item) /\ Seq(Report) \subseteq Seq(Item)
<1>1. Services \subseteq Item /\ Report \subseteq Item
  BY DEF Item
<1> HIDE DEF Item
<1> QED
  BY <1>1

\* A module call returns out for the first service that was to be done.
Taken(t, out) == [t EXCEPT !.pc = "check", !.todo = Tail(@), !.acc = @ \o out]

LEMMA TakenFacts ==
  ASSUME NEW S, NEW t \in Task, t.todo # <<>>, t.acc \in Seq(S), NEW out \in Seq(S), S \subseteq Item
  PROVE  /\ Taken(t, out) \in Task
         /\ Taken(t, out).svc = t.svc
         /\ Taken(t, out).mod = t.mod
         /\ Taken(t, out).pc = "check"
         /\ Taken(t, out).todo = Tail(t.todo)
         /\ Taken(t, out).acc = t.acc \o out
         /\ t.acc \o out \in Seq(S)
<1>1. /\ t.svc \in Services /\ t.mod \in Nat \ {0} /\ t.todo \in Seq(Services)
      /\ DOMAIN t = {"svc", "mod", "todo", "acc", "pc"}
  BY DEF Task
<1>2. Tail(t.todo) \in Seq(Services)
  BY <1>1, RangeTail
<1>3. t.acc \o out \in Seq(S) /\ t.acc \o out \in Seq(Item)
  BY ConcatProperties
<1> DEFINE with(b, c) == [t EXCEPT !.pc = "check", !.todo = b, !.acc = c]
<1>4. ASSUME NEW b \in Seq(Services), NEW c \in Seq(Item)
      PROVE  /\ with(b, c) \in Task
             /\ with(b, c).svc = t.svc /\ with(b, c).mod = t.mod
             /\ with(b, c).todo = b /\ with(b, c).acc = c /\ with(b, c).pc = "check"
  BY DEF Task
<1>5. Taken(t, out) = with(Tail(t.todo), t.acc \o out)
  BY <1>1 DEF Taken
<1> HIDE DEF with
<1> DEFINE b == Tail(t.todo)
           c == t.acc \o out
<1>6. b \in Seq(Services) /\ c \in Seq(Item) /\ c \in Seq(S) /\ Taken(t, out) = with(b, c)
  BY <1>2, <1>3, <1>5
<1> HIDE DEF b, c
<1>7. /\ with(b, c) \in Task
      /\ with(b, c).svc = t.svc /\ with(b, c).mod = t.mod
      /\ with(b, c).todo = b /\ with(b, c).acc = c /\ with(b, c).pc = "check"
  BY <1>4, <1>6
<1>8. /\ Taken(t, out) \in Task /\ Taken(t, out).svc = t.svc /\ Taken(t, out).mod = t.mod
      /\ Taken(t, out).todo = b /\ Taken(t, out).acc = c /\ Taken(t, out).pc = "check"
  BY <1>6, <1>7, Zenon
<1> QED
  BY <1>6, <1>8, Zenon DEF b, c

LEMMA TakenHolds ==
  ASSUME NEW n \in Nat, NEW k, NEW D, NEW E, NEW t \in Task, NEW out \in Seq(Services),
         Holds(n, k, t, D), t.acc \in Seq(Services), t.todo # <<>>, t.mod <= n,
         PrefixFree(out), \A x \in Range(out) : Descends(x, Head(t.todo)),
         D \subseteq E, out # <<>> \/ Head(t.todo) \in E
  PROVE  Holds(n, k, Taken(t, out), E)
<1> DEFINE todo == t.todo
           acc == t.acc
           s == Head(todo)
<1>1. todo \in Seq(Services) /\ acc \in Seq(Services) /\ t.mod \in Nat
  BY TaskTyped
<1>2. /\ Taken(t, out).mod = t.mod
      /\ Taken(t, out).todo = Tail(todo)
      /\ Taken(t, out).acc = acc \o out
  BY TakenFacts DEF Item
<1>3. /\ Range(todo) \subseteq Of(k) /\ Range(acc) \subseteq Of(k)
      /\ PrefixFree(todo) /\ PrefixFree(acc)
      /\ \A x \in Range(todo), y \in Range(acc) : Apart(x, y)
      /\ \E x \in Of(k) : x \in Range(todo) \cup Range(acc) \cup D
      /\ todo # <<>>
  BY DEF Holds
<1> HIDE DEF todo, acc
<1>4. /\ Tail(todo) \in Seq(Services)
      /\ s \in Range(todo)
      /\ Range(Tail(todo)) \subseteq Range(todo)
      /\ \A x \in Range(todo) : x = s \/ x \in Range(Tail(todo))
  BY <1>1, <1>3, RangeTail
<1>5. /\ PrefixFree(Tail(todo))
      /\ \A x \in Range(Tail(todo)) : Apart(x, s)
  BY <1>1, <1>3, PrefixFreeTail
<1>6. /\ s \in Of(k) /\ s \in Services
      /\ \A x \in Of(k) : x \in Services
  BY <1>3, <1>4 DEF Of
<1>7. \A x \in Range(out) : x \in Services /\ Descends(x, s) /\ x \in Of(k)
  <2>1. \A x \in Range(out) : x \in Services /\ Descends(x, s)
    BY RangeDef DEF todo
  <2> HIDE DEF s
  <2> QED
    BY <1>6, <2>1, OfInherited
<1> HIDE DEF s
<1>8. Range(acc \o out) = Range(acc) \cup Range(out)
  BY <1>1, RangeConcat
\* The results of the call are apart from whatever was apart from the service.
<1>9. \A x \in Services, y \in Range(out) : Apart(x, s) => Apart(x, y)
  <2> SUFFICES ASSUME NEW x \in Services, NEW y \in Range(out), Apart(x, s)
               PROVE  Apart(x, y)
    OBVIOUS
  <2>1. Apart(s, x)
    BY DEF Apart
  <2>2. Apart(y, x)
    BY <1>6, <1>7, <2>1, ApartInherited
  <2> QED
    BY <2>2 DEF Apart
<1>10. PrefixFree(acc \o out)
  <2>1. \A x \in Range(acc), y \in Range(out) : Apart(x, y)
    <3> SUFFICES ASSUME NEW x \in Range(acc), NEW y \in Range(out)
                 PROVE  Apart(x, y)
      OBVIOUS
    <3>1. Apart(s, x) /\ x \in Services
      BY <1>3, <1>4, <1>6
    <3>2. Apart(x, s)
      BY <3>1 DEF Apart
    <3> QED
      BY <1>9, <3>1, <3>2
  <2> QED
    BY <1>1, <1>3, <2>1, PrefixFreeConcat
<1>11. \A x \in Range(Tail(todo)), y \in Range(acc \o out) : Apart(x, y)
  <2> SUFFICES ASSUME NEW x \in Range(Tail(todo)), NEW y \in Range(acc \o out)
               PROVE  Apart(x, y)
    OBVIOUS
  <2>1. CASE y \in Range(acc)
    BY <1>3, <1>4, <2>1
  <2>2. CASE y \in Range(out)
    <3>1. x \in Services /\ Apart(x, s)
      BY <1>3, <1>4, <1>5, <1>6
    <3> QED
      BY <1>9, <2>2, <3>1
  <2> QED
    BY <1>8, <2>1, <2>2
<1>12. \E x \in Of(k) : x \in Range(Tail(todo)) \cup Range(acc \o out) \cup E
  <2>1. PICK x \in Of(k) : x \in Range(todo) \cup Range(acc) \cup D
    BY <1>3
  <2>2. CASE x = s
    <3>1. CASE out # <<>>
      <4>1. Len(out) \in Nat \ {0}
        BY <3>1, EmptySeq
      <4>2. 1 \in 1 .. Len(out)
        BY <4>1
      <4>3. out[1] \in Range(out)
        BY <4>2, RangeDef
      <4> QED
        BY <1>7, <1>8, <4>3
    <3>2. CASE s \in E
      BY <1>6, <3>2
    <3> QED
      BY <3>1, <3>2 DEF s, todo
  <2>3. CASE x # s
    BY <1>4, <1>8, <2>1, <2>3
  <2> QED
    BY <2>2, <2>3
<1>13. ~(t.mod > n)
  BY <1>1
<1>14. Range(acc \o out) \subseteq Of(k)
  BY <1>3, <1>7, <1>8
<1>15. Range(Tail(todo)) \subseteq Of(k)
  BY <1>3, <1>4
<1> QED
  BY <1>2, <1>5, <1>10, <1>11, <1>12, <1>13, <1>14, <1>15 DEF Holds

\* A goroutine goes on to the next fingerprinter, or stays.
LEMMA AdvanceFingerprint ==
  ASSUME stage = "fingerprint", NEW t \in Task, t.acc \in Seq(Services)
  PROVE  /\ Advance(t) \in Task
         /\ Advance(t).acc \in Seq(Services)
         /\ Advance(t).svc = t.svc
         /\ Advance(t).pc = t.pc
         /\ \A n \in Nat : \A k, D : Holds(n, k, t, D) => Holds(n, k, Advance(t), D)
<1>1. CASE t.todo # <<>>
  <2>1. Advance(t) = t
    BY <1>1 DEF Advance
  <2> QED
    BY <2>1
<1>2. CASE t.todo = <<>>
  <2> DEFINE u == [svc |-> t.svc, mod |-> t.mod + 1, todo |-> t.acc, acc |-> <<>>, pc |-> t.pc]
  <2>1. Advance(t) = [t EXCEPT !.mod = @ + 1, !.todo = t.acc, !.acc = <<>>]
    BY <1>2 DEF Advance
  <2>2. t = [svc |-> t.svc, mod |-> t.mod, todo |-> t.todo, acc |-> t.acc, pc |-> t.pc]
    BY DEF Task
  <2>3. Advance(t) = u
    BY <2>1, <2>2
  <2>4. t.mod + 1 \in Nat \ {0} /\ t.mod \in Nat
    <3>1. t.mod \in Nat \ {0}
      BY TaskTyped
    <3> QED
      BY <3>1
  <2>5. <<>> \in Seq(Item) /\ <<>> \in Seq(Services) /\ Range(<<>>) = {}
    BY EmptySeq DEF Range
  <2>6. u \in Task
    BY <2>4, <2>5, TaskTyped DEF Task
  <2>7. ASSUME NEW n \in Nat, NEW k, NEW D, Holds(n, k, t, D)
        PROVE  Holds(n, k, u, D)
    <3>1. PrefixFree(<<>>)
      BY EmptySeq DEF PrefixFree
    <3>2. Range(t.todo) = {}
      BY <1>2, <2>5
    <3>3. /\ Range(t.acc) \subseteq Of(k) /\ PrefixFree(t.acc)
          /\ \E x \in Of(k) : x \in Range(t.acc) \cup D
      BY <2>7, <3>2 DEF Holds
    <3> QED
      BY <2>5, <3>1, <3>3 DEF Holds
  <2> QED
    BY <2>3, <2>5, <2>6, <2>7
<1> QED
  BY <1>1, <1>2

\* The next detector is shown the same service.
LEMMA AdvanceDetect ==
  ASSUME stage = "detect", NEW t \in Task, t.todo = <<>>
  PROVE  /\ Advance(t) \in Task
         /\ Advance(t).svc = t.svc
         /\ Advance(t).pc = t.pc
         /\ Advance(t).acc = t.acc
         /\ Advance(t).todo = <<t.svc>>
         /\ Advance(t).mod = t.mod + 1
<1>1. Advance(t) = [t EXCEPT !.mod = @ + 1, !.todo = <<t.svc>>]
  BY DEF Advance
<1>2. <<t.svc>> \in Seq(Services) /\ t.mod \in Nat \ {0}
  <2>1. t.svc \in Services /\ t.mod \in Nat \ {0}
    BY TaskTyped
  <2> HIDE DEF Services
  <2> QED
    BY <2>1
<1>3. t.mod + 1 \in Nat \ {0}
  BY <1>2
<1> DEFINE with(b, c) == [t EXCEPT !.mod = b, !.todo = c]
<1>4. ASSUME NEW b \in Nat \ {0}, NEW c \in Seq(Services)
      PROVE  /\ with(b, c) \in Task
             /\ with(b, c).svc = t.svc /\ with(b, c).mod = b
             /\ with(b, c).todo = c /\ with(b, c).acc = t.acc /\ with(b, c).pc = t.pc
  BY DEF Task
<1>5. Advance(t) = with(t.mod + 1, <<t.svc>>)
  BY <1>1 DEF Task
<1> HIDE DEF with
<1>6. /\ with(t.mod + 1, <<t.svc>>) \in Task
      /\ with(t.mod + 1, <<t.svc>>).svc = t.svc /\ with(t.mod + 1, <<t.svc>>).mod = t.mod + 1
      /\ with(t.mod + 1, <<t.svc>>).todo = <<t.svc>> /\ with(t.mod + 1, <<t.svc>>).acc = t.acc
      /\ with(t.mod + 1, <<t.svc>>).pc = t.pc
  BY <1>2, <1>3, <1>4
<1> QED
  BY <1>5, <1>6, Zenon

LEMMA FingerprintsMonotone ==
  ASSUME NEW n, NEW k, NEW t, NEW D, NEW E, NEW R, NEW Q, NEW err \in BOOLEAN, NEW fault \in BOOLEAN,
         Fingerprints(n, k, t, D, R, err), D \subseteq E, R \subseteq Q, err => fault
  PROVE  Fingerprints(n, k, t, E, Q, fault)
<1>1. Holds(n, k, t, D) => Holds(n, k, t, E)
  BY DEF Holds
<1>2. (err \/ \E x \in Of(k) : x \in R \cup D) => (fault \/ \E x \in Of(k) : x \in Q \cup E)
  OBVIOUS
<1>3. /\ t.acc \in Seq(Services)
      /\ t.pc # "exited" => Holds(n, k, t, D)
      /\ t.pc = "call" => t.todo # <<>> /\ t.mod <= n
      /\ t.pc = "append" => t.mod > n
      /\ t.pc = "exited" => err \/ \E x \in Of(k) : x \in R \cup D
  BY DEF Fingerprints
<1> QED
  BY <1>1, <1>2, <1>3, Zenon DEF Fingerprints

LEMMA ShownMonotone ==
  ASSUME NEW n, NEW t, NEW S, NEW T, NEW err \in BOOLEAN, NEW fault \in BOOLEAN,
         Shown(n, t, S, err), S \subseteq T, err => fault
  PROVE  Shown(n, t, T, fault)
BY DEF Shown

LEMMA InvTyped ==
  ASSUME RunType
  PROVE  /\ fingerprinters \in Nat /\ detectors \in Nat
         /\ tasks \in Seq(Task) /\ Len(tasks) \in Nat
         /\ \A k \in 1 .. Len(tasks) : tasks[k] \in Task
         /\ input \in Seq(Services) /\ results \in Seq(Item) /\ found \in Seq(Services)
         /\ dropped \in SUBSET Services
         /\ groupErr \in BOOLEAN /\ degraded \in BOOLEAN /\ failed \in BOOLEAN
         /\ stage \in {"fingerprint", "detect"}
<1>1. tasks \in Seq(Task)
  BY DEF RunType
<1>2. Len(tasks) \in Nat /\ \A k \in 1 .. Len(tasks) : tasks[k] \in Task
  BY <1>1, ElementOfSeq, LenProperties
<1> QED
  BY <1>1, <1>2 DEF RunType

-----------------------------------------------------------------------------
(* Steps of the goroutines.                                                *)

\* What a step of a goroutine leaves alone.
LEMMA TaskFrame ==
  ASSUME RunnerInv, NEW k \in 1 .. Len(tasks), NEW u \in Task, u.svc = tasks[k].svc,
         tasks[k].pc # "exited", SetTask(k, u),
         UNCHANGED <<fingerprinters, detectors, phase, step, stage, found, ret, input>>,
         results' \in Seq(Item), groupErr' \in BOOLEAN, degraded' \in BOOLEAN, failed' \in BOOLEAN,
         failed' => degraded', dropped' \in SUBSET Services
  PROVE  /\ RunType' /\ Started' /\ Staged' /\ Numbered' /\ Noticed' /\ Final'
         /\ Len(tasks') = Len(tasks)
         /\ tasks'[k] = u
         /\ \A j \in 1 .. Len(tasks) : j # k => tasks'[j] = tasks[j]
<1>0. RunType /\ Started /\ Staged /\ Numbered /\ Final
  BY DEF RunnerInv
<1>1. tasks \in Seq(Task) /\ Len(tasks) \in Nat
  BY <1>0, InvTyped
<1>2. /\ tasks' \in Seq(Task)
      /\ Len(tasks') = Len(tasks)
      /\ tasks'[k] = u
      /\ \A j \in 1 .. Len(tasks) : j # k => tasks'[j] = tasks[j]
  BY <1>1, ExceptSeq DEF SetTask
<1>3. RunType'
  BY <1>0, <1>2 DEF RunType
<1>4. tasks # <<>> /\ tasks' # <<>>
  <2>1. Len(tasks) # 0
    BY <1>1
  <2> QED
    BY <1>2, <2>1, EmptySeq
<1>5. phase \notin {"setup", "portscan"}
  BY <1>0, <1>4 DEF Started
<1>6. Started'
  <2>1. \A j \in 1 .. Len(tasks) : tasks'[j].svc = input[j]
    BY <1>0, <1>2 DEF Started
  <2>2. /\ Len(tasks) <= Len(input)
        /\ step = "go" => Running /\ Len(tasks) < Len(input)
    BY <1>0 DEF Started
  <2>3. Running' = Running
    BY DEF Running
  <2> QED
    BY <1>2, <1>5, <2>1, <2>2, <2>3 DEF Started
<1>7. Staged' /\ Numbered' /\ Noticed'
  BY <1>0, <1>5 DEF Staged, Numbered, Noticed
<1>8. Final'
  <2>1. ret.kind # "ok"
    BY <1>0 DEF Final, Active
  <2> QED
    BY <2>1 DEF Final
<1> QED
  BY <1>2, <1>3, <1>6, <1>7, <1>8

\* A step of a goroutine that keeps what is in the results, while fingerprinting.
LEMMA FingerprintStays ==
  ASSUME RunnerInv, stage = "fingerprint", NEW k \in 1 .. Len(tasks), NEW u,
         tasks[k].pc # "exited",
         Len(tasks') = Len(tasks), tasks'[k] = u,
         \A j \in 1 .. Len(tasks) : j # k => tasks'[j] = tasks[j],
         UNCHANGED <<fingerprinters, stage, found, input, results, reported>>,
         dropped \subseteq dropped', groupErr => groupErr', groupErr' \in BOOLEAN,
         Fingerprints(fingerprinters, k, u, dropped', Range(results), groupErr')
  PROVE  Fingerprinting' /\ Detecting'
<1>1. /\ reported = {}
      /\ results \in Seq(Services)
      /\ Distinct(results)
      /\ fingerprinters = 0 => input = <<>> /\ results = found
      /\ fingerprinters # 0 =>
           /\ input = found
           /\ \A x \in Range(results) :
                \E j \in 1 .. Len(tasks) : tasks[j].pc = "exited" /\ x \in Of(j)
      /\ \A j \in 1 .. Len(tasks) :
           Fingerprints(fingerprinters, j, tasks[j], dropped, Range(results), groupErr)
  BY DEF RunnerInv, Fingerprinting
<1>2. groupErr \in BOOLEAN
  BY DEF RunnerInv, RunType
<1>3. ASSUME NEW j \in 1 .. Len(tasks)
      PROVE  Fingerprints(fingerprinters, j, tasks'[j], dropped', Range(results), groupErr')
  <2>1. CASE j = k
    BY <2>1
  <2>2. CASE j # k
    BY <1>1, <1>2, <2>2, FingerprintsMonotone
  <2> QED
    BY <2>1, <2>2
<1>4. \A j \in 1 .. Len(tasks) : tasks[j].pc = "exited" => tasks'[j].pc = "exited"
  OBVIOUS
<1>5. Fingerprinting'
  BY <1>1, <1>3, <1>4, Zenon DEF Fingerprinting
<1>6. Detecting'
  BY DEF Detecting
<1> QED
  BY <1>5, <1>6

\* The same while detecting, for a goroutine that does not end.
LEMMA DetectStays ==
  ASSUME RunnerInv, stage = "detect", NEW k \in 1 .. Len(tasks), NEW u, NEW new,
         tasks[k].pc # "exited", u.pc # "exited",
         Len(tasks') = Len(tasks), tasks'[k] = u,
         \A j \in 1 .. Len(tasks) : j # k => tasks'[j] = tasks[j],
         UNCHANGED <<detectors, phase, stage, found, ret, input, results, groupErr, dropped>>,
         detected \subseteq detected', reported' = reported \cup new,
         Range(u.acc) = Range(tasks[k].acc) \cup new,
         Shown(detectors, u, detected', groupErr)
  PROVE  Fingerprinting' /\ Detecting'
<1>1. /\ results \in Seq(Report)
      /\ phase = "detect" => ReportKept /\ input = IF detectors = 0 THEN <<>> ELSE ret.services
      /\ \A j \in 1 .. Len(tasks) : Shown(detectors, tasks[j], detected, groupErr)
      /\ ~groupErr => \A r : r \in reported <=> r \in Range(results) \/ Pending(r)
  BY DEF RunnerInv, Detecting
<1>2. groupErr \in BOOLEAN
  BY DEF RunnerInv, RunType
<1>3. ASSUME NEW j \in 1 .. Len(tasks)
      PROVE  Shown(detectors, tasks'[j], detected', groupErr)
  <2>1. CASE j = k
    BY <2>1
  <2>2. CASE j # k
    BY <1>1, <1>2, <2>2, ShownMonotone
  <2> QED
    BY <2>1, <2>2
<1>4. \A r : Pending(r)' <=> Pending(r) \/ r \in new
  <2>1. \A r : (\E j \in 1 .. Len(tasks) : tasks'[j].pc # "exited" /\ r \in Range(tasks'[j].acc))
                 <=> (\E j \in 1 .. Len(tasks) : tasks[j].pc # "exited" /\ r \in Range(tasks[j].acc))
                     \/ r \in new
    BY Zenon
  <2> QED
    BY <2>1 DEF Pending
<1>5. ReportKept' = ReportKept
  BY DEF ReportKept
<1>6. Detecting'
  <2>1. ~groupErr => \A r : r \in reported' <=> r \in Range(results) \/ Pending(r)'
    BY <1>1, <1>4
  <2>2. (ReportKept /\ input = IF detectors = 0 THEN <<>> ELSE ret.services)
          = (ReportKept' /\ input' = IF detectors' = 0 THEN <<>> ELSE (ret.services)')
    BY <1>5
  <2> QED
    BY <1>1, <1>3, <2>1, <1>5 DEF Detecting
<1>7. Fingerprinting'
  BY DEF Fingerprinting
<1> QED
  BY <1>6, <1>7

LEMMA BeginInv ==
  ASSUME RunnerInv, NEW k \in 1 .. Len(tasks), Begin(k)
  PROVE  RunnerInv'
<1> DEFINE t == tasks[k]
<1>1. /\ UNCHANGED <<fingerprinters, detectors, degraded, phase, step, stage, found, ret, groupErr,
                     input, results, failed, dropped, reported>>
      /\ t.pc = "check"
  BY DEF Begin, setupVars, callVars
<1>2. RunType /\ Fingerprinting /\ Detecting /\ Noticed
  BY DEF RunnerInv
<1>3. t \in Task /\ stage \in {"fingerprint", "detect"} /\ groupErr \in BOOLEAN
      /\ degraded \in BOOLEAN /\ failed \in BOOLEAN /\ dropped \in SUBSET Services
      /\ results \in Seq(Item) /\ fingerprinters \in Nat /\ detectors \in Nat
  BY <1>2, InvTyped
\* The four ways to go on.
<1>4. \/ t.mod > NumModules /\ SetTask(k, [t EXCEPT !.pc = "append"])
      \/ t.mod <= NumModules /\ SetTask(k, [t EXCEPT !.pc = "fail"])
      \/ t.mod <= NumModules /\ t.todo = <<>> /\ SetTask(k, Advance(t))
      \/ t.mod <= NumModules /\ ~grpctxDone /\ t.todo # <<>> /\ SetTask(k, [t EXCEPT !.pc = "call"])
  <2>1. t.mod \in Nat /\ NumModules \in Nat
    BY <1>3, TaskTyped DEF NumModules
  <2>2. SetTask(k, IF t.mod > NumModules THEN [t EXCEPT !.pc = "append"]
                   ELSE IF grpctxDone THEN [t EXCEPT !.pc = Interrupted]
                   ELSE IF t.todo = <<>> THEN Advance(t)
                   ELSE [t EXCEPT !.pc = "call"])
    BY DEF Begin
  <2>3. CASE t.mod > NumModules
    BY <2>2, <2>3, Zenon
  <2>4. CASE ~(t.mod > NumModules)
    <3>1. t.mod <= NumModules
      BY <2>1, <2>4
    <3>2. CASE grpctxDone
      BY <2>2, <2>4, <3>1, <3>2, Zenon DEF Interrupted
    <3>3. CASE ~grpctxDone /\ t.todo = <<>>
      BY <2>2, <2>4, <3>1, <3>3, Zenon
    <3>4. CASE ~grpctxDone /\ t.todo # <<>>
      BY <2>2, <2>4, <3>1, <3>4, Zenon
    <3> QED
      BY <3>2, <3>3, <3>4
  <2> QED
    BY <2>3, <2>4
<1>5. /\ detected \subseteq detected'
      /\ stage = "detect" /\ ~grpctxDone /\ t.mod <= NumModules => <<t.mod, t.svc>> \in detected'
  BY DEF Begin
<1>6. PICK u : /\ SetTask(k, u)
               /\ \/ t.mod > NumModules /\ u = [t EXCEPT !.pc = "append"]
                  \/ t.mod <= NumModules /\ u = [t EXCEPT !.pc = "fail"]
                  \/ t.mod <= NumModules /\ t.todo = <<>> /\ u = Advance(t)
                  \/ t.mod <= NumModules /\ ~grpctxDone /\ t.todo # <<>> /\ u = [t EXCEPT !.pc = "call"]
  BY <1>4
<1> HIDE DEF t
<1>7. CASE stage = "fingerprint"
  <2>1. NumModules = fingerprinters
    BY <1>7 DEF NumModules
  <2>2. Fingerprints(fingerprinters, k, t, dropped, Range(results), groupErr)
    BY <1>2, <1>7 DEF Fingerprinting, t
  <2>3. t.acc \in Seq(Services) /\ Holds(fingerprinters, k, t, dropped)
    BY <1>1, <2>2 DEF Fingerprints
  <2>4. /\ u \in Task /\ u.svc = t.svc
        /\ Fingerprints(fingerprinters, k, u, dropped, Range(results), groupErr)
    <3>1. ASSUME NEW point \in {"append", "fail", "call"}, u = [t EXCEPT !.pc = point],
                 point = "append" => t.mod > fingerprinters,
                 point = "call" => t.todo # <<>> /\ t.mod <= fingerprinters
          PROVE  /\ u \in Task /\ u.svc = t.svc
                 /\ Fingerprints(fingerprinters, k, u, dropped, Range(results), groupErr)
      <4>1. /\ u \in Task /\ u.pc = point /\ u.svc = t.svc
            /\ u.mod = t.mod /\ u.todo = t.todo /\ u.acc = t.acc
        <5>1. point \in {"check", "call", "append", "fail", "exited"}
          OBVIOUS
        <5>2. u = AtPoint(t, point)
          BY <3>1 DEF AtPoint
        <5> QED
          BY <1>3, <5>1, <5>2, AtFacts
      <4>2. Holds(fingerprinters, k, u, dropped)
        BY <2>3, <4>1 DEF Holds
      <4> QED
        BY <2>3, <3>1, <4>1, <4>2 DEF Fingerprints
    <3>2. CASE u = Advance(t)
      <4>1. /\ u \in Task /\ u.acc \in Seq(Services) /\ u.svc = t.svc /\ u.pc = t.pc
            /\ Holds(fingerprinters, k, u, dropped)
        BY <1>3, <1>7, <2>3, <3>2, AdvanceFingerprint
      <4> QED
        BY <1>1, <4>1 DEF Fingerprints, t
    <3> QED
      BY <1>6, <2>1, <3>1, <3>2
  <2>5. /\ RunType' /\ Started' /\ Staged' /\ Numbered' /\ Noticed' /\ Final'
        /\ Len(tasks') = Len(tasks)
        /\ tasks'[k] = u
        /\ \A j \in 1 .. Len(tasks) : j # k => tasks'[j] = tasks[j]
    BY <1>1, <1>2, <1>3, <1>6, <2>4, TaskFrame DEF t, Noticed
  <2>6. Fingerprinting' /\ Detecting'
    BY <1>1, <1>3, <1>7, <2>4, <2>5, FingerprintStays DEF t
  <2> QED
    BY <2>5, <2>6 DEF RunnerInv
<1>8. CASE stage = "detect"
  <2>1. NumModules = detectors
    BY <1>8 DEF NumModules
  <2>2. Shown(detectors, t, detected, groupErr)
    BY <1>2, <1>8 DEF Detecting, t
  <2>3. /\ t.acc \in Seq(Report) /\ t.todo = <<t.svc>> /\ t.todo # <<>>
        /\ \A d \in 1 .. detectors : d < t.mod => <<d, t.svc>> \in detected
    <3>1. t.todo = <<t.svc>> => t.todo # <<>>
      OBVIOUS
    <3> QED
      BY <1>1, <2>2, <3>1 DEF Shown
  <2>4. ASSUME NEW point \in {"append", "fail", "call"}, u = [t EXCEPT !.pc = point],
               point = "append" => t.mod > detectors,
               point = "call" => t.mod <= detectors /\ <<t.mod, t.svc>> \in detected'
        PROVE  /\ u \in Task /\ u.svc = t.svc /\ u.acc = t.acc /\ u.pc # "exited"
               /\ Shown(detectors, u, detected', groupErr)
    <3>1. /\ u \in Task /\ u.pc = point /\ u.svc = t.svc
          /\ u.mod = t.mod /\ u.todo = t.todo /\ u.acc = t.acc
      <4>1. point \in {"check", "call", "append", "fail", "exited"}
        OBVIOUS
      <4>2. u = AtPoint(t, point)
        BY <2>4 DEF AtPoint
      <4> QED
        BY <1>3, <4>1, <4>2, AtFacts
    <3>2. \A d \in 1 .. detectors : d < u.mod \/ (d = u.mod /\ u.pc = "call") =>
            <<d, u.svc>> \in detected'
      BY <1>5, <2>3, <2>4, <3>1
    <3> QED
      BY <2>3, <2>4, <3>1, <3>2 DEF Shown
  <2>5. /\ u \in Task /\ u.svc = t.svc /\ u.acc = t.acc /\ u.pc # "exited"
        /\ Shown(detectors, u, detected', groupErr)
    BY <1>5, <1>6, <1>8, <2>1, <2>3, <2>4
  <2>6. /\ RunType' /\ Started' /\ Staged' /\ Numbered' /\ Noticed' /\ Final'
        /\ Len(tasks') = Len(tasks)
        /\ tasks'[k] = u
        /\ \A j \in 1 .. Len(tasks) : j # k => tasks'[j] = tasks[j]
    BY <1>1, <1>2, <1>3, <1>6, <2>5, TaskFrame DEF t, Noticed
  <2>7. Fingerprinting' /\ Detecting'
    <3>1. reported' = reported \cup {} /\ Range(u.acc) = Range(tasks[k].acc) \cup {}
      BY <1>1, <2>5 DEF t
    <3> QED
      BY <1>1, <1>5, <1>8, <2>5, <2>6, <3>1, DetectStays DEF t
  <2> QED
    BY <2>6, <2>7 DEF RunnerInv
<1> QED
  BY <1>3, <1>7, <1>8

LEMMA FailNoticed ==
  ASSUME Noticed, degraded \in BOOLEAN, failed \in BOOLEAN, Fail \/ UNCHANGED <<degraded, failed>>
  PROVE  degraded' \in BOOLEAN /\ failed' \in BOOLEAN /\ (failed' => degraded')
<1>1. CASE Fail
  BY <1>1 DEF Fail
<1>2. CASE UNCHANGED <<degraded, failed>>
  <2>1. degraded' = degraded /\ failed' = failed
    BY <1>2
  <2> QED
    BY <2>1 DEF Noticed
<1> QED
  BY <1>1, <1>2

LEMMA FingerprintedInv ==
  ASSUME RunnerInv, NEW k \in 1 .. Len(tasks), Fingerprinted(k)
  PROVE  RunnerInv'
<1> DEFINE t == tasks[k]
           s == Head(t.todo)
<1>1. /\ UNCHANGED <<fingerprinters, detectors, phase, step, stage, found, ret, groupErr,
                     input, results, detected, reported>>
      /\ t.pc = "call" /\ stage = "fingerprint"
  BY DEF Fingerprinted, setupVars, callVars
<1>2. RunType /\ Fingerprinting /\ Detecting /\ Noticed
  BY DEF RunnerInv
<1>3. t \in Task /\ groupErr \in BOOLEAN
      /\ degraded \in BOOLEAN /\ failed \in BOOLEAN /\ dropped \in SUBSET Services
      /\ results \in Seq(Item) /\ fingerprinters \in Nat
  BY <1>2, InvTyped
<1>4. Fingerprints(fingerprinters, k, t, dropped, Range(results), groupErr)
  BY <1>1, <1>2 DEF Fingerprinting
<1>5. /\ t.acc \in Seq(Services) /\ Holds(fingerprinters, k, t, dropped)
      /\ t.todo # <<>> /\ t.mod <= fingerprinters
  BY <1>1, <1>4 DEF Fingerprints
<1>6. s \in Services
  <2>1. t.todo \in Seq(Services)
    BY <1>3, TaskTyped
  <2> QED
    BY <1>5, <2>1, RangeTail, RangeDef
\* A failure keeps the service, or drops it; success replaces it.
<1>7. /\ \/ Fail
         \/ UNCHANGED <<degraded, failed>>
      /\ \E n \in Nat : /\ SetTask(k, Returned(t, Split(s, n)))
                        /\ dropped' \in {dropped, dropped \cup {s}}
                        /\ n = 0 => s \in dropped'
  <2>1. CASE Fail /\ SetTask(k, Returned(t, KeepOnFailure(s))) /\ dropped' = dropped
    <3>1. Split(s, 1) = KeepOnFailure(s)
      BY DEF Split, KeepOnFailure
    <3>2. SetTask(k, Returned(t, Split(s, 1)))
      BY <2>1, <3>1
    <3>3. 1 \in Nat /\ (1 = 0 => s \in dropped')
      OBVIOUS
    <3> HIDE DEF s, t
    <3> QED
      BY <2>1, <3>2, <3>3
  <2>2. CASE Fail /\ SetTask(k, Returned(t, <<>>)) /\ dropped' = dropped \cup {s}
    <3>1. Split(s, 0) = <<>>
      BY <1>6, SplitFacts
    <3>2. SetTask(k, Returned(t, Split(s, 0)))
      BY <2>2, <3>1
    <3>3. 0 \in Nat /\ s \in dropped'
      BY <2>2
    <3> HIDE DEF s, t
    <3> QED
      BY <2>2, <3>2, <3>3
  <2>3. CASE /\ UNCHANGED <<degraded, failed>>
             /\ \E n \in 0 .. MaxSplit :
                  /\ SetTask(k, Returned(t, Split(s, n)))
                  /\ dropped' = IF n = 0 THEN dropped \cup {s} ELSE dropped
    <3>1. PICK n \in 0 .. MaxSplit : /\ SetTask(k, Returned(t, Split(s, n)))
                                     /\ dropped' = IF n = 0 THEN dropped \cup {s} ELSE dropped
      BY <2>3
    <3>2. n \in Nat
      BY RunnerAssumption
    <3> HIDE DEF s, t
    <3>3. dropped' \in {dropped, dropped \cup {s}} /\ (n = 0 => s \in dropped')
      BY <3>1
    <3> QED
      BY <2>3, <3>1, <3>2, <3>3
  <2> QED
    BY <2>1, <2>2, <2>3 DEF Fingerprinted
<1>8. PICK n \in Nat : /\ SetTask(k, Returned(t, Split(s, n)))
                       /\ dropped' \in {dropped, dropped \cup {s}}
                       /\ n = 0 => s \in dropped'
  BY <1>7
<1> DEFINE out == Split(s, n)
           u == Advance(Taken(t, out))
<1>9. Returned(t, out) = u
  BY DEF Returned, Taken
<1>10. /\ out \in Seq(Services) /\ PrefixFree(out)
       /\ \A x \in Range(out) : Descends(x, s)
       /\ out # <<>> \/ s \in dropped'
  BY <1>6, <1>8, SplitFacts
<1>11. SetTask(k, u)
  BY <1>8, <1>9
<1>12. dropped \subseteq dropped' /\ dropped' \in SUBSET Services
  BY <1>3, <1>6, <1>8
<1> HIDE DEF out
<1>13. Holds(fingerprinters, k, Taken(t, out), dropped')
  BY <1>3, <1>5, <1>10, <1>12, TakenHolds
<1>14. /\ Taken(t, out) \in Task /\ Taken(t, out).svc = t.svc /\ Taken(t, out).pc = "check"
       /\ Taken(t, out).acc \in Seq(Services)
  <2>1. Services \subseteq Item
    BY DEF Item
  <2>2. t \in Task /\ t.todo # <<>> /\ t.acc \in Seq(Services)
    BY <1>3, <1>5
  <2> HIDE DEF t
  <2> QED
    BY <1>10, <2>1, <2>2, TakenFacts
<1>15. /\ u \in Task /\ u.acc \in Seq(Services) /\ u.svc = t.svc /\ u.pc = "check"
       /\ Holds(fingerprinters, k, u, dropped')
  BY <1>1, <1>3, <1>13, <1>14, AdvanceFingerprint
<1>16. Fingerprints(fingerprinters, k, u, dropped', Range(results), groupErr)
  BY <1>15 DEF Fingerprints
<1>17. degraded' \in BOOLEAN /\ failed' \in BOOLEAN /\ (failed' => degraded')
  BY <1>2, <1>3, <1>7, FailNoticed
<1> HIDE DEF u
<1>18. /\ RunType' /\ Started' /\ Staged' /\ Numbered' /\ Noticed' /\ Final'
       /\ Len(tasks') = Len(tasks)
       /\ tasks'[k] = u
       /\ \A j \in 1 .. Len(tasks) : j # k => tasks'[j] = tasks[j]
  BY <1>1, <1>3, <1>11, <1>12, <1>15, <1>17, TaskFrame
<1>19. Fingerprinting' /\ Detecting'
  BY <1>1, <1>3, <1>12, <1>16, <1>18, FingerprintStays
<1> QED
  BY <1>18, <1>19 DEF RunnerInv

LEMMA DetectedInv ==
  ASSUME RunnerInv, NEW k \in 1 .. Len(tasks), Detected(k)
  PROVE  RunnerInv'
<1> DEFINE t == tasks[k]
<1>1. /\ UNCHANGED <<fingerprinters, detectors, phase, step, stage, found, ret, groupErr,
                     input, results, dropped, detected>>
      /\ t.pc = "call" /\ stage = "detect"
  BY DEF Detected, setupVars, callVars
<1>2. RunType /\ Fingerprinting /\ Detecting /\ Noticed
  BY DEF RunnerInv
<1>3. t \in Task /\ groupErr \in BOOLEAN
      /\ degraded \in BOOLEAN /\ failed \in BOOLEAN /\ dropped \in SUBSET Services
      /\ results \in Seq(Item) /\ detectors \in Nat
  BY <1>2, InvTyped
<1>4. Shown(detectors, t, detected, groupErr)
  BY <1>1, <1>2 DEF Detecting
<1>5. /\ t.acc \in Seq(Report) /\ t.todo = <<t.svc>> /\ t.todo # <<>>
      /\ t.mod <= detectors
      /\ \A d \in 1 .. detectors : d <= t.mod => <<d, t.svc>> \in detected
  <2>1. t.acc \in Seq(Report) /\ t.todo = <<t.svc>> /\ t.mod <= detectors
    BY <1>1, <1>4 DEF Shown
  <2>2. \A d \in 1 .. detectors : d < t.mod \/ d = t.mod => <<d, t.svc>> \in detected
    BY <1>1, <1>4 DEF Shown
  <2>3. t.mod \in Nat
    BY <1>3, TaskTyped
  <2>4. <<t.svc>> # <<>>
    OBVIOUS
  <2> QED
    BY <2>1, <2>2, <2>3, <2>4
<1>6. t.svc \in Services /\ t.mod \in Nat
  BY <1>3, TaskTyped
<1> DEFINE R(g) == [svc |-> t.svc, det |-> t.mod, good |-> g]
<1>7. R(TRUE) \in Report /\ R(FALSE) \in Report
  BY <1>6 DEF Report
<1>8. \E out \in Seq(Report) : /\ SetTask(k, Returned(t, out))
                               /\ reported' = reported \cup Range(out)
                               /\ Fail \/ UNCHANGED <<degraded, failed>>
  <2>1. Range(<<>>) = {}
    BY DEF Range
  <2>2. <<>> \in Seq(Report) /\ <<R(TRUE)>> \in Seq(Report) /\ <<R(FALSE)>> \in Seq(Report)
    <3>1. \A S, x : x \in S => <<x>> \in Seq(S)
      OBVIOUS
    <3> HIDE DEF R
    <3> QED
      BY <1>7, <3>1, EmptySeq
  <2>3. CASE Fail /\ SetTask(k, Returned(t, <<>>)) /\ reported' = reported
    <3>1. reported' = reported \cup Range(<<>>)
      BY <2>1, <2>3
    <3> QED
      BY <2>2, <2>3, <3>1
  <2>4. CASE /\ UNCHANGED <<degraded, failed>>
             /\ \E out \in {<<>>, <<R(TRUE)>>, <<R(FALSE)>>} :
                  /\ SetTask(k, Returned(t, out))
                  /\ reported' = reported \cup Range(out)
    <3> HIDE DEF R, t
    <3> QED
      BY <2>2, <2>4
  <2> QED
    BY <2>3, <2>4 DEF Detected
<1>9. PICK out \in Seq(Report) : /\ SetTask(k, Returned(t, out))
                                 /\ reported' = reported \cup Range(out)
                                 /\ Fail \/ UNCHANGED <<degraded, failed>>
  BY <1>8
<1> DEFINE u == Advance(Taken(t, out))
<1>10. SetTask(k, u)
  BY <1>9 DEF Returned, Taken
<1>11. Tail(t.todo) = <<>>
  <2>1. Tail(<<t.svc>>) = <<>>
    OBVIOUS
  <2> QED
    BY <1>5, <2>1
<1>12. /\ Taken(t, out) \in Task /\ Taken(t, out).svc = t.svc /\ Taken(t, out).pc = "check"
       /\ Taken(t, out).mod = t.mod /\ Taken(t, out).todo = <<>>
       /\ Taken(t, out).acc = t.acc \o out /\ t.acc \o out \in Seq(Report)
  BY <1>3, <1>5, <1>9, <1>11, TakenFacts DEF Item
<1>13. /\ u \in Task /\ u.svc = t.svc /\ u.pc = "check" /\ u.acc = t.acc \o out
       /\ u.todo = <<t.svc>> /\ u.mod = t.mod + 1
  BY <1>1, <1>12, AdvanceDetect
<1> HIDE DEF u
<1>14. Range(u.acc) = Range(t.acc) \cup Range(out)
  BY <1>5, <1>9, <1>13, RangeConcat
<1>15. Shown(detectors, u, detected', groupErr)
  <2>1. \A d \in 1 .. detectors : d < u.mod \/ (d = u.mod /\ u.pc = "call") => <<d, u.svc>> \in detected'
    <3> SUFFICES ASSUME NEW d \in 1 .. detectors, d < t.mod + 1
                 PROVE  <<d, t.svc>> \in detected
      BY <1>1, <1>13
    <3>1. d <= t.mod
      BY <1>6
    <3> QED
      BY <1>5, <3>1
  <2>2. u.acc \in Seq(Report) /\ u.pc = "check" /\ u.todo = <<u.svc>>
    BY <1>12, <1>13
  <2> QED
    BY <2>1, <2>2 DEF Shown
<1>16. degraded' \in BOOLEAN /\ failed' \in BOOLEAN /\ (failed' => degraded')
  BY <1>2, <1>3, <1>9, FailNoticed
<1>17. /\ RunType' /\ Started' /\ Staged' /\ Numbered' /\ Noticed' /\ Final'
       /\ Len(tasks') = Len(tasks)
       /\ tasks'[k] = u
       /\ \A j \in 1 .. Len(tasks) : j # k => tasks'[j] = tasks[j]
  BY <1>1, <1>3, <1>10, <1>13, <1>16, TaskFrame
<1>18. Fingerprinting' /\ Detecting'
  <2>1. tasks[k].pc # "exited" /\ u.pc # "exited"
    BY <1>1, <1>13
  <2>2. detected \subseteq detected' /\ Range(u.acc) = Range(tasks[k].acc) \cup Range(out)
    BY <1>1, <1>14
  <2> HIDE DEF t
  <2> QED
    BY <1>1, <1>9, <1>15, <1>17, <2>1, <2>2, DetectStays
<1> QED
  BY <1>17, <1>18 DEF RunnerInv

LEMMA ReturnErrInv ==
  ASSUME RunnerInv, NEW k \in 1 .. Len(tasks), ReturnErr(k)
  PROVE  RunnerInv'
<1> DEFINE t == tasks[k]
           u == AtPoint(t, "exited")
<1>1. /\ UNCHANGED <<fingerprinters, detectors, degraded, phase, step, stage, found, ret,
                     input, results, failed, dropped, detected, reported>>
      /\ t.pc = "fail" /\ groupErr' = TRUE /\ SetTask(k, u)
  BY DEF ReturnErr, setupVars, callVars, history, AtPoint
<1>2. RunType /\ Fingerprinting /\ Detecting /\ Noticed
  BY DEF RunnerInv
<1>3. t \in Task /\ stage \in {"fingerprint", "detect"} /\ groupErr \in BOOLEAN
      /\ degraded \in BOOLEAN /\ failed \in BOOLEAN /\ dropped \in SUBSET Services
      /\ results \in Seq(Item)
  BY <1>2, InvTyped
<1>4. /\ u \in Task /\ u.pc = "exited" /\ u.svc = t.svc
      /\ u.mod = t.mod /\ u.todo = t.todo /\ u.acc = t.acc
  BY <1>3, AtFacts
<1> HIDE DEF u
<1>5. /\ RunType' /\ Started' /\ Staged' /\ Numbered' /\ Noticed' /\ Final'
      /\ Len(tasks') = Len(tasks)
      /\ tasks'[k] = u
      /\ \A j \in 1 .. Len(tasks) : j # k => tasks'[j] = tasks[j]
  BY <1>1, <1>2, <1>3, <1>4, TaskFrame DEF Noticed
<1>6. CASE stage = "fingerprint"
  <2>1. Fingerprints(fingerprinters, k, t, dropped, Range(results), groupErr)
    BY <1>2, <1>6 DEF Fingerprinting
  <2>2. Fingerprints(fingerprinters, k, u, dropped, Range(results), TRUE)
    BY <1>4, <2>1 DEF Fingerprints
  <2>3. Fingerprinting' /\ Detecting'
    BY <1>1, <1>5, <1>6, <2>2, FingerprintStays
  <2> QED
    BY <1>5, <2>3 DEF RunnerInv
<1>7. CASE stage = "detect"
  <2>1. /\ results \in Seq(Report)
        /\ phase = "detect" => ReportKept /\ input = IF detectors = 0 THEN <<>> ELSE ret.services
        /\ \A j \in 1 .. Len(tasks) : Shown(detectors, tasks[j], detected, groupErr)
    BY <1>2, <1>7 DEF Detecting
  <2>2. ASSUME NEW j \in 1 .. Len(tasks)
        PROVE  Shown(detectors, tasks'[j], detected, TRUE)
    <3>1. CASE j = k
      <4>1. Shown(detectors, t, detected, groupErr)
        BY <2>1
      <4>2. Shown(detectors, u, detected, TRUE)
        BY <1>1, <1>4, <4>1 DEF Shown
      <4> QED
        BY <1>5, <3>1, <4>2
    <3>2. CASE j # k
      BY <1>3, <1>5, <2>1, <3>2, ShownMonotone
    <3> QED
      BY <3>1, <3>2
  <2>3. ReportKept' = ReportKept
    BY <1>1 DEF ReportKept
  <2>4. Detecting'
    BY <1>1, <1>5, <2>1, <2>2, <2>3 DEF Detecting
  <2>5. Fingerprinting'
    BY <1>1, <1>7 DEF Fingerprinting
  <2> QED
    BY <1>5, <2>4, <2>5 DEF RunnerInv
<1> QED
  BY <1>3, <1>6, <1>7

LEMMA AppendInv ==
  ASSUME RunnerInv, NEW k \in 1 .. Len(tasks), AppendResults(k)
  PROVE  RunnerInv'
<1> DEFINE t == tasks[k]
           u == AtPoint(t, "exited")
           out == Output(t)
<1>1. /\ UNCHANGED <<fingerprinters, detectors, degraded, phase, step, stage, found, ret,
                     groupErr, input, failed, dropped, detected, reported>>
      /\ t.pc = "append" /\ results' = results \o out /\ SetTask(k, u)
  BY DEF AppendResults, setupVars, callVars, history, AtPoint
<1>2. RunType /\ Started /\ Fingerprinting /\ Detecting /\ Noticed
  BY DEF RunnerInv
<1>3. t \in Task /\ stage \in {"fingerprint", "detect"} /\ groupErr \in BOOLEAN
      /\ degraded \in BOOLEAN /\ failed \in BOOLEAN /\ dropped \in SUBSET Services
      /\ results \in Seq(Item) /\ fingerprinters \in Nat /\ detectors \in Nat
      /\ Len(tasks) \in Nat /\ input \in Seq(Services)
  BY <1>2, InvTyped
<1>4. /\ u \in Task /\ u.pc = "exited" /\ u.svc = t.svc
      /\ u.mod = t.mod /\ u.todo = t.todo /\ u.acc = t.acc
  BY <1>3, AtFacts
<1>5. out \in Seq(Item)
  BY <1>3, TaskTyped, ItemSeq DEF Output
<1>6. results' \in Seq(Item)
  BY <1>1, <1>3, <1>5, ConcatProperties
<1> HIDE DEF u
<1>7. /\ RunType' /\ Started' /\ Staged' /\ Numbered' /\ Noticed' /\ Final'
      /\ Len(tasks') = Len(tasks)
      /\ tasks'[k] = u
      /\ \A j \in 1 .. Len(tasks) : j # k => tasks'[j] = tasks[j]
  BY <1>1, <1>2, <1>3, <1>4, <1>6, TaskFrame DEF Noticed
<1>8. CASE stage = "fingerprint"
  <2>1. /\ reported = {}
        /\ results \in Seq(Services)
        /\ Distinct(results)
        /\ fingerprinters # 0 =>
             /\ input = found
             /\ \A x \in Range(results) :
                  \E j \in 1 .. Len(tasks) : tasks[j].pc = "exited" /\ x \in Of(j)
        /\ fingerprinters = 0 => input = <<>>
        /\ \A j \in 1 .. Len(tasks) :
             Fingerprints(fingerprinters, j, tasks[j], dropped, Range(results), groupErr)
    BY <1>2, <1>8 DEF Fingerprinting
  <2>2. fingerprinters # 0
    <3>1. Len(input) >= 1 /\ Len(input) \in Nat
      BY <1>2, <1>3 DEF Started
    <3> QED
      BY <2>1, <3>1, EmptySeq
  <2>3. out = t.todo
    BY <1>8 DEF Output
  <2>4. /\ Holds(fingerprinters, k, t, dropped) /\ t.mod > fingerprinters
        /\ t.acc \in Seq(Services)
    BY <1>1, <2>1 DEF Fingerprints
  <2>5. /\ Range(out) \subseteq Of(k) /\ PrefixFree(out)
        /\ \E x \in Of(k) : x \in Range(out) \cup dropped
    <3>1. t.acc = <<>> /\ Range(<<>>) = {}
      BY <2>4 DEF Holds, Range
    <3>2. Range(t.acc) = {}
      BY <3>1
    <3> QED
      BY <2>3, <2>4, <3>2 DEF Holds
  <2>6. out \in Seq(Services)
    BY <1>3, <2>3, TaskTyped
  <2> HIDE DEF out, t
  <2>7. results' \in Seq(Services) /\ Range(results') = Range(results) \cup Range(out)
    BY <1>1, <2>1, <2>6, RangeConcat, ConcatProperties
  <2>8. Range(results) \cap Range(out) = {}
    <3> SUFFICES ASSUME NEW x \in Range(results), x \in Range(out)
                 PROVE  FALSE
      OBVIOUS
    <3>1. PICK j \in 1 .. Len(tasks) : tasks[j].pc = "exited" /\ x \in Of(j)
      BY <2>1, <2>2
    <3>2. j # k
      BY <1>1, <3>1 DEF t
    <3>3. x[1] = j /\ x[1] = k
      BY <2>5, <3>1 DEF Of
    <3> QED
      BY <3>2, <3>3
  <2>9. Distinct(results')
    BY <1>1, <2>1, <2>5, <2>6, <2>8, PrefixFreeDistinct, DistinctConcat
  <2>10. Fingerprints(fingerprinters, k, u, dropped, Range(results'), groupErr)
    BY <1>4, <2>4, <2>5, <2>7 DEF Fingerprints
  <2>11. ASSUME NEW j \in 1 .. Len(tasks)
         PROVE  Fingerprints(fingerprinters, j, tasks'[j], dropped, Range(results'), groupErr)
    <3>1. CASE j = k
      BY <1>7, <2>10, <3>1
    <3>2. CASE j # k
      <4>1. Range(results) \subseteq Range(results')
        BY <2>7
      <4>2. Fingerprints(fingerprinters, j, tasks[j], dropped, Range(results'), groupErr)
        BY <1>3, <2>1, <4>1, FingerprintsMonotone
      <4> QED
        BY <1>7, <3>2, <4>2
    <3> QED
      BY <3>1, <3>2
  <2>12. ASSUME NEW x \in Range(results')
         PROVE  \E j \in 1 .. Len(tasks) : tasks'[j].pc = "exited" /\ x \in Of(j)
    <3>1. CASE x \in Range(results)
      <4>1. PICK j \in 1 .. Len(tasks) : tasks[j].pc = "exited" /\ x \in Of(j)
        BY <2>1, <2>2, <3>1
      <4>2. tasks'[j].pc = "exited"
        BY <1>4, <1>7, <4>1
      <4> QED
        BY <4>1, <4>2
    <3>2. CASE x \in Range(out)
      BY <1>4, <1>7, <2>5, <3>2
    <3> QED
      BY <2>7, <3>1, <3>2
  <2>13. Fingerprinting'
    <3>1. /\ UNCHANGED <<fingerprinters, input, found, dropped, groupErr, reported>>
          /\ Len(tasks') = Len(tasks)
      BY <1>1, <1>7
    <3> QED
      BY <2>1, <2>2, <2>7, <2>9, <2>11, <2>12, <3>1, Zenon DEF Fingerprinting
  <2>14. Detecting'
    BY <1>1, <1>8 DEF Detecting
  <2> QED
    BY <1>7, <2>13, <2>14 DEF RunnerInv
<1>9. CASE stage = "detect"
  <2>1. /\ results \in Seq(Report)
        /\ phase = "detect" => ReportKept /\ input = IF detectors = 0 THEN <<>> ELSE ret.services
        /\ \A j \in 1 .. Len(tasks) : Shown(detectors, tasks[j], detected, groupErr)
        /\ ~groupErr => \A r : r \in reported <=> r \in Range(results) \/ Pending(r)
    BY <1>2, <1>9 DEF Detecting
  <2>2. out = t.acc
    BY <1>9 DEF Output
  <2>3. /\ t.acc \in Seq(Report) /\ t.mod > detectors
        /\ \A d \in 1 .. detectors : d < t.mod => <<d, t.svc>> \in detected
    BY <1>1, <2>1 DEF Shown
  <2> HIDE DEF t, out
  <2>4. results' \in Seq(Report) /\ Range(results') = Range(results) \cup Range(t.acc)
    BY <1>1, <2>1, <2>2, <2>3, RangeConcat, ConcatProperties
  <2>5. Shown(detectors, u, detected, groupErr)
    <3>1. \A d \in 1 .. detectors : d < u.mod \/ (d = u.mod /\ u.pc = "call") => <<d, u.svc>> \in detected
      BY <1>4, <2>3
    <3> QED
      BY <1>4, <2>3, <3>1 DEF Shown
  <2>6. ASSUME NEW j \in 1 .. Len(tasks)
        PROVE  Shown(detectors, tasks'[j], detected, groupErr)
    <3>1. CASE j = k
      BY <1>7, <2>5, <3>1
    <3>2. CASE j # k
      BY <1>7, <2>1, <3>2
    <3> QED
      BY <3>1, <3>2
  <2>7. \A r : Pending(r) <=> Pending(r)' \/ r \in Range(t.acc)
    <3>1. tasks[k].pc # "exited" /\ tasks[k].acc = t.acc
      BY <1>1 DEF t
    <3>2. \A r : (\E j \in 1 .. Len(tasks) : tasks[j].pc # "exited" /\ r \in Range(tasks[j].acc))
                  <=> (\E j \in 1 .. Len(tasks) : tasks'[j].pc # "exited" /\ r \in Range(tasks'[j].acc))
                      \/ r \in Range(t.acc)
      <4> SUFFICES ASSUME NEW r
                   PROVE  (\E j \in 1 .. Len(tasks) : tasks[j].pc # "exited" /\ r \in Range(tasks[j].acc))
                            <=> (\E j \in 1 .. Len(tasks) : tasks'[j].pc # "exited" /\ r \in Range(tasks'[j].acc))
                                \/ r \in Range(t.acc)
        OBVIOUS
      <4>1. tasks'[k].pc = "exited"
        BY <1>4, <1>7
      <4>2. \A j \in 1 .. Len(tasks) : tasks'[j].pc # "exited" => tasks'[j] = tasks[j]
        BY <1>7, <4>1
      <4>3. \A j \in 1 .. Len(tasks) : j # k => tasks'[j] = tasks[j]
        BY <1>7
      <4> QED
        BY <3>1, <4>2, <4>3, Zenon
    <3> QED
      BY <1>7, <3>2 DEF Pending
  <2>8. ReportKept' = ReportKept
    BY <1>1 DEF ReportKept
  <2>9. ~groupErr => \A r : r \in reported <=> r \in Range(results') \/ Pending(r)'
    BY <2>1, <2>4, <2>7, Zenon
  <2>10. Detecting'
    BY <1>1, <1>7, <2>1, <2>4, <2>6, <2>8, <2>9 DEF Detecting
  <2>11. Fingerprinting'
    BY <1>1, <1>9 DEF Fingerprinting
  <2> QED
    BY <1>7, <2>10, <2>11 DEF RunnerInv
<1> QED
  BY <1>3, <1>8, <1>9

-----------------------------------------------------------------------------
(* Steps of Run.                                                           *)

\* A step that changes nothing the invariant speaks of, or marks the runner.
LEMMA DegradedInv ==
  ASSUME RunnerInv,
         UNCHANGED <<fingerprinters, detectors, phase, step, stage, groupErr, input, tasks, results,
                     found, ret, failed, dropped, detected, reported>>,
         degraded' \in BOOLEAN, degraded => degraded'
  PROVE  RunnerInv'
<1>1. RunType /\ Started /\ Staged /\ Numbered /\ Noticed /\ Fingerprinting /\ Detecting /\ Final
  BY DEF RunnerInv
<1>2. RunType'
  BY <1>1 DEF RunType
<1>3. Running' = Running /\ Active' = Active
  BY DEF Running, Active
<1>4. Started' /\ Staged' /\ Numbered' /\ Noticed'
  BY <1>1, <1>3 DEF Started, Staged, Numbered, Noticed
<1>5. Fingerprinting'
  BY <1>1 DEF Fingerprinting
<1>6. Detecting'
  <2>1. ReportKept' = ReportKept /\ \A r : Pending(r)' = Pending(r)
    BY DEF ReportKept, Pending
  <2> QED
    BY <1>1, <2>1 DEF Detecting
<1>7. Final'
  BY <1>1, <1>3 DEF Final, ServicesExact, EveryServiceDetected, ServicesKept, FindingsExact
<1> QED
  BY <1>2, <1>4, <1>5, <1>6, <1>7 DEF RunnerInv

\* Run returns an error.
LEMMA ReturnErrorInv ==
  ASSUME RunnerInv, ReturnError, phase \in {"portscan", "fingerprint", "detect"}, step = "check",
         UNCHANGED <<fingerprinters, detectors, degraded, step, stage, groupErr, input, tasks, results,
                     found, failed, dropped, detected, reported>>
  PROVE  RunnerInv'
<1>1. RunType /\ Started /\ Numbered /\ Noticed /\ Fingerprinting /\ Detecting
  BY DEF RunnerInv
<1>2. /\ phase' = "returned" /\ ret'.kind = "error"
      /\ ret' \in [kind : {"none", "error", "ok"}, status : {"none", "partial", "succeeded"},
                   services : Seq(Services), findings : SUBSET Report, alive : BOOLEAN]
  <2> HIDE DEF Services, Report
  <2>1. <<>> \in Seq(Services)
    BY EmptySeq
  <2>2. ret' = [kind |-> "error", status |-> "none", services |-> <<>>, findings |-> {}, alive |-> FALSE]
    BY DEF ReturnError, NoResult
  <2>3. phase' = "returned"
    BY DEF ReturnError
  <2> QED
    BY <2>1, <2>2, <2>3
<1>3. RunType'
  BY <1>1, <1>2 DEF RunType
<1>4. Started' /\ Staged' /\ Numbered' /\ Noticed'
  BY <1>1, <1>2 DEF Started, Staged, Numbered, Noticed
<1>5. Fingerprinting'
  BY <1>1 DEF Fingerprinting
<1>6. Detecting'
  <2>1. \A r : Pending(r)' = Pending(r)
    BY DEF Pending
  <2> QED
    BY <1>1, <1>2, <2>1 DEF Detecting
<1>7. Final'
  BY <1>2 DEF Final
<1> QED
  BY <1>3, <1>4, <1>5, <1>6, <1>7 DEF RunnerInv

\* The fingerprinting of the services found begins, or has not begun.
LEMMA EnterFingerprinting ==
  ASSUME stage' = "fingerprint", tasks' = <<>>, reported' = {},
         found' \in Seq(Services), Distinct(found'),
         fingerprinters' = 0 => input' = <<>> /\ results' = found',
         fingerprinters' # 0 => input' = found' /\ results' = <<>>
  PROVE  Fingerprinting' /\ Detecting'
<1>1. Len(tasks') = 0 /\ Range(<<>>) = {}
  BY DEF Range
<1>2. results' \in Seq(Services) /\ Distinct(results')
  <2>1. <<>> \in Seq(Services) /\ Distinct(<<>>)
    BY EmptySeq DEF Distinct
  <2>2. CASE fingerprinters' = 0
    <3>1. results' = found'
      BY <2>2
    <3> QED
      BY <3>1
  <2>3. CASE fingerprinters' # 0
    <3>1. results' = <<>>
      BY <2>3
    <3> QED
      BY <2>1, <3>1
  <2> QED
    BY <2>2, <2>3
<1>3. \A k \in 1 .. Len(tasks') : FALSE
  BY <1>1
<1>4. fingerprinters' # 0 => Range(results') = {}
  BY <1>1
<1>5. Fingerprinting'
  BY <1>2, <1>3, <1>4 DEF Fingerprinting
<1> QED
  BY <1>5 DEF Detecting

LEMMA RegisterInv ==
  ASSUME RunnerInv, Register
  PROVE  RunnerInv'
<1>1. /\ phase = "setup"
      /\ UNCHANGED <<degraded, phase, step, stage, groupErr, input, tasks, results,
                     found, ret, failed, dropped, detected, reported>>
  BY DEF Register, RegisterPortScanner, RegisterFingerprinter, RegisterDetector, callVars, history
<1>2. RunType /\ Started /\ Staged /\ Numbered /\ Noticed /\ Fingerprinting
  BY DEF RunnerInv
<1>3. fingerprinters \in Nat /\ detectors \in Nat
  BY <1>2, InvTyped
<1>4. fingerprinters' \in Nat /\ detectors' \in Nat
  BY <1>3 DEF Register, RegisterPortScanner, RegisterFingerprinter, RegisterDetector
<1>5. RunType'
  BY <1>1, <1>2, <1>4 DEF RunType
<1>6. Started' /\ Staged' /\ Numbered' /\ Noticed'
  <2>1. Running' = Running
    BY <1>1 DEF Running
  <2> QED
    BY <1>1, <1>2, <2>1 DEF Started, Staged, Numbered, Noticed
<1>7. /\ stage = "fingerprint" /\ tasks = <<>> /\ input = <<>> /\ results = <<>> /\ found = <<>>
      /\ ret.kind = "none" /\ reported = {}
  BY <1>1, <1>2 DEF Started, Staged, Fingerprinting
<1>8. Distinct(<<>>)
  BY EmptySeq DEF Distinct
<1>9. Fingerprinting' /\ Detecting'
  BY <1>1, <1>7, <1>8, EmptySeq, EnterFingerprinting
<1>10. Final'
  BY <1>1, <1>7 DEF Final
<1> QED
  BY <1>5, <1>6, <1>9, <1>10 DEF RunnerInv

LEMMA StartRunInv ==
  ASSUME RunnerInv, StartRun
  PROVE  RunnerInv'
<1>1. /\ UNCHANGED <<fingerprinters, detectors>>
      /\ phase' = "portscan" /\ step' = "check" /\ stage' = "fingerprint"
      /\ degraded' = FALSE /\ failed' = FALSE /\ groupErr' = FALSE
      /\ ret' = NoResult
      /\ input' = <<>> /\ tasks' = <<>> /\ results' = <<>> /\ found' = <<>>
      /\ dropped' = {} /\ reported' = {}
  BY DEF StartRun, setupVars
<1>2. fingerprinters \in Nat /\ detectors \in Nat
  BY InvTyped DEF RunnerInv
<1>3. /\ ret'.kind = "none"
      /\ ret' \in [kind : {"none", "error", "ok"}, status : {"none", "partial", "succeeded"},
                   services : Seq(Services), findings : SUBSET Report, alive : BOOLEAN]
  BY <1>1 DEF NoResult
<1>4. RunType'
  <2> HIDE DEF Services
  <2>1. <<>> \in Seq(Services) /\ <<>> \in Seq(Task) /\ <<>> \in Seq(Item)
    BY EmptySeq
  <2> QED
    BY <1>1, <1>2, <1>3, <2>1 DEF RunType
<1>5. Started' /\ Staged' /\ Numbered' /\ Noticed'
  <2>1. Len(<<>>) = 0
    OBVIOUS
  <2> QED
    BY <1>1, <1>3, <2>1 DEF Started, Staged, Numbered, Noticed
<1>6. Distinct(<<>>)
  BY EmptySeq DEF Distinct
<1>7. Fingerprinting' /\ Detecting'
  BY <1>1, <1>6, EmptySeq, EnterFingerprinting
<1>8. Final'
  BY <1>3 DEF Final
<1> QED
  BY <1>4, <1>5, <1>7, <1>8 DEF RunnerInv

LEMMA PortScanInv ==
  ASSUME RunnerInv, PortScanStep
  PROVE  RunnerInv'
<1>1. /\ phase = "portscan"
      /\ UNCHANGED <<fingerprinters, detectors, degraded, step, groupErr, tasks,
                     failed, dropped, detected, reported>>
  BY DEF PortScanStep, setupVars, history
<1>2. RunType /\ Started /\ Staged /\ Noticed /\ Fingerprinting
  BY DEF RunnerInv
<1>3. step = "check" /\ tasks = <<>> /\ reported = {} /\ ret.kind = "none" /\ groupErr = FALSE
  BY <1>1, <1>2 DEF Started, Staged, Running, RunType, Fingerprinting
<1>4. CASE ReturnError /\ UNCHANGED <<stage, found, input, results>>
  BY <1>1, <1>3, <1>4, ReturnErrorInv
<1>5. CASE /\ \E n \in 0 .. MaxServices :
                LET services == [k \in 1 .. n |-> <<k>>]
                IN  found' = services /\ EnterFingerprint(services)
           /\ phase' = "fingerprint" /\ stage' = "fingerprint" /\ UNCHANGED ret
  <2>1. PICK n \in 0 .. MaxServices : /\ found' = [k \in 1 .. n |-> <<k>>]
                                      /\ EnterFingerprint([k \in 1 .. n |-> <<k>>])
    BY <1>5
  <2>2. n \in Nat
    BY RunnerAssumption
  <2>3. \A k \in 1 .. n : <<k>> \in Services
    BY DEF Services
  <2> DEFINE services == [k \in 1 .. n |-> <<k>>]
  <2>4. services \in Seq(Services) /\ Len(services) = n /\ \A k \in 1 .. n : services[k] = <<k>>
    <3> HIDE DEF Services
    <3> QED
      BY <2>2, <2>3
  <2>5. Distinct(services)
    <3>1. \A i, j \in 1 .. n : i # j => <<i>> # <<j>>
      OBVIOUS
    <3> HIDE DEF services
    <3> QED
      BY <2>4, <3>1 DEF Distinct
  <2> HIDE DEF services
  <2>6. /\ found' = services
        /\ fingerprinters' = 0 => input' = <<>> /\ results' = services
        /\ fingerprinters' # 0 => input' = services /\ results' = <<>>
    BY <1>1, <2>1, Zenon DEF EnterFingerprint, services
  <2>7. Fingerprinting' /\ Detecting'
    BY <1>1, <1>3, <1>5, <2>4, <2>5, <2>6, EnterFingerprinting
  <2>8. /\ input' \in Seq(Services) /\ results' \in Seq(Item) /\ found' \in Seq(Services)
    BY <2>4, <2>6, ItemSeq, EmptySeq
  <2>9. RunType'
    BY <1>1, <1>2, <1>5, <2>8 DEF RunType
  <2>10. Numbered'
    BY <2>4, <2>6 DEF Numbered
  <2>11. Started'
    <3>1. Len(tasks') = 0 /\ Len(input') \in Nat
      BY <1>1, <1>3, <2>8, LenProperties
    <3> QED
      BY <1>1, <1>3, <1>5, <3>1 DEF Started
  <2>12. Staged' /\ Noticed' /\ Final'
    BY <1>1, <1>2, <1>3, <1>5 DEF Staged, Noticed, Final
  <2> QED
    BY <2>7, <2>9, <2>10, <2>11, <2>12 DEF RunnerInv
<1> QED
  BY <1>4, <1>5 DEF PortScanStep

LEMMA LoopCheckInv ==
  ASSUME RunnerInv, LoopCheck
  PROVE  RunnerInv'
<1>1. /\ Running /\ step = "check" /\ Len(tasks) < Len(input)
      /\ UNCHANGED <<fingerprinters, detectors, degraded, stage, found, groupErr, input, tasks,
                     results, failed, dropped, detected, reported>>
  BY DEF LoopCheck, setupVars, history
<1>2. phase \in {"portscan", "fingerprint", "detect"}
  BY <1>1 DEF Running
<1>3. CASE ReturnError /\ UNCHANGED step
  BY <1>1, <1>2, <1>3, ReturnErrorInv
<1>4. CASE step' = "go" /\ UNCHANGED <<phase, ret>>
  <2>1. RunType /\ Started /\ Staged /\ Numbered /\ Noticed /\ Fingerprinting /\ Detecting
    BY DEF RunnerInv
  <2>2. RunType'
    BY <1>1, <1>4, <2>1 DEF RunType
  <2>3. Started' /\ Staged' /\ Numbered' /\ Noticed'
    <3>1. Running'
      BY <1>1, <1>4 DEF Running
    <3> QED
      BY <1>1, <1>2, <1>4, <2>1, <3>1 DEF Started, Staged, Numbered, Noticed
  <2>4. Fingerprinting'
    BY <1>1, <2>1 DEF Fingerprinting
  <2>5. Detecting'
    <3>1. ReportKept' = ReportKept /\ \A r : Pending(r)' = Pending(r)
      BY <1>1, <1>4 DEF ReportKept, Pending
    <3> QED
      BY <1>1, <1>4, <2>1, <3>1 DEF Detecting
  <2>6. Final'
    <3>1. ret.kind = "none"
      BY <1>1, <2>1 DEF Staged, Running
    <3> QED
      BY <1>4, <3>1 DEF Final
  <2> QED
    BY <2>2, <2>3, <2>4, <2>5, <2>6 DEF RunnerInv
<1> QED
  BY <1>3, <1>4, Zenon DEF LoopCheck

LEMMA NewTaskFacts ==
  ASSUME NEW s \in Services
  PROVE  /\ NewTask(s) \in Task
         /\ NewTask(s).svc = s /\ NewTask(s).mod = 1 /\ NewTask(s).pc = "check"
         /\ NewTask(s).todo = <<s>> /\ NewTask(s).acc = <<>>
         /\ Range(<<s>>) = {s}
<1>1. <<s>> \in Seq(Services) /\ <<>> \in Seq(Item) /\ Range(<<s>>) = {s}
  <2> HIDE DEF Services, Item
  <2>1. <<s>> \in Seq(Services) /\ Len(<<s>>) = 1 /\ <<s>>[1] = s
    OBVIOUS
  <2>2. Range(<<s>>) = {<<s>>[i] : i \in 1 .. 1}
    BY <2>1, RangeDef
  <2>3. \A i \in 1 .. 1 : i = 1
    OBVIOUS
  <2> QED
    BY <2>1, <2>2, <2>3, EmptySeq
<1> QED
  BY <1>1 DEF NewTask, Task

LEMMA LoopGoInv ==
  ASSUME RunnerInv, LoopGo
  PROVE  RunnerInv'
<1> DEFINE k == Len(tasks) + 1
           s == input[k]
           u == NewTask(s)
<1>1. /\ Running /\ step = "go" /\ step' = "check"
      /\ tasks' = Append(tasks, u)
      /\ UNCHANGED <<fingerprinters, detectors, degraded, phase, stage, found, ret, groupErr, input,
                     results, failed, dropped, detected, reported>>
  BY DEF LoopGo, setupVars, history
<1>2. RunType /\ Started /\ Staged /\ Numbered /\ Noticed /\ Fingerprinting /\ Detecting
  BY DEF RunnerInv
<1>3. /\ tasks \in Seq(Task) /\ Len(tasks) \in Nat /\ stage \in {"fingerprint", "detect"}
      /\ fingerprinters \in Nat /\ detectors \in Nat
      /\ input \in Seq(Services) /\ Len(input) \in Nat
  BY <1>2, InvTyped, LenProperties
<1>4. Len(tasks) < Len(input)
  BY <1>1, <1>2 DEF Started
<1>5. k \in 1 .. Len(input) /\ s \in Services
  <2>1. k \in 1 .. Len(input)
    BY <1>3, <1>4
  <2> HIDE DEF k
  <2> QED
    BY <1>3, <2>1, ElementOfSeq
<1>6. /\ u \in Task /\ u.svc = s /\ u.mod = 1 /\ u.pc = "check" /\ u.todo = <<s>> /\ u.acc = <<>>
      /\ Range(<<s>>) = {s}
  BY <1>5, NewTaskFacts
<1> HIDE DEF u
<1>7. /\ tasks' \in Seq(Task) /\ Len(tasks') = k /\ tasks'[k] = u
      /\ \A j \in 1 .. Len(tasks) : tasks'[j] = tasks[j]
  BY <1>1, <1>3, <1>6, AppendProperties
<1>8. \A j \in 1 .. Len(tasks') : j \in 1 .. Len(tasks) \/ j = k
  BY <1>3, <1>7
<1>9. \A j \in 1 .. Len(tasks) : j \in 1 .. Len(tasks')
  BY <1>3, <1>7
<1>10. phase \notin {"setup", "portscan", "returned"}
  BY <1>1 DEF Running
<1>11. RunType'
  BY <1>1, <1>2, <1>7 DEF RunType
<1>12. Started'
  <2>1. Len(tasks') <= Len(input)
    BY <1>3, <1>4, <1>7
  <2>2. \A j \in 1 .. Len(tasks') : tasks'[j].svc = input[j]
    BY <1>2, <1>6, <1>7, <1>8 DEF Started
  <2> QED
    BY <1>1, <1>10, <2>1, <2>2 DEF Started
<1>13. Staged' /\ Numbered' /\ Noticed'
  BY <1>1, <1>2 DEF Staged, Numbered, Noticed
<1>14. Final'
  <2>1. ret.kind = "none"
    BY <1>2, <1>10 DEF Staged
  <2> QED
    BY <1>1, <2>1 DEF Final
<1>15. <<>> \in Seq(Services) /\ <<>> \in Seq(Report) /\ Range(<<>>) = {}
  <2> HIDE DEF Services, Report
  <2> QED
    BY EmptySeq DEF Range
<1>16. CASE stage = "fingerprint"
  <2>1. /\ reported = {}
        /\ results \in Seq(Services)
        /\ Distinct(results)
        /\ fingerprinters = 0 => input = <<>> /\ results = found
        /\ fingerprinters # 0 =>
             /\ input = found
             /\ \A x \in Range(results) :
                  \E j \in 1 .. Len(tasks) : tasks[j].pc = "exited" /\ x \in Of(j)
        /\ \A j \in 1 .. Len(tasks) :
             Fingerprints(fingerprinters, j, tasks[j], dropped, Range(results), groupErr)
    BY <1>2, <1>16 DEF Fingerprinting
  <2>2. fingerprinters # 0
    BY <1>3, <1>4, <2>1, EmptySeq
  <2>3. s = <<k>> /\ k \in Nat
    BY <1>2, <1>3, <1>5, <2>1, <2>2 DEF Numbered
  <2> HIDE DEF k, s
  <2>4. s \in Of(k)
    <3>1. Len(<<k>>) = 1 /\ <<k>>[1] = k
      OBVIOUS
    <3> QED
      BY <1>5, <2>3, <3>1 DEF Of
  <2>5. PrefixFree(<<s>>) /\ PrefixFree(<<>>)
    <3>1. Len(<<s>>) = 1
      OBVIOUS
    <3>2. \A i, j \in 1 .. 1 : i = j
      OBVIOUS
    <3> QED
      BY <3>1, <3>2, EmptySeq DEF PrefixFree
  <2>6. Holds(fingerprinters, k, u, dropped)
    BY <1>6, <1>15, <2>4, <2>5 DEF Holds
  <2>7. Fingerprints(fingerprinters, k, u, dropped, Range(results), groupErr)
    BY <1>6, <1>15, <2>6 DEF Fingerprints
  <2>8. \A j \in 1 .. Len(tasks') :
          Fingerprints(fingerprinters, j, tasks'[j], dropped, Range(results), groupErr)
    BY <1>7, <1>8, <2>1, <2>7
  <2>9. \A x \in Range(results) :
          \E j \in 1 .. Len(tasks') : tasks'[j].pc = "exited" /\ x \in Of(j)
    BY <1>7, <1>9, <2>1, <2>2
  <2>10. Fingerprinting'
    <3>1. UNCHANGED <<fingerprinters, input, found, dropped, groupErr, reported, results>>
      BY <1>1
    <3> QED
      BY <2>1, <2>2, <2>8, <2>9, <3>1, Zenon DEF Fingerprinting
  <2>11. Detecting'
    BY <1>1, <1>16 DEF Detecting
  <2> QED
    BY <1>11, <1>12, <1>13, <1>14, <2>10, <2>11 DEF RunnerInv
<1>17. CASE stage = "detect"
  <2>1. /\ results \in Seq(Report)
        /\ phase = "detect" => ReportKept /\ input = IF detectors = 0 THEN <<>> ELSE ret.services
        /\ \A j \in 1 .. Len(tasks) : Shown(detectors, tasks[j], detected, groupErr)
        /\ ~groupErr => \A r : r \in reported <=> r \in Range(results) \/ Pending(r)
    BY <1>2, <1>17 DEF Detecting
  <2> HIDE DEF k, s
  <2>2. Shown(detectors, u, detected, groupErr)
    <3>1. \A d \in 1 .. detectors : ~(d < u.mod)
      BY <1>6
    <3> QED
      BY <1>6, <1>15, <3>1 DEF Shown
  <2>3. \A j \in 1 .. Len(tasks') : Shown(detectors, tasks'[j], detected, groupErr)
    BY <1>7, <1>8, <2>1, <2>2
  <2>4. \A r : Pending(r)' <=> Pending(r)
    <3>1. \A r : r \notin Range(u.acc)
      BY <1>6, <1>15
    <3>2. \A r : (\E j \in 1 .. Len(tasks') : tasks'[j].pc # "exited" /\ r \in Range(tasks'[j].acc))
                   <=> (\E j \in 1 .. Len(tasks) : tasks[j].pc # "exited" /\ r \in Range(tasks[j].acc))
      BY <1>7, <1>8, <1>9, <3>1, Zenon
    <3> QED
      BY <3>2 DEF Pending
  <2>5. ReportKept' = ReportKept
    BY <1>1 DEF ReportKept
  <2>6. ~groupErr => \A r : r \in reported <=> r \in Range(results) \/ Pending(r)'
    BY <2>1, <2>4, Zenon
  <2>7. Detecting'
    BY <1>1, <2>1, <2>3, <2>5, <2>6 DEF Detecting
  <2>8. Fingerprinting'
    BY <1>1, <1>17 DEF Fingerprinting
  <2> QED
    BY <1>11, <1>12, <1>13, <1>14, <2>7, <2>8 DEF RunnerInv
<1> QED
  BY <1>3, <1>16, <1>17

LEMMA FingerprintStepInv ==
  ASSUME RunnerInv, FingerprintStep
  PROVE  RunnerInv'
<1>1. /\ phase = "fingerprint" /\ step = "check" /\ Len(tasks) = Len(input) /\ Active = {}
      /\ UNCHANGED <<fingerprinters, detectors, degraded, step, found, groupErr,
                     failed, dropped, detected, reported>>
  BY DEF FingerprintStep, GroupDone, setupVars, history
<1>2. RunType /\ Started /\ Staged /\ Numbered /\ Noticed /\ Fingerprinting
  BY DEF RunnerInv
<1>3. /\ stage = "fingerprint" /\ ret.kind = "none"
      /\ Len(tasks) \in Nat /\ found \in Seq(Services) /\ groupErr \in BOOLEAN
      /\ fingerprinters \in Nat /\ detectors \in Nat
  BY <1>1, <1>2, InvTyped DEF Staged
<1>4. CASE ReturnError /\ UNCHANGED <<stage, input, results, tasks>>
  BY <1>1, <1>4, ReturnErrorInv
<1>5. CASE /\ ~groupErr
           /\ phase' = "detect" /\ stage' = "detect" /\ EnterDetect(results)
           /\ tasks' = <<>> /\ ret' = [ret EXCEPT !.services = results]
  <2>1. /\ reported = {}
        /\ results \in Seq(Services)
        /\ Distinct(results)
        /\ fingerprinters = 0 => results = found
        /\ fingerprinters # 0 => input = found
        /\ \A k \in 1 .. Len(tasks) :
             Fingerprints(fingerprinters, k, tasks[k], dropped, Range(results), groupErr)
    BY <1>2, <1>3 DEF Fingerprinting
  <2>2. /\ ret'.services = results /\ ret'.kind = "none"
        /\ ret' \in [kind : {"none", "error", "ok"}, status : {"none", "partial", "succeeded"},
                     services : Seq(Services), findings : SUBSET Report, alive : BOOLEAN]
    BY <1>2, <1>3, <1>5, <2>1 DEF RunType
  <2>3. results' = <<>> /\ input' = IF detectors = 0 THEN <<>> ELSE results
    BY <1>5 DEF EnterDetect
  <2>4. /\ input' \in Seq(Services) /\ results' \in Seq(Item) /\ results' \in Seq(Report)
        /\ tasks' \in Seq(Task) /\ Len(tasks') = 0 /\ Range(results') = {}
    <3> HIDE DEF Services, Report, Item, Task
    <3>1. input' \in Seq(Services)
      BY <2>1, <2>3, EmptySeq
    <3>2. \A S : <<>> \in Seq(S)
      BY EmptySeq
    <3>3. Range(<<>>) = {}
      BY DEF Range
    <3> QED
      BY <1>5, <2>3, <3>1, <3>2, <3>3
  <2>5. RunType'
    BY <1>1, <1>2, <1>5, <2>2, <2>4 DEF RunType
  <2>6. Started' /\ Staged' /\ Numbered' /\ Noticed' /\ Final'
    <3>1. Len(input') \in Nat
      BY <2>4, LenProperties
    <3> QED
      BY <1>1, <1>2, <1>5, <2>2, <2>4, <3>1 DEF Started, Staged, Numbered, Noticed, Final
  \* Every goroutine is done, and none has failed.
  <2>7. ASSUME NEW s \in Range(found)
        PROVE  \E x \in Range(results) \cup dropped : Descends(x, s)
    <3>1. PICK k \in 1 .. Len(found) : s = found[k]
      BY <1>3, RangeDef
    <3>2. s = <<k>> /\ s \in Services /\ k \in Nat
      BY <1>2, <1>3, <3>1, RangeDef DEF Numbered
    <3>3. CASE fingerprinters = 0
      BY <2>1, <3>2, <3>3, DescendsSelf
    <3>4. CASE fingerprinters # 0
      <4>1. k \in 1 .. Len(tasks)
        BY <1>1, <2>1, <3>4
      <4>2. tasks[k].pc = "exited"
        BY <1>1, <4>1 DEF Active
      <4>3. Fingerprints(fingerprinters, k, tasks[k], dropped, Range(results), groupErr)
        BY <2>1, <4>1
      <4>4. PICK x \in Of(k) : x \in Range(results) \cup dropped
        BY <1>5, <4>2, <4>3 DEF Fingerprints
      <4>5. Descends(x, s)
        BY <3>2, <4>4, OfDescends
      <4> QED
        BY <4>4, <4>5
    <3> QED
      BY <3>3, <3>4
  <2>8. ReportKept'
    BY <1>1, <2>1, <2>2, <2>7 DEF ReportKept
  <2>9. Detecting'
    <3>1. \A k \in 1 .. Len(tasks') : FALSE
      BY <2>4
    <3>2. \A r : ~Pending(r)'
      BY <3>1 DEF Pending
    <3>3. input' = IF detectors' = 0 THEN <<>> ELSE ret'.services
      BY <1>1, <2>2, <2>3
    <3> QED
      BY <1>1, <2>1, <2>4, <2>8, <3>1, <3>2, <3>3 DEF Detecting
  <2>10. Fingerprinting'
    BY <1>5 DEF Fingerprinting
  <2> QED
    BY <2>5, <2>6, <2>9, <2>10 DEF RunnerInv
<1> QED
  <2>1. CASE groupErr
    BY <1>4, <2>1, Zenon DEF FingerprintStep
  <2>2. CASE ~groupErr
    BY <1>5, <2>2, Zenon DEF FingerprintStep
  <2> QED
    BY <2>1, <2>2

LEMMA DetectStepInv ==
  ASSUME RunnerInv, DetectStep
  PROVE  RunnerInv'
<1>1. /\ phase = "detect" /\ step = "check" /\ Len(tasks) = Len(input) /\ Active = {}
      /\ UNCHANGED <<fingerprinters, detectors, degraded, step, stage, found, groupErr, input, tasks,
                     results, failed, dropped, detected, reported>>
  BY DEF DetectStep, GroupDone, setupVars, history
<1>2. RunType /\ Started /\ Staged /\ Numbered /\ Noticed /\ Detecting
  BY DEF RunnerInv
<1>3. CASE ReturnError
  BY <1>1, <1>3, ReturnErrorInv
<1> DEFINE final == [kind     |-> "ok",
                     status   |-> IF degraded THEN "partial" ELSE "succeeded",
                     services |-> ret.services,
                     findings |-> {r \in Range(results) : r.good},
                     alive    |-> Len(found) > 0]
<1>4. CASE ~groupErr /\ phase' = "returned" /\ ret' = final
  <2>1. stage = "detect" /\ Len(tasks) \in Nat /\ detectors \in Nat
    BY <1>1, <1>2, InvTyped DEF Staged
  <2>2. /\ results \in Seq(Report)
        /\ ReportKept
        /\ input = IF detectors = 0 THEN <<>> ELSE ret.services
        /\ \A k \in 1 .. Len(tasks) : Shown(detectors, tasks[k], detected, groupErr)
        /\ \A r : r \in reported <=> r \in Range(results) \/ Pending(r)
    BY <1>1, <1>2, <1>4, <2>1 DEF Detecting
  <2>3. \A k \in 1 .. Len(tasks) : tasks[k].pc = "exited"
    BY <1>1 DEF Active
  <2>4. reported = Range(results)
    BY <2>2, <2>3 DEF Pending
  <2>5. /\ ret'.kind = "ok" /\ ret'.services = ret.services
        /\ ret'.findings = {r \in Range(results) : r.good}
        /\ failed => ret'.status = "partial"
    BY <1>2, <1>4 DEF Noticed
  <2>6. ret.services \in Seq(Services)
    BY <1>2 DEF RunType
  <2>7. ret' \in [kind : {"none", "error", "ok"}, status : {"none", "partial", "succeeded"},
                  services : Seq(Services), findings : SUBSET Report, alive : BOOLEAN]
    <3> HIDE DEF Services, Report
    <3>1. {r \in Range(results) : r.good} \in SUBSET Report
      BY <2>2, RangeDef
    <3>2. (Len(found) > 0) \in BOOLEAN
      OBVIOUS
    <3>3. (IF degraded THEN "partial" ELSE "succeeded") \in {"none", "partial", "succeeded"}
      OBVIOUS
    <3> QED
      BY <1>4, <2>6, <3>1, <3>2, <3>3
  <2>8. RunType'
    BY <1>1, <1>2, <1>4, <2>7 DEF RunType
  <2>9. Started' /\ Staged' /\ Numbered' /\ Noticed'
    BY <1>1, <1>2, <1>4 DEF Started, Staged, Numbered, Noticed
  <2>10. Fingerprinting'
    BY <1>1, <2>1 DEF Fingerprinting
  <2>11. Detecting'
    <3>1. \A r : Pending(r)' = Pending(r)
      BY <1>1 DEF Pending
    <3> QED
      BY <1>1, <1>4, <2>2, <3>1 DEF Detecting
  <2>12. EveryServiceDetected'
    <3> SUFFICES ASSUME NEW s \in Range(ret.services), NEW d \in 1 .. detectors
                 PROVE  <<d, s>> \in detected
      BY <1>1, <2>5 DEF EveryServiceDetected
    <3>1. input = ret.services
      BY <2>1, <2>2
    <3>2. PICK k \in 1 .. Len(input) : s = input[k]
      BY <2>6, <3>1, RangeDef
    <3>3. k \in 1 .. Len(tasks) /\ tasks[k].svc = s
      BY <1>1, <1>2, <3>2 DEF Started
    <3>4. tasks[k].mod > detectors /\ tasks[k].mod \in Nat
      <4>1. Shown(detectors, tasks[k], detected, groupErr)
        BY <2>2, <3>3
      <4>2. tasks[k] \in Task
        BY <1>2, <3>3, InvTyped
      <4> QED
        BY <1>4, <2>3, <3>3, <4>1, <4>2, TaskTyped DEF Shown
    <3>5. d < tasks[k].mod
      BY <2>1, <3>4
    <3> QED
      BY <2>2, <3>3, <3>5 DEF Shown
  <2>13. ServicesKept'
    <3>1. Cardinality(Range(ret.services)) = Len(ret.services)
      BY <2>2, <2>6, DistinctCount DEF ReportKept
    <3> QED
      BY <1>1, <2>2, <2>5, <3>1 DEF ServicesKept, ReportKept
  <2>14. FindingsExact'
    BY <1>1, <2>4, <2>5 DEF FindingsExact
  <2>15. Final'
    <3>1. Active' = {}
      BY <1>1 DEF Active
    <3> QED
      BY <1>4, <2>12, <2>13, <2>14, <3>1 DEF Final, ServicesExact
  <2> QED
    BY <2>8, <2>9, <2>10, <2>11, <2>15 DEF RunnerInv
<1> QED
  <2>1. CASE groupErr
    BY <1>3, <2>1, Zenon DEF DetectStep
  <2>2. CASE ~groupErr
    BY <1>4, <2>2, Zenon DEF DetectStep
  <2> QED
    BY <2>1, <2>2

-----------------------------------------------------------------------------
(* The invariant, and what it shows.                                       *)

LEMMA InitInv == Init => RunnerInv
<1> SUFFICES ASSUME Init
             PROVE  RunnerInv
  OBVIOUS
<1>1. /\ fingerprinters = 0 /\ detectors = 0 /\ degraded = FALSE /\ failed = FALSE
      /\ phase = "setup" /\ step = "check" /\ stage = "fingerprint" /\ groupErr = FALSE
      /\ input = <<>> /\ tasks = <<>> /\ results = <<>> /\ found = <<>>
      /\ ret = NoResult /\ dropped = {} /\ reported = {}
  BY DEF Init
<1>2. /\ ret.kind = "none"
      /\ ret \in [kind : {"none", "error", "ok"}, status : {"none", "partial", "succeeded"},
                  services : Seq(Services), findings : SUBSET Report, alive : BOOLEAN]
  BY <1>1 DEF NoResult
<1>3. RunType
  <2> HIDE DEF Services
  <2>1. <<>> \in Seq(Services) /\ <<>> \in Seq(Task) /\ <<>> \in Seq(Item)
    BY EmptySeq
  <2> QED
    BY <1>1, <1>2, <2>1 DEF RunType
<1>4. Len(<<>>) = 0 /\ <<>> \in Seq(Services) /\ \A k \in 1 .. Len(<<>>) : FALSE
  <2>1. \A k \in 1 .. 0 : FALSE
    OBVIOUS
  <2> HIDE DEF Services
  <2> QED
    BY <2>1, EmptySeq
<1>5. Started /\ Staged /\ Numbered /\ Noticed /\ Final
  BY <1>1, <1>2, <1>4 DEF Started, Staged, Numbered, Noticed, Final
<1>6. Fingerprinting
  BY <1>1, <1>4 DEF Fingerprinting, Distinct
<1>7. Detecting
  BY <1>1 DEF Detecting
<1> QED
  BY <1>3, <1>5, <1>6, <1>7 DEF RunnerInv

LEMMA NextInv == RunnerInv /\ [Next]_vars => RunnerInv'
<1> SUFFICES ASSUME RunnerInv, [Next]_vars
             PROVE  RunnerInv'
  OBVIOUS
<1>1. degraded \in BOOLEAN
  BY DEF RunnerInv, RunType
<1>2. CASE Register
  BY <1>2, RegisterInv
<1>3. CASE StartRun
  BY <1>3, StartRunInv
<1>4. CASE PortScanStep
  BY <1>4, PortScanInv
<1>5. CASE LoopCheck
  BY <1>5, LoopCheckInv
<1>6. CASE LoopGo
  BY <1>6, LoopGoInv
<1>7. CASE FingerprintStep
  BY <1>7, FingerprintStepInv
<1>8. CASE DetectStep
  BY <1>8, DetectStepInv
<1>9. CASE \E k \in 1 .. Len(tasks) : TaskStep(k)
  <2>1. PICK k \in 1 .. Len(tasks) : TaskStep(k)
    BY <1>9
  <2> QED
    BY <2>1, BeginInv, FingerprintedInv, DetectedInv, AppendInv, ReturnErrInv DEF TaskStep
<1>10. CASE StaleReturn
  <2>1. degraded' = degraded \/ degraded' = TRUE
    BY <1>10 DEF StaleReturn
  <2>2. degraded' \in BOOLEAN /\ (degraded => degraded')
    <3>1. CASE degraded' = degraded
      BY <1>1, <3>1
    <3>2. CASE degraded' = TRUE
      BY <3>2
    <3> QED
      BY <2>1, <3>1, <3>2
  <2>3. UNCHANGED <<fingerprinters, detectors, phase, step, stage, groupErr, input, tasks, results,
                    found, ret, failed, dropped, detected, reported>>
    BY <1>10 DEF StaleReturn, setupVars, history
  <2> QED
    BY <2>2, <2>3, DegradedInv
<1>11. CASE Cancel
  BY <1>1, <1>11, DegradedInv DEF Cancel, setupVars, callVars, history
<1>12. CASE Terminated \/ UNCHANGED vars
  BY <1>1, <1>12, DegradedInv DEF Terminated, vars, setupVars, callVars, history
<1> QED
  BY <1>2, <1>3, <1>4, <1>5, <1>6, <1>7, <1>8, <1>9, <1>10, <1>11, <1>12 DEF Next

LEMMA RunnerIsInvariant == Spec => []RunnerInv
BY InitInv, NextInv, PTL DEF Spec

\* A scan that is reported has lost no service: each one of the port scan, or what
\* it was split into, is in the report once unless a fingerprinter removed it, and
\* every service of the report has been shown to every detector, whatever modules
\* failed and however the goroutines of runConcurrent interleaved.
THEOREM ServicesAreExact == Spec => []ServicesExact
<1>1. RunnerInv => ServicesExact
  BY DEF RunnerInv, Final, ServicesExact, EveryServiceDetected, ServicesKept
<1> QED
  BY <1>1, RunnerIsInvariant, PTL

\* The findings of a reported scan are the positive reports the detectors returned,
\* none lost by an append of concurrent goroutines, and a scan in which a module
\* failed is not reported as a full success, even after runs that left goroutines
\* behind.
THEOREM FindingsAreExact == Spec => []FindingsExact
<1>1. RunnerInv => FindingsExact
  BY DEF RunnerInv, Final, FindingsExact
<1> QED
  BY <1>1, RunnerIsInvariant, PTL

-----------------------------------------------------------------------------
(* The process around the runner.                                          *)

Starting == {"flags", "advisories", "config", "directories"}

Underway == {"entrypoint", "servers", "portscan", "portscan failed", "services",
             "fingerprint", "detect", "metrics", "results"}

\* What exists and what the command line is, by the step that was reached.
Filed ==
  /\ pc \in Starting => DOMAIN files = {}
  /\ pc \notin {"close", "exit"} => "results" \notin DOMAIN files
  /\ pc # "exit" => "advisories" \notin DOMAIN files
  /\ pc = "exit" /\ "tempfiles" \in DOMAIN files => "cache" \notin DOMAIN files
  /\ pc = "advisories" => flags.advisories
  /\ pc \in Underway \cup {"config", "directories", "close"} => ~flags.advisories

Served ==
  /\ pc \in Starting \cup {"entrypoint", "servers"} => servers = {}
  /\ pc \in {"close", "exit"} => servers # ToSet(ServerParts)

\* Before the runner returns there is nothing to export; afterwards the program
\* goes on only when the export is there.
Measured ==
  /\ pc \notin {"metrics", "results", "close", "exit"} => atReturn = NoCalls
  /\ pc \in {"results", "close", "exit"} /\ atReturn # NoCalls /\ flags.metrics =>
       export.state = "done"

Reportable(name) == result = "ok" <=> At(files, name, "") = "whole"

Answered ==
  /\ pc = "close" => Reportable("results")
  /\ pc = "exit" => Reportable(IF flags.advisories THEN "advisories" ELSE "results")

ProcessInv ==
  /\ pc \in Starting \cup Underway \cup {"close", "exit"}
  /\ Filed /\ Served /\ Measured /\ Answered

\* A file that is written changes no other, and is whole if all went well.
LEMMA Written ==
  ASSUME NEW name, NEW ok \in BOOLEAN, WriteFile(name, ok)
  PROVE  /\ \A n : n # name => (n \in DOMAIN files' <=> n \in DOMAIN files)
         /\ ok => At(files', name, "") = "whole"
         /\ ~ok /\ name \notin DOMAIN files => At(files', name, "") # "whole"
<1>1. CASE ok
  <2>1. files' = Put(files, name, "whole")
    BY <1>1 DEF WriteFile
  <2> QED
    BY <1>1, <2>1 DEF Put, At
<1>2. CASE ~ok
  <2>1. files' = files \/ files' = Put(files, name, "partial")
    BY <1>2 DEF WriteFile
  <2> QED
    BY <1>2, <2>1 DEF Put, At
<1> QED
  BY <1>1, <1>2

\* Fewer than all the parts of a list, taken in order, lack the last one.
LEMMA LastMissing ==
  ASSUME NEW a, NEW b, NEW c, a # c, b # c, NEW n \in 0 .. 2
  PROVE  c \notin ToSet(SubSeq(<<a, b, c>>, 1, n))
<1> DEFINE list == <<a, b, c>>
<1>1. list \in Seq({a, b, c}) /\ Len(list) = 3 /\ list[1] = a /\ list[2] = b
  OBVIOUS
<1>2. /\ Len(SubSeq(list, 1, n)) = n
      /\ \A i \in 1 .. n : SubSeq(list, 1, n)[i] = list[i]
      /\ SubSeq(list, 1, n) \in Seq({a, b, c})
  BY <1>1, SubSeqProperties
<1>3. DOMAIN SubSeq(list, 1, n) = 1 .. n
  BY <1>2
<1>4. \A i \in 1 .. n : SubSeq(list, 1, n)[i] # c
  BY <1>1, <1>2
<1> QED
  BY <1>3, <1>4 DEF ToSet

LEMMA ProcessStarts == ScannerInit => ProcessInv
BY DEF ScannerInit, ProcessInv, Starting, Underway, Filed, Served, Measured, Answered, ServerParts

LEMMA PartsThere == "dns" \in ToSet(ServerParts)
<1>1. ServerParts[3] = "dns" /\ 3 \in DOMAIN ServerParts
  BY DEF ServerParts
<1> QED
  BY <1>1 DEF ToSet

\* Before the directories exist.
LEMMA StartKept ==
  ASSUME ProcessInv, ValidateFlags \/ DumpAdvisories \/ LoadConfig
  PROVE  ProcessInv'
<1> USE DEF Starting, Underway
<1>1. Filed /\ Served /\ Measured
  BY DEF ProcessInv
<1>2. CASE ValidateFlags
  <2>1. /\ pc = "flags" /\ UNCHANGED <<flags, files, servers, atReturn, metricsVars>>
        /\ \/ pc' = "advisories" /\ flags.advisories
           \/ pc' = "config" /\ ~flags.advisories
           \/ pc' = "exit" /\ result' = "error"
    BY <1>2, Zenon DEF ValidateFlags, Leave
  <2>2. Filed' /\ Served' /\ Measured'
    BY <1>1, <2>1, PartsThere DEF Filed, Served, Measured
  <2>3. Answered'
    BY <1>1, <2>1 DEF Answered, Reportable, At, Filed
  <2> QED
    BY <2>1, <2>2, <2>3 DEF ProcessInv
<1>3. CASE DumpAdvisories
  <2>1. /\ pc = "advisories" /\ pc' = "exit" /\ flags.advisories
        /\ UNCHANGED <<flags, servers, atReturn, metricsVars>>
    BY <1>1, <1>3 DEF DumpAdvisories, Leave, Filed
  <2>2. \/ UNCHANGED files /\ result' = "error"
        \/ \E ok \in BOOLEAN :
             WriteFile("advisories", ok) /\ result' = IF ok THEN "ok" ELSE "error"
    BY <1>3, Zenon DEF DumpAdvisories, Leave
  <2>3. "tempfiles" \notin DOMAIN files' /\ Reportable("advisories")'
    <3>1. DOMAIN files = {}
      BY <1>1, <2>1 DEF Filed
    <3>2. CASE UNCHANGED files /\ result' = "error"
      BY <3>1, <3>2 DEF Reportable, At
    <3>3. ASSUME NEW ok \in BOOLEAN, WriteFile("advisories", ok),
                 result' = IF ok THEN "ok" ELSE "error"
          PROVE  "tempfiles" \notin DOMAIN files' /\ Reportable("advisories")'
      BY <3>1, <3>3, Written DEF Reportable
    <3> QED
      BY <2>2, <3>2, <3>3
  <2> QED
    BY <1>1, <2>1, <2>3, PartsThere DEF ProcessInv, Filed, Served, Measured, Answered
<1>4. CASE LoadConfig
  <2>1. /\ pc = "config" /\ UNCHANGED <<flags, files, servers, atReturn, metricsVars>>
        /\ \/ pc' = "directories"
           \/ pc' = "exit" /\ result' = "error"
    <3>1. pc = "config" /\ UNCHANGED <<flags, files, servers, atReturn, metricsVars>>
      BY <1>4, Zenon DEF LoadConfig
    <3>2. \/ \E file \in flags.config :
                IF ApplyOverrides(file, flags.overrides).ok
                THEN pc' = "directories" /\ UNCHANGED result ELSE Leave("error")
          \/ Leave("error")
      BY <1>4, Zenon DEF LoadConfig
    <3> QED
      BY <3>1, <3>2, Zenon DEF Leave
  <2> QED
    BY <1>1, <2>1, PartsThere
    DEF ProcessInv, Filed, Served, Measured, Answered, Reportable, At
<1> QED
  BY <1>2, <1>3, <1>4

\* What is created, and how the program leaves when a part of it cannot be.
LEMMA SetUpKept ==
  ASSUME ProcessInv, CreateDirectories \/ NewEntrypoint \/ StartCallbackServer
  PROVE  ProcessInv'
<1> USE DEF Starting, Underway
<1>1. Filed /\ Served /\ Measured
  BY DEF ProcessInv
<1>2. CASE CreateDirectories
  <2>1. PICK n \in 0 .. 3 :
          /\ files' = [d \in ToSet(SubSeq(Directories, 1, n)) |-> "whole"]
          /\ IF n = 3 THEN pc' = "entrypoint" /\ UNCHANGED result ELSE Leave("error")
    BY <1>2 DEF CreateDirectories
  <2>2. pc = "directories" /\ UNCHANGED <<flags, servers, atReturn, metricsVars>>
    BY <1>2 DEF CreateDirectories
  <2>3. DOMAIN files' \subseteq {"tempfiles", "artifacts", "cache"}
    <3>1. /\ Directories \in Seq({"tempfiles", "artifacts", "cache"})
          /\ Len(Directories) = 3
      BY DEF Directories
    <3> DEFINE names == {"tempfiles", "artifacts", "cache"}
    <3> HIDE DEF names
    <3>2. SubSeq(Directories, 1, n) \in Seq(names)
      <4>1. Directories \in Seq(names) /\ 1 \in 1 .. Len(Directories) + 1 /\ n \in 0 .. Len(Directories)
        BY <3>1 DEF names
      <4> QED
        BY <4>1, SubSeqProperties
    <3>3. ToSet(SubSeq(Directories, 1, n)) \subseteq names
      BY <3>2 DEF ToSet
    <3> QED
      BY <2>1, <3>3 DEF names
  <2>4. CASE n = 3
    BY <1>1, <2>1, <2>2, <2>3, <2>4 DEF ProcessInv, Filed, Served, Measured, Answered
  <2>5. CASE n # 3
    <3>1. "cache" \notin DOMAIN files'
      BY <2>1, <2>5, LastMissing DEF Directories
    <3>2. pc' = "exit" /\ result' = "error"
      BY <2>1, <2>5 DEF Leave
    <3> QED
      BY <1>1, <2>2, <2>3, <3>1, <3>2, PartsThere
      DEF ProcessInv, Filed, Served, Measured, Answered, Reportable, At
  <2> QED
    BY <2>4, <2>5
<1>3. CASE NewEntrypoint
  <2>1. /\ pc = "entrypoint" /\ UNCHANGED <<flags, files, servers, atReturn>>
        /\ \/ pc' = "servers"
           \/ pc' = "close" /\ result' \in {"error", "panic"}
    <3>1. pc = "entrypoint" /\ UNCHANGED <<flags, files, servers, atReturn>>
      BY <1>3, Zenon DEF NewEntrypoint
    <3>2. \/ LeaveClosing("panic")
          \/ pc' = "servers"
          \/ LeaveClosing("error")
      BY <1>3, Zenon DEF NewEntrypoint
    <3> QED
      BY <3>1, <3>2 DEF LeaveClosing
  <2> QED
    BY <1>1, <2>1, PartsThere
    DEF ProcessInv, Filed, Served, Measured, Answered, Reportable, At
<1>4. CASE StartCallbackServer
  <2>1. PICK n \in 0 .. 3 :
          /\ servers' = ToSet(SubSeq(ServerParts, 1, n))
          /\ IF n = 3 THEN pc' = "portscan" /\ UNCHANGED result ELSE LeaveClosing("error")
    BY <1>4 DEF StartCallbackServer
  <2>2. pc = "servers" /\ UNCHANGED <<flags, files, atReturn, metricsVars>>
    BY <1>4 DEF StartCallbackServer
  <2>3. CASE n = 3
    BY <1>1, <2>1, <2>2, <2>3 DEF ProcessInv, Filed, Served, Measured, Answered
  <2>4. CASE n # 3
    <3>1. servers' # ToSet(ServerParts)
      BY <2>1, <2>4, LastMissing, PartsThere DEF ServerParts
    <3>2. pc' = "close" /\ result' = "error"
      BY <2>1, <2>4 DEF LeaveClosing
    <3> QED
      BY <1>1, <2>2, <3>1, <3>2
      DEF ProcessInv, Filed, Served, Measured, Answered, Reportable, At
  <2> QED
    BY <2>3, <2>4
<1> QED
  BY <1>2, <1>3, <1>4

\* While the runner runs nothing else changes; its return is noted.
LEMMA ScanKept ==
  ASSUME ProcessInv, Scan \/ StrayRequest \/ StrayFailed
  PROVE  ProcessInv'
<1> USE DEF Starting, Underway
<1> DEFINE Scans == {"portscan", "portscan failed", "services", "fingerprint", "detect"}
<1>1. Filed /\ Served /\ Measured /\ Answered
  BY DEF ProcessInv
<1>2. UNCHANGED <<flags, files, servers, export>>
  <2>1. CASE PortScan
    BY <2>1 DEF PortScan, Observe
  <2>2. CASE PortScanFailed
    BY <2>2 DEF PortScanFailed, Add
  <2>3. CASE ServicesDiscovered
    BY <2>3 DEF ServicesDiscovered, Add
  <2>4. CASE FingerprintsDone \/ DetectionsDone
    BY <2>4 DEF FingerprintsDone, DetectionsDone, Observe, metricsVars
  <2>5. ASSUME NEW s \in discovered,
               Request(s) \/ RequestFailed(s) \/ ModuleEnds(s) \/ ModuleFailed(s) \/ ModuleDone(s)
        PROVE  UNCHANGED <<flags, files, servers, export>>
    BY <2>5, Zenon
    DEF Request, RequestFailed, ModuleEnds, ModuleFailed, ModuleDone, workSame, Add, Observe,
        metricsVars
  <2>6. CASE StrayRequest \/ StrayFailed
    BY <2>6, Zenon DEF StrayRequest, StrayFailed, Add
  <2> QED
    BY <2>1, <2>2, <2>3, <2>4, <2>5, <2>6 DEF Scan
<1>3. \/ UNCHANGED <<pc, atReturn, result>>
      \/ pc \in Scans /\ pc' \in Scans /\ UNCHANGED <<atReturn, result>>
      \/ pc \in Scans /\ pc' = "metrics"
  <2>1. CASE PortScan
    BY <2>1, Zenon DEF PortScan
  <2>2. CASE PortScanFailed
    BY <2>2 DEF PortScanFailed
  <2>3. CASE ServicesDiscovered
    BY <2>3 DEF ServicesDiscovered
  <2>4. CASE FingerprintsDone \/ DetectionsDone
    BY <2>4 DEF FingerprintsDone, DetectionsDone
  <2>5. ASSUME NEW s \in discovered,
               Request(s) \/ RequestFailed(s) \/ ModuleEnds(s) \/ ModuleFailed(s) \/ ModuleDone(s)
        PROVE  UNCHANGED <<pc, atReturn, result>>
    BY <2>5, Zenon
    DEF Request, RequestFailed, ModuleEnds, ModuleFailed, ModuleDone, workSame
  <2>6. CASE StrayRequest \/ StrayFailed
    BY <2>6, Zenon DEF StrayRequest, StrayFailed
  <2> QED
    BY <2>1, <2>2, <2>3, <2>4, <2>5, <2>6 DEF Scan
<1>4. CASE UNCHANGED <<pc, atReturn, result>>
  BY <1>1, <1>2, <1>4
  DEF ProcessInv, Filed, Served, Measured, Answered, Reportable, At
<1>5. CASE pc \in Scans /\ pc' \in Scans /\ UNCHANGED <<atReturn, result>>
  BY <1>1, <1>2, <1>5 DEF ProcessInv, Filed, Served, Measured, Answered
<1>6. CASE pc \in Scans /\ pc' = "metrics"
  BY <1>1, <1>2, <1>6 DEF ProcessInv, Filed, Served, Measured, Answered
<1> QED
  BY <1>3, <1>4, <1>5, <1>6

\* The metrics, the results and the deferred calls.
LEMMA EndKept ==
  ASSUME ProcessInv, WriteMetrics \/ WriteResults \/ Close
  PROVE  ProcessInv'
<1> USE DEF Starting, Underway
<1>1. Filed /\ Served /\ Measured /\ Answered
  BY DEF ProcessInv
<1>2. CASE WriteMetrics
  <2>1. pc = "metrics" /\ UNCHANGED <<flags, servers, atReturn, result>>
    BY <1>2 DEF WriteMetrics
  <2>2. \/ pc' = "results" /\ UNCHANGED <<files, metricsVars>> /\ ~flags.metrics
        \/ UNCHANGED <<pc, files>>
        \/ /\ pc' = "results" /\ export.state = "done" /\ UNCHANGED metricsVars
           /\ \E ok \in BOOLEAN : WriteFile("metrics", ok)
    BY <1>2, Zenon DEF WriteMetrics, MetricsDone
  <2>3. CASE pc' = "results" /\ UNCHANGED <<files, metricsVars>> /\ ~flags.metrics
    BY <1>1, <2>1, <2>3 DEF ProcessInv, Filed, Served, Measured, Answered
  <2>4. CASE UNCHANGED <<pc, files>>
    BY <1>1, <2>1, <2>4 DEF ProcessInv, Filed, Served, Measured, Answered
  <2>5. CASE /\ pc' = "results" /\ export.state = "done" /\ UNCHANGED metricsVars
             /\ \E ok \in BOOLEAN : WriteFile("metrics", ok)
    <3>1. \A n \in {"results", "advisories"} : n \notin DOMAIN files'
      BY <1>1, <2>1, <2>5, Written DEF Filed
    <3> QED
      BY <1>1, <2>1, <2>5, <3>1
      DEF ProcessInv, Filed, Served, Measured, Answered, metricsVars
  <2> QED
    BY <2>2, <2>3, <2>4, <2>5
<1>3. CASE WriteResults
  <2>1. /\ pc = "results" /\ pc' = "close" /\ servers' = {}
        /\ UNCHANGED <<flags, atReturn, metricsVars>>
    BY <1>3 DEF WriteResults
  <2>2. \/ result = "error" /\ UNCHANGED <<files, result>>
        \/ \E ok \in BOOLEAN :
             WriteFile("results", ok) /\ result' = IF ok THEN "ok" ELSE "error"
    BY <1>3, Zenon DEF WriteResults
  <2>3. "advisories" \notin DOMAIN files' /\ Reportable("results")'
    <3>1. "advisories" \notin DOMAIN files /\ "results" \notin DOMAIN files
      BY <1>1, <2>1 DEF Filed
    <3>2. CASE result = "error" /\ UNCHANGED <<files, result>>
      BY <3>1, <3>2 DEF Reportable, At
    <3>3. ASSUME NEW ok \in BOOLEAN, WriteFile("results", ok),
                 result' = IF ok THEN "ok" ELSE "error"
          PROVE  "advisories" \notin DOMAIN files' /\ Reportable("results")'
      BY <3>1, <3>3, Written DEF Reportable
    <3> QED
      BY <2>2, <3>2, <3>3
  <2> QED
    BY <1>1, <2>1, <2>3, PartsThere
    DEF ProcessInv, Filed, Served, Measured, Answered, metricsVars
<1>4. CASE Close
  <2>1. /\ pc = "close" /\ pc' = "exit"
        /\ files' = [f \in DOMAIN files \ {"tempfiles"} |-> files[f]]
        /\ UNCHANGED <<flags, servers, atReturn, result, metricsVars>>
    BY <1>4 DEF Close
  <2>2. Reportable("results")' /\ ~flags.advisories
    BY <1>1, <2>1 DEF Answered, Reportable, At, Filed
  <2> QED
    BY <1>1, <2>1, <2>2
    DEF ProcessInv, Filed, Served, Measured, Answered, metricsVars
<1> QED
  BY <1>2, <1>3, <1>4

\* However run() ends, in whatever step something fails and whatever goroutines
\* are left behind: the results are whole exactly when it reports success, the
\* metrics of a scan that ran were exported, and what was created is undone.
THEOREM ExitIsClean == ScannerSpec => []ExitClean
<1>1. ProcessInv /\ [ScannerNext]_programVars => ProcessInv'
  <2> SUFFICES ASSUME ProcessInv, [ScannerNext]_programVars
               PROVE  ProcessInv'
    OBVIOUS
  <2>1. CASE UNCHANGED programVars
    BY <2>1
    DEF programVars, scannerVars, metricsVars, ProcessInv, Filed, Served, Measured, Answered,
        Reportable, At
  <2>2. CASE ScannerNext
    BY <2>2, StartKept, SetUpKept, ScanKept, EndKept, Zenon DEF ScannerNext
  <2> QED
    BY <2>1, <2>2
<1>2. ProcessInv => ExitClean
  <2> SUFFICES ASSUME ProcessInv, pc = "exit"
               PROVE  ExitClean
    BY DEF ExitClean
  <2>1. Reportable(IF flags.advisories THEN "advisories" ELSE "results")
    BY DEF ProcessInv, Answered
  <2>2. /\ atReturn # NoCalls /\ flags.metrics => export.state = "done"
        /\ "tempfiles" \in DOMAIN files => "cache" \notin DOMAIN files
        /\ servers # ToSet(ServerParts)
    BY DEF ProcessInv, Filed, Served, Measured
  <2> QED
    BY <2>1, <2>2, Zenon DEF ExitClean, Reportable
<1> QED
  BY <1>1, <1>2, ProcessStarts, PTL DEF ScannerSpec
=============================================================================
