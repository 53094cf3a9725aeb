------------------------------ MODULE PageStore ------------------------------
(***************************************************************************)
(* How the web fingerprinter keeps the pages it has seen: processPage and  *)
(* writeToArtifacts of plugins/fingerprint/webidentity, and the space      *)
(* accounting of its storage package.  The callbacks of all crawls of a    *)
(* scan run at once on one Storage and one artifacts directory.            *)
(*                                                                         *)
(* A page is known by its hash, which is the name of its file, and pages   *)
(* with the same hash have the same size.  os.WriteFile empties the file   *)
(* and then writes it; when that fails the file stays cut short.           *)
(***************************************************************************)
EXTENDS Integers, FiniteSets

CONSTANTS
  Pages,      \* the pages that crawls hand to the callback
  Hashes,     \* hashes of pages
  HashOf,     \* HashOf[p]: the hash of page p
  Size,       \* Size[h]: the size of the pages with hash h
  MaxFile,    \* maximum_file_size_bytes
  MaxSpace    \* maximum_storage_space_bytes

ASSUME StoreAssumption ==
  /\ IsFiniteSet(Pages)
  /\ HashOf \in [Pages -> Hashes]
  /\ Size \in [Hashes -> Nat]
  /\ MaxFile \in Nat
  /\ MaxSpace \in Nat

VARIABLES
  enforce,      \* write_html_to_file, which is also Storage.enforce
  usedStorage,  \* Storage.usedStorage
  files,        \* the artifacts: "absent", "short" or "whole"
  pc,           \* the step of the callback of each page
  ret           \* what it returned

storeVars == <<enforce, usedStorage, files, pc, ret>>

SizeOf(p) == Size[HashOf[p]]

StoreInit ==
  /\ enforce \in BOOLEAN
  /\ usedStorage = 0
  /\ files = [h \in Hashes |-> "absent"]
  /\ pc = [p \in Pages |-> "idle"]
  /\ ret = [p \in Pages |-> "none"]

Goto(p, l) == pc' = [pc EXCEPT ![p] = l]

Return(p, what) ==
  /\ Goto(p, "returned")
  /\ ret' = [ret EXCEPT ![p] = what]

\* A page arrives: nothing is written unless the settings say so, and the
\* artifacts directory may be unusable.
Process(p) ==
  /\ pc[p] = "idle"
  /\ \/ ~enforce /\ Return(p, "skipped")
     \/ enforce /\ Return(p, "error")
     \/ enforce /\ Goto(p, "stat") /\ UNCHANGED ret
  /\ UNCHANGED <<enforce, usedStorage, files>>

TooBig(p) == SizeOf(p) > MaxFile

\* A file of that name is taken for the page; a page that is too big is skipped.
Stat(p) ==
  /\ pc[p] = "stat"
  /\ IF files[HashOf[p]] # "absent" \/ TooBig(p) THEN Return(p, "skipped")
     ELSE Goto(p, "reserve") /\ UNCHANGED ret
  /\ UNCHANGED <<enforce, usedStorage, files>>

Fits(p) == usedStorage + SizeOf(p) <= MaxSpace

Reserve(p) ==
  /\ pc[p] = "reserve"
  /\ IF Fits(p)
       THEN /\ usedStorage' = usedStorage + SizeOf(p)
            /\ Goto(p, "open")
            /\ UNCHANGED ret
       ELSE Return(p, "skipped") /\ UNCHANGED usedStorage
  /\ UNCHANGED <<enforce, files>>

Released_Nothing(p) == usedStorage
Released(p) == IF usedStorage < SizeOf(p) THEN 0 ELSE usedStorage - SizeOf(p)

\* The failure of os.WriteFile: the space is released, the file stays as it is.
WriteFailed(p) ==
  /\ usedStorage' = Released(p)
  /\ Return(p, "error")
  /\ UNCHANGED files

Open(p) ==
  /\ pc[p] = "open"
  /\ \/ WriteFailed(p)
     \/ /\ files' = [files EXCEPT ![HashOf[p]] = "short"]
        /\ Goto(p, "write")
        /\ UNCHANGED <<usedStorage, ret>>
  /\ UNCHANGED enforce

Write(p) ==
  /\ pc[p] = "write"
  /\ \/ WriteFailed(p)
     \/ /\ files' = [files EXCEPT ![HashOf[p]] = "whole"]
        /\ Return(p, "written")
        /\ UNCHANGED usedStorage
  /\ UNCHANGED enforce

InFlight == {p \in Pages : pc[p] \notin {"idle", "returned"}}

\* The steps of the callback of p that concern the artifacts.
Artifacts(p) == Process(p) \/ Stat(p) \/ Reserve(p) \/ Open(p) \/ Write(p)

-----------------------------------------------------------------------------
StoreTypeOK ==
  /\ enforce \in BOOLEAN
  /\ usedStorage \in 0 .. MaxSpace
  /\ files \in [Hashes -> {"absent", "short", "whole"}]
  /\ pc \in [Pages -> {"idle", "stat", "reserve", "open", "write", "returned"}]
  /\ ret \in [Pages -> {"none", "skipped", "error", "written"}]

\* The bytes of the pages with the given hashes, and of the given pages, which
\* may have the same hash.
FileBytes(hs) == UNION {{h} \X (1 .. Size[h]) : h \in hs}
PageBytes(ps) == UNION {{p} \X (1 .. SizeOf(p)) : p \in ps}

\* The artifacts stay within the space they were given: what is counted covers
\* each whole file, although callbacks with the same page may count it twice
\* and failing ones give their share back while the file of another exists; and
\* no reservation leaks: once no callback is running, the space in use is that
\* of the writes that succeeded.
SpaceKept ==
  /\ Cardinality(FileBytes({h \in Hashes : files[h] = "whole"})) <= usedStorage
  /\ usedStorage <= MaxSpace
  /\ \A h \in Hashes : files[h] # "absent" => Size[h] <= MaxFile
  /\ InFlight = {} =>
       usedStorage = Cardinality(PageBytes({p \in Pages : ret[p] = "written"}))

\* What the comment in writeToArtifacts says: an existing file has the content
\* of the page, so the write can be skipped.  (Violated: after a write that
\* failed the file is there and cut short.)
ExistingIsWhole == InFlight = {} => \A h \in Hashes : files[h] # "short"
=============================================================================
