---------------------------- MODULE CredentialStore ----------------------------
(***************************************************************************)
(* The credential store (common/credentialstore) and what the brute-force  *)
(* detector makes of it (prepareCredentialStore in bruteforce/options.go,  *)
(* candidates in bruteforce.go).  A store is the order of its usernames    *)
(* and a map from usernames to passwords.  The two can disagree: only      *)
(* usernames in the order are ever tested.                                 *)
(*                                                                         *)
(* Copy needs no operator, values being immutable here: what a detector    *)
(* prepends to its copy never reaches the store that it was given.         *)
(***************************************************************************)
EXTENDS Integers, Sequences, SequencesExt, FiniteSetsExt, TLC

New == [usernames |-> <<>>, credentials |-> <<>>]

Known(st, u) == u \in DOMAIN st.credentials

Passwords(st, u) == IF Known(st, u) THEN st.credentials[u] ELSE <<>>

SetPasswords(st, u, ps) == [st EXCEPT !.credentials = (u :> ps) @@ @]

AppendNew(ps, p) == IF Contains(ps, p) THEN ps ELSE Append(ps, p)

MoveToFront(ps, p) == <<p>> \o SelectSeq(ps, LAMBDA x : x # p)

\* A password may be given to a user that is not in the order.
AddPasswordForUser(st, u, p) == SetPasswords(st, u, AppendNew(Passwords(st, u), p))

AddPassword(st, p) ==
  FoldLeft(LAMBDA acc, u : AddPasswordForUser(acc, u, p), st, st.usernames)

\* A user that has passwords already is not added.
AddUser(st, u) ==
  IF Known(st, u) THEN st
  ELSE SetPasswords([st EXCEPT !.usernames = Append(@, u)], u, <<>>)

PrependUser_Again(st, u) ==
  SetPasswords([st EXCEPT !.usernames = <<u>> \o @], u, Passwords(st, u))
PrependUser(st, u) ==
  SetPasswords([st EXCEPT !.usernames = MoveToFront(@, u)], u, Passwords(st, u))

PrependPasswordForUser(st, u, p) ==
  SetPasswords(st, u, MoveToFront(Passwords(st, u), p))

CollapseToPasswordOnly(st) ==
  LET every == FlattenSeq([k \in DOMAIN st.usernames |-> Passwords(st, st.usernames[k])])
  IN  [usernames |-> <<"">>,
       credentials |-> "" :> FoldLeft(AppendNew, <<>>, every)]

-----------------------------------------------------------------------------
(* Loading.  A file system is a sequence of files, in the order of the     *)
(* walk: their names, and their lines or that they cannot be read.         *)

readLines(file) == SelectSeq(file.lines, LAMBDA l : l # "")

Named(fsys, name) == SelectSeq(fsys, LAMBDA f : f.name = name)

\* Exactly one file of each kind, readable; users before passwords, since a
\* password goes to the users that are there.
LoadFails(fsys) ==
  \E name \in {"usernames.txt", "passwords.txt"} :
    \/ Len(Named(fsys, name)) # 1
    \/ ~Named(fsys, name)[1].readable

LoadFromFS(st, fsys) ==
  LET users == readLines(Named(fsys, "usernames.txt")[1])
      passes == readLines(Named(fsys, "passwords.txt")[1])
  IN  FoldLeft(AddPassword, FoldLeft(AddUser, st, users), passes)

-----------------------------------------------------------------------------
(* prepareCredentialStore.                                                 *)

\* A default credential, <<user, password>>, for the store's front.
PrependDefault(passwordOnly, st, cred) ==
  LET u == IF passwordOnly THEN "" ELSE cred[1] IN
  PrependPasswordForUser(PrependUser(st, u), u, cred[2])

\* The last default credential is prepended first.
DefaultOrder(defaults) == Reverse(defaults)

prepareCredentialStore(st, passwordOnly, defaults) ==
  FoldLeft(LAMBDA acc, cred : PrependDefault(passwordOnly, acc, cred),
           IF passwordOnly THEN CollapseToPasswordOnly(st) ELSE st,
           DefaultOrder(defaults))

\* The credentials to test: users in order, and each one's passwords in order.
candidates(st) ==
  FlattenSeq([k \in DOMAIN st.usernames |->
                [j \in DOMAIN Passwords(st, st.usernames[k]) |->
                   <<st.usernames[k], Passwords(st, st.usernames[k])[j]>>]])
=============================================================================
