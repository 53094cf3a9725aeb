-------------------------- MODULE MCTemplatedEngine --------------------------
(***************************************************************************)
(* Two services; either two detections, or a fingerprint and two tests of  *)
(* credentials on one service.  A test without a fingerprint never starts. *)
(***************************************************************************)
EXTENDS TemplatedEngine

MCCalls == 1 .. 3

As(kind, service) == [kind |-> kind, service |-> service]

MCMixes ==
  { <<As("detect", "s1"), As("detect", "s2"), As("test", "s1")>>,
    <<As("fingerprint", "s1"), As("test", "s1"), As("test", "s1")>> }

Act(kind, phase, cleanups) ==
  [kind |-> kind, phase |-> phase, cleanups |-> cleanups, uris |-> 1,
   lenient |-> FALSE, broken |-> FALSE, plants |-> FALSE]

\* One action of each sort.
Actions ==
  [find  |-> Act("http", Fingerprint, <<>>),
   plant |-> [Act("http", Detection, <<"undo", "drop">>) EXCEPT !.uris = 2, !.plants = TRUE],
   wait  |-> Act("sleep", Undefined, <<"drop">>),
   check |-> Act("callback", Undefined, <<>>),
   undo  |-> Act("http", Undefined, <<"wait">>),
   drop  |-> [Act("http", Undefined, <<>>) EXCEPT !.lenient = TRUE]]

Broken(n)      == [Actions EXCEPT ![n].broken = TRUE]
WithoutRunner  == [Actions EXCEPT !.wait.kind = "none"]
WithoutURI     == [Actions EXCEPT !.drop.uris = 0]
Dangling       == [Actions EXCEPT !.wait.cleanups = <<"lost">>]

Flow(needsCallback, acts) == [needsCallback |-> needsCallback, acts |-> acts]

Plain == Flow(FALSE, <<"find", "wait">>)

MCPlugins ==
  { [actions |-> Actions, workflows |-> <<Flow(TRUE, <<"find", "plant", "check">>), Plain>>],
    [actions |-> Actions, workflows |-> <<Flow(FALSE, <<"plant", "wait">>)>>],
    [actions |-> Actions, workflows |-> <<Flow(FALSE, <<"find", "wait", "drop">>)>>],
    [actions |-> Actions, workflows |-> <<Flow(FALSE, <<"wait", "find">>)>>],
    [actions |-> Actions, workflows |-> <<Flow(FALSE, <<"wait", "lost">>)>>],
    [actions |-> Broken("check"), workflows |-> <<Flow(FALSE, <<"wait", "check">>)>>],
    [actions |-> Broken("wait"), workflows |-> <<Flow(FALSE, <<"plant", "wait">>)>>],
    [actions |-> Broken("drop"), workflows |-> <<Flow(FALSE, <<"wait", "drop">>)>>],
    [actions |-> WithoutRunner, workflows |-> <<Plain>>],
    [actions |-> WithoutURI, workflows |-> <<Plain>>],
    [actions |-> Dangling, workflows |-> <<Plain>>] }
=============================================================================
