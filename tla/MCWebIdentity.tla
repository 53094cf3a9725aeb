---------------------------- MODULE MCWebIdentity ----------------------------
(* A small instance of WebIdentity for TLC: a service known by name and      *)
(* address with two installations of a wiki, one of which lives below the    *)
(* other's root as a string, and another service that has some of the pages, *)
(* one of them with the hash of a page of the first, crawled at once.        *)
EXTENDS WebIdentity

MCPages == {"logo", "logo2", "front", "ipLogo", "shop", "shopLogo"}
MCUrlOf ==
  [p \in MCPages |->
     CASE p = "logo" -> <<"host", "wiki", "logo", "?">>
       [] p = "logo2" -> <<"host", "wiki", "2", "logo">>
       [] p = "front" -> <<"host">>
       [] p = "ipLogo" -> <<"ip", "wiki", "logo">>
       [] p = "shop" -> <<"ip", "shop", "form">>
       [] p = "shopLogo" -> <<"ip", "shop", "logo">>]
MCServiceOf == [p \in MCPages |-> IF p \in {"shop", "shopLogo"} THEN "B" ELSE "A"]
MCHashes == {"hLogo", "hLogo2", "hForm", "hFront"}
MCHashOf ==
  [p \in MCPages |->
     CASE p \in {"logo", "ipLogo", "shopLogo"} -> "hLogo" [] p = "logo2" -> "hLogo2"
       [] p = "shop" -> "hForm" [] OTHER -> "hFront"]
MCSize == [h \in MCHashes |-> IF h = "hFront" THEN 4 ELSE IF h = "hForm" THEN 2 ELSE 3]
MCServices == {"A", "B", "C"}
MCIsWeb == [s \in MCServices |-> s # "C"]
MCAddressOf == [s \in MCServices |-> IF s = "A" THEN {"host", "ip"} ELSE {"ip"}]

Wiki ==
  [software |-> "wiki",
   paths |-> <<<<<<"logo">>, "hLogo">>, <<<<"logo">>, "hLogo2">>, <<<<"form">>, "hForm">>>>,
   versions |-> <<<<"hLogo", {1, 2}>>, <<"hLogo2", {2, 3}>>, <<"hForm", {1, 2, 3}>>, <<"hFront", {1}>>>>]
Blog ==
  [software |-> "blog",
   paths |-> <<<<<<>>, "hFront">>>>,
   versions |-> <<<<"hFront", {7}>>>>]
Shop ==
  [software |-> "shop", paths |-> <<<<<<"form">>, "hForm">>>>, versions |-> <<>>]
MCFiles == {Wiki, Blog, Shop}
=============================================================================
