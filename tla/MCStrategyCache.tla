--------------------------- MODULE MCStrategyCache ---------------------------
(* A small instance of StrategyCache for TLC: two services whose login pages *)
(* differ and which have the same admin page.                                *)
EXTENDS StrategyCache

MCServices == {"old", "new"}
MCPaths == {"/login", "/admin"}
MCHashes == {"oldLogin", "newLogin", "admin"}
MCPageHash ==
  [s \in MCServices |->
     [p \in MCPaths |-> IF p = "/admin" THEN "admin"
                        ELSE IF s = "old" THEN "oldLogin" ELSE "newLogin"]]
=============================================================================
