------------------------------ MODULE MCCrawler ------------------------------
(* A small site for TLC: two URLs of one page, a cycle, an excluded link in   *)
(* an encoded form, a sibling whose name begins alike, another host, a page   *)
(* whose links are lost because of one of them, and a page that many link to. *)
EXTENDS CrawlSite, TLC

MCEscapes == "%6b" :> "k"

MCLowerCase == "App" :> "app"

On(host, path) == [scheme |-> "http", host |-> host, path |-> path]

MCUrl ==
  "/"       :> On("h", <<"/">>) @@
  "/app"    :> On("h", <<"/", "app">>) @@
  "/app/"   :> On("h", <<"/", "app", "/">>) @@
  "/app/b"  :> On("h", <<"/", "app", "/", "b">>) @@
  "/app/k"  :> On("h", <<"/", "app", "/", "%6b", "ill">>) @@
  "/apps"   :> On("h", <<"/", "app", "s">>) @@
  "/i.html" :> On("h", <<"/", "i", ".", "html">>) @@
  "other"   :> On("o", <<"/">>) @@
  "bad"     :> BadURL

MCPages == DOMAIN MCUrl

Path(path) == [scheme |-> "", host |-> "", path |-> path]
Scheme(scheme) == [Path(<<>>) EXCEPT !.scheme = scheme]

Href(ref) == [node |-> "a", key |-> "href", ref |-> ref]
Meta(ref) == [node |-> "meta", key |-> "content", ref |-> ref]

MCHtml == [p \in MCPages |->
  CASE p = "/"       -> <<Href(Path(<<"app">>)), Href(Scheme("mailto")), Href(Path(<<"/", "app", "/">>)),
                          Href(Path(<<"app", "s">>)), Href(Path(<<>>))>>
    [] p = "/app/"   -> <<Href(Path(<<"b">>)), Href(Path(<<"%6b", "ill">>)), Href([Path(<<"/">>) EXCEPT !.host = "o"])>>
    [] p = "/app"    -> <<Href(Path(<<"/", "app", "/", "b">>)), Href(Path(<<"app", "s">>)),
                          [Meta(Path(<<"i", ".", "html">>)) EXCEPT !.node = "a"]>>
    [] p = "/app/b"  -> <<Meta(Path(<<"../", "App">>)), Meta(NoRedirect), Href(Path(<<"../">>))>>
    [] p = "/apps"   -> <<Href(Path(<<"/">>)), Href(Scheme("ftp"))>>
    [] p = "/i.html" -> <<Href(Path(<<"app", "/">>)), Href(Path(<<"/">>))>>
    [] OTHER         -> <<>>]

Config(policy, scopes) == [policy |-> policy, scopes |-> scopes, exclusions |-> {"k"}]

MCCrawls ==
  {[urls |-> <<"/">>,               config |-> Config("EXPAND", <<>>)],
   [urls |-> <<"/app", "/app/">>,   config |-> Config("EXPAND", <<>>)],
   [urls |-> <<"/app/b", "bad">>,   config |-> Config("EXPAND", <<>>)],
   [urls |-> <<"/app/", "bad">>,    config |-> Config("CONFIG_ONLY", <<[domain |-> "h", path |-> <<"/", "app", "/">>]>>)],
   [urls |-> <<"/i.html", "/app">>, config |-> Config("CONFIG_ONLY", <<[domain |-> "h", path |-> <<"/", "app">>]>>)],
   [urls |-> <<"/i.html">>,
    config |-> Config("EXPAND", <<[domain |-> "o", path |-> <<"/">>]>>)]}
=============================================================================
