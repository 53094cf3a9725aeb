------------------------------- MODULE CrawlSite -------------------------------
(***************************************************************************)
(* Crawler on a given site: which URLs are the same page, in scope or      *)
(* excluded, and the links of a page, are what CrawlScope makes of its     *)
(* content and of the configuration.  A page is known by a short name.     *)
(***************************************************************************)
EXTENDS Crawler, CrawlScope

CONSTANTS
  Url,    \* the URL of a page
  Html,   \* the content of a page
  Crawls  \* pairs of seeds and configuration

PageOf(u) == CHOOSE p \in Pages : Url[p] = u

SiteKey == [p \in Pages |-> normalizeURL(Url[p])]

SiteLinks ==
  [p \in Pages |->
    LET found == ExtractLinksFromHTML(Url[p], Html[p])
    IN  [i \in DOMAIN found |-> PageOf(found[i])]]

Seeds(c) == [i \in DOMAIN c.urls |-> Url[c.urls[i]]]

\* The call: whether its scopes can be loaded, and what the checks of
\* queueForCrawl make of each page under those scopes.
SiteCall(c) ==
  LET loaded == Load(c.config, Seeds(c))
      scopes == loaded.scopes
  IN  [urls |-> c.urls, config |-> c.config, loads |-> loaded.ok, key |-> SiteKey, links |-> SiteLinks,
       malformed |-> {p \in Pages : Refused(Url[p], scopes)},
       allowed |-> {p \in Pages : MatchAnyScope(Url[p], scopes) /\ ~isExcluded(Url[p], c.config)}]

SiteCalls == {SiteCall(c) : c \in Crawls}

-----------------------------------------------------------------------------
\* The directory a scope stands for, and whether a path lies in it: a last part
\* with a dot is a file.
IsFile(path) == "." \in ToSet(Base(path))

Directory(path) ==
  IF IsFile(path) \/ (path # <<>> /\ Last(path) = "/") THEN Folder(path) ELSE path \o <<"/">>

LiesIn(path, dir) == IsPrefix(dir, path) \/ (~IsFile(path) /\ path \o <<"/">> = dir)

\* The host and path of each scope that the configuration names or implies.
Declared(c) ==
  {<<s.domain, s.path>> : s \in ToSet(c.config.scopes)} \cup
  (IF c.config.policy = "CONFIG_ONLY" THEN {}
   ELSE {<<u.host, Unescape(u.path)>> : u \in ToSet(Seeds(c))})

InScope(p, d) ==
  Url[p].host = d[1] /\ LiesIn(Unescape(Url[p].path), Directory(d[2]))

\* A file in the root directory: its scope is "//", which holds nothing but
\* such files.
InRoot(d) == IsFile(d[2]) /\ Directory(d[2]) = <<"/">>

\* The crawl stays in its scope: a page is requested only if it lies in the
\* directory of a scope of the configuration or of a seed, siblings whose names
\* begin alike do not count, and no exclusion matches it, also in an encoded
\* form; and once the scopes are loaded nothing is left out that lies in one and
\* is not excluded, except when the scope is that of a file in the root
\* directory.  A seed that cannot be parsed, when there is a scope to hold it
\* against, ends the call before anything is requested, the seeds before it
\* included.
ScopeKept ==
  /\ BadURL \in ToSet(Seeds(call)) /\ (call.config.policy # "CONFIG_ONLY" \/ call.config.scopes # <<>>) =>
       \A p \in Pages : fetched[p] = 0
  /\ \A p \in Pages \ call.malformed :
       LET excluded == call.config.exclusions \cap ToSet(Unescape(Url[p].path)) # {} IN
       /\ fetched[p] > 0 => ~excluded /\ \E d \in Declared(call) : InScope(p, d)
       /\ call.loads /\ ~excluded /\ (\E d \in Declared(call) : InScope(p, d) /\ ~InRoot(d)) =>
            ~Rejected(p, 0)
=============================================================================
