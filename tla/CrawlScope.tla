------------------------------ MODULE CrawlScope ------------------------------
(***************************************************************************)
(* What a page of a site leads the crawler to: the links that the parser   *)
(* finds in it (httpcrawler/parser), which URLs are in scope               *)
(* (httpcrawler/scope) or excluded, and which count as the same page.      *)
(*                                                                         *)
(* A URL is a record of its scheme, host (with the port, if it has one)    *)
(* and path.  A path is the sequence of its tokens: "/", ".", "../", "?",  *)
(* "#", words, and escapes such as "%2F".  A link in a page is such a      *)
(* record, where an empty scheme, host or path means that it has none.     *)
(***************************************************************************)
EXTENDS Integers, Sequences, FiniteSets, SequencesExt, FiniteSetsExt

CONSTANTS
  Escapes,   \* the token that a percent-encoded token stands for
  LowerCase  \* the token that one with capital letters becomes by ToLower

\* What url.Parse refuses.
BadURL == [scheme |-> "malformed", host |-> "", path |-> <<>>]

Decoded(token) == IF token \in DOMAIN Escapes THEN Escapes[token] ELSE token

\* url.PathUnescape; url.Parse does it once.
Unescape(path) == [i \in DOMAIN path |-> Decoded(path[i])]

Slashes(path) == {i \in DOMAIN path : path[i] = "/"}

\* Up to the last slash, and what comes after it.
Folder(path) == SubSeq(path, 1, Max(Slashes(path) \cup {0}))
Base(path)   == SubSeq(path, Len(Folder(path)) + 1, Len(path))

-----------------------------------------------------------------------------
(* Scopes.                                                                 *)

\* path.Dir, which leaves no slash at the end, except of the root.
Dir(path) == IF Len(Folder(path)) <= 1 THEN Folder(path) ELSE Front(Folder(path))

\* The last part has a dot and is more than one.
NamesFile(path) == Base(path) # <<".">> /\ "." \in ToSet(Base(path))

NormalizePath_NoSlash(path) ==
  IF path # <<>> /\ Last(path) = "/" THEN path
  ELSE IF NamesFile(path) THEN Dir(path) \o <<"/">>
  ELSE path

NormalizePath(path) ==
  IF path # <<>> /\ Last(path) = "/" THEN path
  ELSE IF NamesFile(path) THEN Dir(path) \o <<"/">>
  ELSE path \o <<"/">>

\* The scope of a seed, which a URL that url.Parse refuses does not have.
FromURL(u) ==
  IF u = BadURL THEN [ok |-> FALSE, scopes |-> <<>>]
  ELSE [ok |-> TRUE, scopes |-> <<[domain |-> u.host, path |-> NormalizePath(Unescape(u.path))]>>]

FromProto(s) == [domain |-> s.domain, path |-> NormalizePath(s.path)]

\* Load: the scopes of the configuration, and one for each seed unless the
\* policy is to use those only.  One seed without a scope fails it.
Load(config, urls) ==
  LET seeds == IF config.policy = "CONFIG_ONLY" THEN <<>> ELSE [i \in DOMAIN urls |-> FromURL(urls[i])]
      named == [i \in DOMAIN config.scopes |-> FromProto(config.scopes[i])]
  IN  IF \A i \in DOMAIN seeds : seeds[i].ok
        THEN [ok |-> TRUE, scopes |-> named \o FlattenSeq([i \in DOMAIN seeds |-> seeds[i].scopes])]
        ELSE [ok |-> FALSE, scopes |-> <<>>]

\* Decision and Matches.
Matches(scope, u) ==
  /\ scope.domain = u.host
  /\ IsPrefix(scope.path, NormalizePath(Unescape(u.path)))

\* It fails for a URL that url.Parse refuses, once there is a scope to match.
Refused(u, scopes) == u = BadURL /\ scopes # <<>>

MatchAnyScope(u, scopes) == \E i \in DOMAIN scopes : Matches(scopes[i], u)

\* isExcluded: an exclusion is a word that a path may not contain.
isExcluded(u, config) == config.exclusions \cap ToSet(Unescape(u.path)) # {}

-----------------------------------------------------------------------------
(* The visited set.                                                        *)

maxDecodeIterations == 10

\* Unescape, as often as it changes something, up to maxDecodeIterations.
fullyDecode(path) ==
  [i \in DOMAIN path |->
    LET Again(token, n) == Decoded(token)
    IN  FoldLeft(Again, path[i], [n \in 1 .. maxDecodeIterations |-> n])]

TrimRight(path) ==
  SubSeq(path, 1, Max({0} \cup {i \in DOMAIN path : path[i] # "/"}))

\* Two URLs with the same normal form are one page.
normalizeURL(u) ==
  LET decoded == fullyDecode(u.path)
      queries == {i \in DOMAIN decoded : decoded[i] \in {"?", "#"}}
      plain   == IF queries = {} THEN decoded ELSE SubSeq(decoded, 1, Min(queries) - 1)
  IN  [u EXCEPT !.path = TrimRight(plain)]

-----------------------------------------------------------------------------
(* Links.  A page is the sequence of the attributes of its nodes, in the   *)
(* order in which processHTMLNode comes by them, each with the link in it. *)

unsupportedPrefixes == {"data", "javascript", "mailto", "tel"}

knownLinkAttributes ==
  {"action", "archive", "background", "cite", "codebase", "content", "data", "formaction",
   "href", "longdesc", "manifest", "ping", "poster", "profile", "src", "srcdoc"}

\* The content of a meta node that has no "url=", or more than one.
NoRedirect == [scheme |-> "none", host |-> "", path |-> <<>>]

\* One level up; the root stays.
Up(path) == IF Len(path) <= 1 THEN path ELSE Folder(Front(path))

\* url.ResolveReference, for references without "." segments.
ResolveReference(base, ref) ==
  LET Step(path, t) == IF t = "../" THEN Up(path) ELSE Append(path, t)
      start == IF ref.path # <<>> /\ Head(ref.path) = "/" THEN <<>>
               ELSE IF base.path = <<>> THEN <<"/">> ELSE Folder(base.path)
  IN  IF ref.scheme # "" THEN ref
      ELSE IF ref.host # "" THEN [ref EXCEPT !.scheme = base.scheme]
      ELSE IF ref.path = <<>> THEN base
      ELSE [base EXCEPT !.path = FoldLeft(Step, start, ref.path)]

\* The link as a sequence of at most one URL; it is an error if the scheme is
\* none that can be crawled.
parseURL(base, ref) ==
  IF ref.scheme \in unsupportedPrefixes THEN [ok |-> TRUE, links |-> <<>>]
  ELSE IF ref.scheme \notin {"", "http", "https"} THEN [ok |-> FALSE, links |-> <<>>]
  ELSE [ok |-> TRUE, links |-> <<ResolveReference(base, ref)>>]

Lower(token) == IF token \in DOMAIN LowerCase THEN LowerCase[token] ELSE token

\* The URL of a redirect is read in lower case, its path too.
parseContent(node, base, ref) ==
  IF node # "meta" \/ ref = NoRedirect THEN [ok |-> TRUE, links |-> <<>>]
  ELSE parseURL(base, [ref EXCEPT !.host = Lower(ref.host),
                                  !.path = [i \in DOMAIN ref.path |-> Lower(ref.path[i])]])

dispatch(base, attr) ==
  IF attr.key = "content" THEN parseContent(attr.node, base, attr.ref)
  ELSE parseURL(base, attr.ref)

\* An error in any of the links of a page leaves it without links.
ExtractLinksFromHTML(base, attrs) ==
  LET Known(attr) == attr.key \in knownLinkAttributes
      known == SelectSeq(attrs, Known)
      found == [i \in DOMAIN known |-> dispatch(base, known[i])]
  IN  IF \A i \in DOMAIN found : found[i].ok
        THEN FlattenSeq([i \in DOMAIN found |-> found[i].links])
        ELSE <<>>
=============================================================================
