\* Two slots, a queue of one page, fewer requests than pages.
CONSTANTS
  Pages <- MCPages
  Url <- MCUrl
  Html <- MCHtml
  Escapes <- MCEscapes
  LowerCase <- MCLowerCase
  Crawls <- MCCrawls
  Calls <- SiteCalls
  Slots = {s1, s2}
  Capacity = 1
  MaxDepth = 2
  MaxRequests = 4
  MaxRedirects = 1
SPECIFICATION FairSpec
INVARIANTS
  TerminationExact
  RequestsBounded
  VisitedWasRequested
  ScopeKept
PROPERTY
  CrawlReturns
