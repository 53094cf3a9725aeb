--------------------------- MODULE AgenticDetector ---------------------------
(***************************************************************************)
(* The agentic weak-credentials detector (plugins/detectors/adkweakcreds): *)
(* an agent looks at a web service with its HTTP tool and proposes a       *)
(* strategy to log in, an invalid login shows whether the strategy         *)
(* recognises a rejection, and the credentials it lists are then tried,    *)
(* each against a rejected variant of it and before a judge.  Each login   *)
(* is one or two requests of a client that repeats them when rate limited. *)
(*                                                                         *)
(* The feedback loop of the agent is here a number of Turns, each of which *)
(* ends in an error or an answer; FeedbackLoop has its own model, and so   *)
(* has the strategy cache.  A page is "welcome" or "denied", as the site   *)
(* decides, or one that is neither: an error page ("broken") or a refusal  *)
(* of everything, with status 401 or 403 ("blocked").                      *)
(***************************************************************************)
EXTENDS Integers, Sequences, FiniteSets, SequencesExt

CONSTANTS
  Strategies,     \* the answers of the agent, and the strategies in the cache
  Sites,          \* which credentials the site accepts and how it denies others
  Turns,          \* llm max attempts
  Calls, Parallel, MaxRequests, MaxAnswer, Forbidden, MaxRedirects, Service, Urls,
  Limit, Second, Attempts, RetryAfter, Backoff, Seconds, Dates, Powers

VARIABLES
  stage,          \* "detect", "agent", "csrf", "login", "judge", "ended"
  task,           \* the login: "verify", "try" or "negative"
  k,              \* the index of the credential of that login
  turn,           \* the turn of the feedback loop
  strategy,       \* {} or the strategy that is verified or used
  cached,         \* it was found in the cache
  added,          \* it was given to the cache
  page,           \* the answer to the candidate credential
  valid,          \* validCreds: the indices of the confirmed credentials
  result,         \* what Detect returned: "none", "nil", "error", "finding"
  site,           \* {} or what the site is, from the first login on
  spoiled,        \* history: the indices whose logins failed or got another page
  misjudged       \* history: the indices for which the judge is wrong

loginVars == <<stage, task, k, result>>
runVars   == <<turn, strategy, cached, added, page, valid>>
historyVars == <<spoiled, misjudged>>

VARIABLES attempt, backoff, body, ctxDone, answers, waits, rpc, rret, rsent
retryVars == <<attempt, backoff, body, ctxDone, answers, waits, rpc, rret, rsent>>
R == INSTANCE HttpRetries WITH pc <- rpc, ret <- rret, sent <- rsent

VARIABLES countRequests, client, jars, cookies, req, jar, hops, wiped, asked, tpc, tret, tsent
toolVars == <<countRequests, client, jars, cookies, req, jar, hops, wiped, asked, tpc, tret, tsent>>
T == INSTANCE HttpTool WITH pc <- tpc, ret <- tret, sent <- tsent

vars == <<loginVars, runVars, site, historyVars, retryVars, toolVars>>

ASSUME AgenticAssumption ==
  /\ Turns \in Nat \ {0}
  /\ \A s \in Strategies :
       s.creds \in Seq([username : Seq(STRING), password : Seq(STRING)])
  /\ R!RetryParameters
  /\ T!ToolParameters

-----------------------------------------------------------------------------
(* A strategy: strategyFromJSON and compileAndValidate.                    *)

ValidRequest(r) == r.path /\ r.regex \notin {"empty", "bad"}

containsPlaceholder(r, marks) == r.marks \cap marks # {}

\* login and csrf are {} or the one request; a strategy without authentication
\* needs nothing else.
ValidStrategy(s) ==
  \/ ~s.supports
  \/ /\ s.details
     /\ s.creds # <<>>
     /\ s.login # {}
     /\ \A r \in s.login :
          /\ ValidRequest(r)
          /\ containsPlaceholder(r, {"password", "basic_auth"})
          /\ s.csrf # {} => containsPlaceholder(r, {"csrftoken"})
     /\ \A r \in s.csrf : ValidRequest(r)

Strategy == CHOOSE s \in strategy : TRUE
Creds == Strategy.creds
Login == CHOOSE r \in Strategy.login : TRUE

-----------------------------------------------------------------------------
(* Invalid credentials.  A string is a sequence of characters.             *)

\* rot13 for letters, 5 steps for digits, on the characters of the instance.
Rotated(c) ==
  LET pairs == {<<"a", "n">>, <<"b", "o">>, <<"c", "p">>, <<"x", "k">>, <<"1", "6">>} IN
  IF \E p \in pairs : c \in {p[1], p[2]}
    THEN LET p == CHOOSE p \in pairs : c \in {p[1], p[2]} IN IF c = p[1] THEN p[2] ELSE p[1]
    ELSE c

shiftAlphaNumeric(s) ==
  LET mutated == [i \in DOMAIN s |-> Rotated(s[i])] IN
  IF mutated = s THEN <<"x">> \o s ELSE mutated

\* An email address keeps its domain.
mutateCredentialString(s) ==
  LET ats == {i \in DOMAIN s : s[i] = "@"}
      at  == CHOOSE i \in ats : TRUE
  IN IF Cardinality(ats) = 1 /\ at > 1 /\ "." \in {s[i] : i \in at + 1 .. Len(s)}
       THEN shiftAlphaNumeric(SubSeq(s, 1, at - 1)) \o SubSeq(s, at, Len(s))
       ELSE shiftAlphaNumeric(s)

Negative(cred) == [cred EXCEPT !.password = mutateCredentialString(@)]

getInvalidCredential(creds) ==
  [username |-> mutateCredentialString(creds[1].username),
   password |-> mutateCredentialString(creds[1].password)]

Tried ==
  CASE task = "verify"   -> getInvalidCredential(Creds)
    [] task = "try"      -> Creds[k]
    [] task = "negative" -> Negative(Creds[k])

-----------------------------------------------------------------------------
(* What pages mean.                                                        *)

\* The site is chosen late: nothing before the first login depends on it.
Site == CHOOSE s \in site : TRUE
Visit == \E s \in Sites : site' = {s}

Accepts(cred) == Site.all \/ cred \in Site.accepts

\* The placeholders of the path, the headers and the body, if there is one, are
\* replaced; a body is a reader that one attempt uses up.
buildHTTPRequest(r) == IF r.body THEN "fresh" ELSE "none"

Pages(cred) == {IF Accepts(cred) THEN "welcome" ELSE "denied", "broken", "blocked"}

Extraction(p) == Login.regex = "all" \/ (Login.regex = "denial" /\ p = "denied")

isAuthFailure(p) ==
  \/ Extraction(p)
  \/ p = "blocked"
  \/ p = "denied" /\ Site.denies = "status"

-----------------------------------------------------------------------------
Init ==
  /\ stage = "detect"
  /\ task = "verify"
  /\ k = 1
  /\ turn = 1
  /\ strategy = {}
  /\ cached = FALSE
  /\ added = FALSE
  /\ page = "none"
  /\ valid = <<>>
  /\ result = "none"
  /\ site = {}
  /\ spoiled = {}
  /\ misjudged = {}
  /\ R!Init
  /\ T!Init

End(r) ==
  /\ stage' = "ended"
  /\ result' = r
  /\ R!NewRequest("none")
  /\ UNCHANGED <<task, k>>

\* login, with a client of its own: its first request is for the CSRF token,
\* if there is one, or the login itself.
StartLogin(s, t, i) ==
  /\ stage' = IF s.csrf = {} THEN "login" ELSE "csrf"
  /\ task' = t
  /\ k' = i
  /\ \E r \in IF s.csrf = {} THEN s.login ELSE s.csrf : R!NewRequest(buildHTTPRequest(r))
  /\ UNCHANGED result

\* bruteforce goes on with the next credential, or ends with those confirmed.
NextCredential(confirmed) ==
  IF k = Len(Creds)
    THEN End(IF confirmed = <<>> THEN "nil" ELSE "finding")
    ELSE StartLogin(Strategy, "try", k + 1)

\* An error while a credential is tested ends bruteforce; the credentials that
\* are already confirmed are kept.
Stop_Discarding == End("error")
Stop == End(IF valid = <<>> THEN "error" ELSE "finding")

-----------------------------------------------------------------------------
\* Detect and getStrategy: a service may not be a web service; a strategy in the
\* cache is used as it is, if it is valid; otherwise an agent is built, which may
\* fail.
Detect ==
  /\ stage = "detect"
  /\ \/ End("nil") /\ UNCHANGED <<strategy, cached, site>>
     \/ \E s \in Strategies :
          /\ strategy' = {s}
          /\ cached' = TRUE
          /\ IF ~ValidStrategy(s) THEN End("error") /\ UNCHANGED site
             ELSE IF ~s.supports THEN End("nil") /\ UNCHANGED site
             ELSE StartLogin(s, "try", 1) /\ Visit
     \/ End("error") /\ UNCHANGED <<strategy, cached, site>>
     \/ /\ stage' = "agent"
        /\ UNCHANGED <<task, k, result, strategy, cached, site, retryVars>>
  /\ UNCHANGED <<turn, added, page, valid, historyVars, toolVars>>

\* The agent uses its tool.
Agent(c) ==
  /\ stage = "agent"
  /\ T!CallStep(c)
  /\ UNCHANGED <<loginVars, runVars, site, historyVars, retryVars>>

\* The verifier refuses an answer: the loop asks the agent again while it may.
Refuse ==
  IF turn < Turns
    THEN /\ stage' = "agent"
         /\ turn' = turn + 1
         /\ strategy' = {}
         /\ R!NewRequest("none")
         /\ UNCHANGED <<task, k, result, toolVars>>
    ELSE End("error") /\ T!NewTool /\ UNCHANGED <<turn, strategy>>

\* A turn ends: without an answer, or with one, which assertStrategyQuality
\* looks at.  After the last turn nobody uses the tool.
EndTurn ==
  /\ stage = "agent"
  /\ T!InFlight = {}
  /\ \/ End("error") /\ T!NewTool /\ UNCHANGED <<turn, strategy, site>>
     \/ \E s \in Strategies :
          IF ~ValidStrategy(s) THEN Refuse /\ UNCHANGED site
          ELSE /\ strategy' = {s}
               /\ UNCHANGED turn
               /\ IF s.supports
                    THEN /\ StartLogin(s, "verify", 1)
                         /\ IF site = {} THEN Visit ELSE UNCHANGED site
                         /\ IF turn < Turns THEN UNCHANGED toolVars ELSE T!NewTool
                    ELSE End("nil") /\ T!NewTool /\ UNCHANGED site
  /\ UNCHANGED <<cached, added, page, valid, historyVars>>

-----------------------------------------------------------------------------
\* One step of the client on the request that is under way.
Request ==
  /\ stage \in {"csrf", "login"}
  /\ R!Step
  /\ UNCHANGED <<loginVars, runVars, site, historyVars, toolVars>>

\* A request fails, its answer cannot be read, or no token is found in it.  A
\* rate limit aborts the verification.
LoginFails ==
  /\ stage \in {"csrf", "login"}
  /\ rpc = "returned"
  /\ IF task = "verify"
       THEN /\ IF rret = "rateLimited"
                 THEN End("error") /\ T!NewTool /\ UNCHANGED <<turn, strategy>>
                 ELSE Refuse
            /\ UNCHANGED spoiled
       ELSE /\ Stop
            /\ spoiled' = spoiled \cup {k}
            /\ UNCHANGED <<turn, strategy, toolVars>>
  /\ UNCHANGED <<cached, added, page, valid, site, misjudged>>

\* The token is found; the login request is next, with the same client.
Token ==
  /\ stage = "csrf"
  /\ R!Answered
  /\ stage' = "login"
  /\ R!NewRequest(buildHTTPRequest(Login))
  /\ UNCHANGED <<task, k, result, runVars, site, historyVars, toolVars>>

\* The strategy is good if it finds its message in the answer to a login that
\* must fail: it is added to the cache and used.
Recognises(p) == Extraction(p)

Verified ==
  /\ stage = "login" /\ task = "verify"
  /\ R!Answered
  /\ \E p \in Pages(Tried) :
       IF Recognises(p)
         THEN /\ StartLogin(Strategy, "try", 1)
              /\ T!NewTool
              /\ added' = TRUE
              /\ UNCHANGED <<turn, strategy>>
         ELSE Refuse /\ UNCHANGED added
  /\ UNCHANGED <<cached, page, valid, site, historyVars>>

Spoiled(p) == IF p \in {"broken", "blocked"} THEN spoiled \cup {k} ELSE spoiled

\* The answer to a candidate: a failure, or a reason to try an invalid variant.
Candidate ==
  /\ stage = "login" /\ task = "try"
  /\ R!Answered
  /\ \E p \in Pages(Tried) :
       /\ spoiled' = Spoiled(p)
       /\ IF isAuthFailure(p)
            THEN NextCredential(valid) /\ UNCHANGED page
            ELSE StartLogin(Strategy, "negative", k) /\ page' = p
  /\ UNCHANGED <<turn, strategy, cached, added, valid, site, misjudged, toolVars>>

\* The answer to the invalid variant: unless it is a failure, the candidate
\* proves nothing.
Rejected(p) == isAuthFailure(p)

Baseline ==
  /\ stage = "login" /\ task = "negative"
  /\ R!Answered
  /\ \E p \in Pages(Tried) :
       /\ spoiled' = Spoiled(p)
       /\ IF Rejected(p)
            THEN /\ stage' = "judge"
                 /\ R!NewRequest("none")
                 /\ UNCHANGED <<task, k, result>>
            ELSE NextCredential(valid)
  /\ UNCHANGED <<turn, strategy, cached, added, page, valid, site, misjudged, toolVars>>

\* judgeCredential: an agent compares the two answers, or fails.
Judge ==
  /\ stage = "judge"
  /\ \/ Stop /\ spoiled' = spoiled \cup {k} /\ UNCHANGED <<valid, misjudged>>
     \/ \E authenticated \in BOOLEAN :
          /\ valid' = IF authenticated THEN Append(valid, k) ELSE valid
          /\ misjudged' = IF authenticated # (page = "welcome") THEN misjudged \cup {k}
                                                               ELSE misjudged
          /\ NextCredential(valid')
          /\ UNCHANGED spoiled
  /\ UNCHANGED <<turn, strategy, cached, added, page, site, toolVars>>

Terminated == stage = "ended" /\ UNCHANGED vars

Next ==
  \/ Detect
  \/ \E c \in Calls : Agent(c)
  \/ EndTurn
  \/ Request
  \/ LoginFails
  \/ Token
  \/ Verified
  \/ Candidate
  \/ Baseline
  \/ Judge
  \/ Terminated

Spec == Init /\ [][Next]_vars

-----------------------------------------------------------------------------
TypeOK ==
  /\ stage \in {"detect", "agent", "csrf", "login", "judge", "ended"}
  /\ task \in {"verify", "try", "negative"}
  /\ k \in Nat \ {0}
  /\ turn \in 1 .. Turns
  /\ strategy \subseteq Strategies /\ Cardinality(strategy) <= 1
  /\ cached \in BOOLEAN /\ added \in BOOLEAN
  /\ page \in {"none", "welcome", "denied", "broken", "blocked"}
  /\ valid \in Seq(Nat)
  /\ result \in {"none", "nil", "error", "finding"}
  /\ site \subseteq Sites /\ Cardinality(site) <= 1
  /\ spoiled \subseteq Nat
  /\ misjudged \subseteq Nat
  /\ R!TypeOK
  /\ T!TypeOK

Reported == IF result = "finding" THEN {valid[i] : i \in DOMAIN valid} ELSE {}

\* A rejection by the site is one the strategy sees: an agent's strategy has
\* been verified on one, a cached one may rely on the status.
Sees ==
  /\ Login.regex # "all"
  /\ cached => Login.regex = "denial" \/ Site.denies = "status"

OnlyPassword(cred) ==
  /\ ~Site.all
  /\ \A other \in Site.accepts : other.username = cred.username => other = cred

\* The credentials of a finding are accepted by the site, unless the judge is
\* wrong and one of the two answers was not the site's own; and none that is
\* accepted is lost: whatever fails later, each credential that was judged well
\* on the site's own answers is reported, if it is the only one of its user and
\* the strategy sees a rejection.
FindingsExact ==
  stage = "ended" /\ result # "none" /\ strategy # {} /\ ValidStrategy(Strategy)
    /\ Strategy.supports /\ (cached \/ added) =>
    /\ \A i \in Reported : i \notin misjudged \cap spoiled => Accepts(Creds[i])
    /\ \A i \in (1 .. k) \ (spoiled \cup misjudged) :
         Accepts(Creds[i]) /\ OnlyPassword(Creds[i]) /\ Sees => i \in Reported

RetriesExact == R!RetriesExact
ToolKept == T!ToolKept
=============================================================================
