----------------------------- MODULE HttpRetries -----------------------------
(***************************************************************************)
(* retriableClient.Do of core/net/http/retries.go: one request, repeated   *)
(* while the server answers 429, after the delay that the server asks for  *)
(* or an exponential backoff.                                              *)
(*                                                                         *)
(* An int and a time.Duration are two's complement numbers of the same     *)
(* width and wrap around.  A server asks for nothing, for a number of      *)
(* seconds, or for a date, which is given here by the duration until it.   *)
(***************************************************************************)
EXTENDS Integers, Sequences, FiniteSetsExt

CONSTANTS
  Limit,          \* 2 ^ (w - 1) for an int and a time.Duration of w bits
  Second,         \* time.Second
  Attempts,       \* max_http_attempts_when_ratelimit
  RetryAfter,     \* max_http_retry_after_seconds
  Backoff,        \* http_retry_initial_backoff_seconds
  Seconds,        \* the numbers that servers put in Retry-After
  Dates,          \* the durations until the dates they put there
  Powers          \* Powers[k] is 2 ^ (k - 1), for the attempts that are made

maxAttempts == Max({Attempts, 1})
maxRetryAfter == RetryAfter * Second

\* The settings are 32-bit numbers: as durations they do not overflow.
RetryParameters ==
  /\ Limit \in Nat \ {0}
  /\ Second \in Nat \ {0}
  /\ Attempts \in Int
  /\ RetryAfter \in Nat /\ RetryAfter * Second < Limit
  /\ Backoff \in Nat /\ Backoff * Second < Limit
  /\ Seconds \subseteq Nat
  /\ Dates \subseteq 0 .. Limit - 1
  /\ Powers \in [1 .. maxAttempts -> Nat]
  /\ \A k \in 1 .. maxAttempts : Powers[k] = IF k = 1 THEN 1 ELSE 2 * Powers[k - 1]

VARIABLES
  pc,        \* "send", "limited", "wait", "returned"
  attempt,   \* the loop variable
  backoff,   \* the backoff variable, a Duration
  body,      \* req.Body: "none", "fresh" or "used"
  ctxDone,   \* the request's context is done
  ret,       \* what Do returned
  answers,   \* history: what each 429 answer asked for
  waits,     \* history: the delay after each of them
  sent       \* history: the body of each request that was sent

vars == <<pc, attempt, backoff, body, ctxDone, ret, answers, waits, sent>>

Wrap(n) == ((n + Limit) % (2 * Limit)) - Limit

Asks == [kind : {"none"}, n : {0}] \cup [kind : {"seconds"}, n : Seconds]
          \cup [kind : {"date"}, n : Dates]

Init ==
  /\ pc = "send"
  /\ attempt = 1
  /\ backoff = Backoff * Second
  /\ body \in {"none", "fresh"}
  /\ ctxDone = FALSE
  /\ ret = "none"
  /\ answers = <<>>
  /\ waits = <<>>
  /\ sent = <<>>

\* The next request of the same context.
NewRequest(b) ==
  /\ pc' = "send"
  /\ attempt' = 1
  /\ backoff' = Backoff * Second
  /\ body' = b
  /\ ret' = "none"
  /\ answers' = <<>>
  /\ waits' = <<>>
  /\ sent' = <<>>
  /\ UNCHANGED ctxDone

Return(what) == pc' = "returned" /\ ret' = what

\* parseRetryAfter: a number that is no int is not a delay.
Parsed(ask) == ask.kind = "date" \/ (ask.kind = "seconds" /\ ask.n < Limit)
Delay(ask) == IF ask.kind = "date" THEN ask.n ELSE Wrap(ask.n * Second)

TooLong(d) == d > maxRetryAfter

\* retryDelay, when it returns no error.
retryDelay(ask) ==
  IF Parsed(ask) THEN Delay(ask) ELSE Min({backoff, maxRetryAfter})

\* The wrapped client's Do: it returns an error or an answer, which is the
\* result, or a 429; nothing is sent once the context is done.
Send ==
  /\ pc = "send"
  /\ \/ /\ ctxDone
        /\ Return("answer")
        /\ UNCHANGED <<body, answers, sent>>
     \/ /\ ~ctxDone
        /\ sent' = Append(sent, body)
        /\ body' = IF body = "none" THEN "none" ELSE "used"
        /\ \/ Return("answer") /\ UNCHANGED answers
           \/ /\ \E ask \in Asks : answers' = Append(answers, ask)
              /\ pc' = "limited"
              /\ UNCHANGED ret
  /\ UNCHANGED <<attempt, backoff, ctxDone, waits>>

Last == attempt = maxAttempts

resetRequestBody == IF body = "none" THEN "none" ELSE "fresh"

\* After a 429: the last attempt ends the loop; otherwise the body is opened
\* again, which may fail, and the delay is looked at.
Limited ==
  LET ask == answers[Len(answers)] IN
  /\ pc = "limited"
  /\ \/ Last /\ Return("rateLimited") /\ UNCHANGED <<body, waits>>
     \/ ~Last /\ body # "none" /\ Return("bodyError") /\ UNCHANGED <<body, waits>>
     \/ /\ ~Last
        /\ body' = resetRequestBody
        /\ IF Parsed(ask) /\ TooLong(Delay(ask))
             THEN Return("rateLimited") /\ UNCHANGED waits
             ELSE /\ waits' = Append(waits, retryDelay(ask))
                  /\ pc' = "wait"
                  /\ UNCHANGED ret
  /\ UNCHANGED <<attempt, backoff, ctxDone, answers, sent>>

Doubled_OnlyUnasked ==
  IF Parsed(answers[Len(answers)]) THEN backoff ELSE Wrap(2 * backoff)
Doubled == Wrap(2 * backoff)

Wake ==
  /\ pc = "wait"
  /\ pc' = "send"
  /\ attempt' = attempt + 1
  /\ backoff' = Doubled
  /\ UNCHANGED <<body, ctxDone, ret, answers, waits, sent>>

Gone ==
  /\ pc = "wait"
  /\ ctxDone
  /\ Return("ctxErr")
  /\ UNCHANGED <<attempt, backoff, body, ctxDone, answers, waits, sent>>

Cancel ==
  /\ ~ctxDone
  /\ pc # "returned"
  /\ ctxDone' = TRUE
  /\ UNCHANGED <<pc, attempt, backoff, body, ret, answers, waits, sent>>

\* The last attempt was sent and answered by something other than a 429: Do
\* returned that answer, or the error of the connection.
Answered == pc = "returned" /\ ret = "answer" /\ Len(sent) = attempt

Terminated == pc = "returned" /\ UNCHANGED vars

Step == Send \/ Limited \/ Wake \/ Gone \/ Cancel

Next == Step \/ Terminated

Spec == Init /\ [][Next]_vars

-----------------------------------------------------------------------------
Durations == -Limit .. Limit - 1

TypeOK ==
  /\ pc \in {"send", "limited", "wait", "returned"}
  /\ attempt \in 1 .. maxAttempts
  /\ backoff \in Durations
  /\ body \in {"none", "fresh", "used"}
  /\ ctxDone \in BOOLEAN
  /\ ret \in {"none", "answer", "rateLimited", "bodyError", "ctxErr"}
  /\ answers \in Seq(Asks)
  /\ waits \in Seq(Durations)
  /\ sent \in Seq({"none", "fresh", "used"})

\* What a server asks for, in true units.
Asked(ask) == IF ask.kind = "date" THEN ask.n ELSE ask.n * Second

\* The request is sent again only if the server did not ask for more than the
\* maximum.
NoRetryAfter(ask) ==
  Asked(ask) > maxRetryAfter =>
    \A k \in 1 .. Len(waits) : answers[k] # ask

\* The loop gives up for a reason: ErrRateLimited is returned only after the
\* last attempt or a delay that is too long; a delay that is too long, but fits
\* in a time.Duration, always ends it; an answer that is not a 429 ends it, and
\* each attempt sends the whole body.
OutcomeExact ==
  /\ ret = "rateLimited" =>
       \/ Len(sent) = maxAttempts
       \/ Asked(answers[Len(answers)]) > maxRetryAfter
  /\ \A ask \in Asks : Asked(ask) < Limit => NoRetryAfter(ask)
  /\ Len(answers) >= Len(sent) - 1
  /\ "used" \notin {sent[k] : k \in 1 .. Len(sent)}

\* Waits are what the settings say: a delay that the server asked for is kept
\* to, and the k-th delay without one is the initial backoff doubled k - 1
\* times up to the maximum, however the others were asked for; for delays
\* that fit in a time.Duration.
WaitsExact ==
  \A k \in 1 .. Len(waits) :
    IF answers[k].kind = "none"
      THEN Backoff * Second * Powers[k] < Limit =>
             waits[k] = Min({Backoff * Second * Powers[k], maxRetryAfter})
      ELSE Asked(answers[k]) < Limit => waits[k] = Asked(answers[k])

\* The retries of a request are what the settings and the server say.
RetriesExact == OutcomeExact /\ WaitsExact
=============================================================================
