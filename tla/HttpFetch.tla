----------------------------- MODULE HttpFetch -----------------------------
(***************************************************************************)
(* HTTPFetcher.fetch of app/http_fetcher.py: attempts, each a chain of     *)
(* redirects, under one deadline (app/deadline.py).  Before every request  *)
(* the page is validated and a slot of its rate is reserved.  The servers  *)
(* and the network answer what they like, late or never; a server sends    *)
(* 304 only to a conditional request.                                      *)
(*                                                                         *)
(* A step is what the fetch does between two awaits.  A body is whole, cut *)
(* at the limit or unreadable (module BodyReader says which); of headers   *)
(* only Retry-After and the validators are kept.                           *)
(***************************************************************************)
EXTENDS Integers, FiniteSets

CONSTANTS Pages,        \* the URLs there are
          Requested,    \* the page asked for
          Issuers,      \* whose validators the caller may hold
          NoPage,       \* no page, or no validators
          Retries,      \* options.retries
          MaxHops,      \* requests in one chain of redirects: 11
          Deadline,     \* the time the fetch has
          RetryAfters,  \* what a Retry-After may say
          NoHint,       \* no Retry-After, or one that cannot be read
          MaxDelay,     \* 30 seconds: the longest delay a server may ask for
          MaxBackoff    \* 8 seconds: the longest delay otherwise

ASSUME HttpAssumption ==
    /\ IsFiniteSet(Pages) /\ Requested \in Pages /\ NoPage \notin Pages
    /\ Issuers \subseteq Pages \cup {NoPage}
    /\ Retries \in Nat /\ MaxHops \in Nat \ {0} /\ Deadline \in Nat \ {0}
    /\ RetryAfters \subseteq Int /\ NoHint \notin Int
    /\ MaxDelay \in Nat /\ MaxBackoff \in Nat

VARIABLES
    elapsed,   \* time since the fetch began
    fetchAt,   \* the await it stands at
    issuer,    \* validators["url"]
    attempt,
    page,      \* url
    visited,   \* the pages of this chain
    cleared,   \* the checks made for the next request, see Checks
    sent,      \* the request under way
    open,      \* responses that have not been closed
    wake,      \* when the sleep before the next attempt is over
    fetched    \* how the fetch ended

chainVars == <<attempt, page, visited>>
httpVars == <<elapsed, fetchAt, issuer, chainVars, cleared, sent, open, wake, fetched>>

Checks == [validated : Pages \cup {NoPage}, paced : Pages \cup {NoPage}]
Unchecked == [validated |-> NoPage, paced |-> NoPage]
NoRequest == [to |-> NoPage, conditional |-> FALSE]

(* ok stands for all statuses that are neither redirects nor retried nor 304;*)
(* a redirect without a Location is an answer like them.                    *)
Statuses == {"ok", "busy", "unchanged"}
Pending == [end |-> "none"]
Errors == {[end |-> "error", code |-> c] : c \in {400, 502, 504}}
Results == [end : {"result"}, from : Pages, status : Statuses, truncated : BOOLEAN,
            validators : Pages \cup {NoPage}]

HttpInit ==
    /\ elapsed = 0
    /\ issuer \in Issuers
    /\ fetchAt = "validate"
    /\ attempt = 0 /\ page = Requested /\ visited = {Requested}
    /\ cleared = Unchecked /\ sent = NoRequest
    /\ open = 0 /\ wake = 0
    /\ fetched = Pending

Expired == elapsed >= Deadline

(* The fetch ends; the finally of _redirects closes a response under way.   *)
EndLeavingOpen(outcome) ==
    /\ fetchAt' = "done" /\ fetched' = outcome
    /\ UNCHANGED <<elapsed, issuer, chainVars, cleared, sent, open, wake>>
End(outcome) ==
    /\ fetchAt' = "done" /\ fetched' = outcome /\ open' = 0
    /\ UNCHANGED <<elapsed, issuer, chainVars, cleared, sent, wake>>
Raise(code) == End([end |-> "error", code |-> code])

-----------------------------------------------------------------------------
(* validate runs in a thread and refuses the page or lets it pass.          *)
Validate ==
    /\ fetchAt = "validate" /\ ~Expired
    /\ \/ /\ fetchAt' = "pace"
          /\ cleared' = [cleared EXCEPT !.validated = page]
          /\ UNCHANGED <<elapsed, issuer, chainVars, sent, open, wake, fetched>>
       \/ Raise(400)

(* acquire returns in its slot or refuses with 504 (module RateLimiter).    *)
Pace ==
    /\ fetchAt = "pace" /\ ~Expired
    /\ \/ /\ fetchAt' = "send"
          /\ cleared' = [cleared EXCEPT !.paced = page]
          /\ UNCHANGED <<elapsed, issuer, chainVars, sent, open, wake, fetched>>
       \/ Raise(504)

ConditionalAnywhere(p) == issuer # NoPage
Conditional(p) == issuer = p

Send ==
    /\ fetchAt = "send" /\ ~Expired
    /\ fetchAt' = "answer"
    /\ sent' = [to |-> page, conditional |-> Conditional(page)]
    /\ cleared' = Unchecked
    /\ UNCHANGED <<elapsed, issuer, chainVars, open, wake, fetched>>

-----------------------------------------------------------------------------
AtMost(x, bound) == IF x < bound THEN x ELSE bound
AtLeast(x, bound) == IF x > bound THEN x ELSE bound
Backoff == AtMost(2 ^ attempt, MaxBackoff)
RetryDelay(after) == IF after = NoHint THEN Backoff ELSE AtMost(AtLeast(after, 0), MaxDelay)

(* A failed attempt sleeps before the next one.                             *)
SleepFor(after) ==
    /\ fetchAt' = "sleep"
    /\ wake' = elapsed + RetryDelay(after)
    /\ sent' = NoRequest /\ open' = 0
    /\ UNCHANGED <<elapsed, issuer, chainVars, cleared, fetched>>

LastAttempt == attempt = Retries

(* Any HTTPX error but a timeout.                                           *)
Broken == IF LastAttempt THEN Raise(502) ELSE SleepFor(NoHint)

(* A whole response; a body ends it later than its headers do.              *)
Answer(status, truncated, validators, after) ==
    IF status = "busy" /\ ~LastAttempt THEN SleepFor(after)
    ELSE End([end |-> "result", from |-> sent.to, status |-> status, truncated |-> truncated,
              validators |-> IF validators THEN sent.to ELSE NoPage])

(* The next request of the chain, or the end of it.                         *)
CheckedOnce == "send"
NextCheck == "validate"
Follow(p) ==
    IF Cardinality(visited) = MaxHops \/ p \in visited THEN Raise(502)
    ELSE /\ fetchAt' = NextCheck
         /\ page' = p /\ visited' = visited \cup {p}
         /\ sent' = NoRequest /\ open' = 0
         /\ UNCHANGED <<elapsed, issuer, attempt, cleared, wake, fetched>>

(* The response's headers arrive: a redirect, 304 or the head of a body.    *)
Respond ==
    /\ fetchAt = "answer"
    /\ \/ \E p \in Pages : Follow(p)
       \/ /\ sent.conditional
          /\ \E validators \in BOOLEAN : Answer("unchanged", FALSE, validators, NoHint)
       \/ /\ fetchAt' = "body" /\ open' = open + 1
          /\ UNCHANGED <<elapsed, issuer, chainVars, cleared, sent, wake, fetched>>

(* read_body returns, or refuses what it reads, or the connection breaks.   *)
Read ==
    /\ fetchAt = "body"
    /\ \/ \E status \in {"ok", "busy"}, truncated, validators \in BOOLEAN,
             after \in RetryAfters \cup {NoHint} :
                Answer(status, truncated, validators, after)
       \/ Raise(502)

Breaks == fetchAt \in {"answer", "body"} /\ Broken

Wake ==
    /\ fetchAt = "sleep" /\ wake <= elapsed /\ ~Expired
    /\ fetchAt' = "validate"
    /\ attempt' = attempt + 1 /\ page' = Requested /\ visited' = {Requested}
    /\ UNCHANGED <<elapsed, issuer, cleared, sent, open, wake, fetched>>

(* The timer of deadline.run, HTTPX's own, or the check on the way into the *)
(* next await: all end in 504.                                              *)
DeadlineStrikes == fetchAt # "done" /\ Expired /\ Raise(504)

TimePasses ==
    /\ fetchAt # "done" /\ elapsed < Deadline
    /\ elapsed' = elapsed + 1
    /\ UNCHANGED <<fetchAt, issuer, chainVars, cleared, sent, open, wake, fetched>>

HttpNext ==
    \/ Validate \/ Pace \/ Send \/ Respond \/ Read \/ Breaks \/ Wake
    \/ DeadlineStrikes \/ TimePasses

HttpSpec == HttpInit /\ [][HttpNext]_httpVars

(* Only clocks and timers are relied on, no server and no thread.           *)
HttpProgress == TimePasses \/ DeadlineStrikes
HttpFairSpec == HttpSpec /\ WF_httpVars(HttpProgress)

-----------------------------------------------------------------------------
(* The variables stay in their types.                                       *)
HttpTypeOK ==
    /\ elapsed \in 0..Deadline /\ wake \in Nat
    /\ fetchAt \in {"validate", "pace", "send", "answer", "body", "sleep", "done"}
    /\ issuer \in Issuers
    /\ attempt \in 0..Retries
    /\ visited \subseteq Pages /\ page \in visited /\ Requested \in visited
    /\ Cardinality(visited) <= MaxHops
    /\ cleared \in Checks
    /\ sent \in [to : Pages \cup {NoPage}, conditional : BOOLEAN]
    /\ open \in 0..1
    /\ fetched \in Results \cup Errors \cup {Pending}

(* However pages redirect and attempts are retried: a request leaves only   *)
(* for a page that has been validated and paced for this very request, and  *)
(* validators go to nobody but the page that issued them.                   *)
RequestsCleared ==
    [][sent' # sent /\ sent' # NoRequest =>
          /\ cleared = [validated |-> sent'.to, paced |-> sent'.to]
          /\ sent'.conditional => sent'.to = issuer]_httpVars

(* What the caller hears is true: "unchanged" is about the page whose       *)
(* validators it holds, new validators are those of the answering page, and *)
(* a busy server is reported after the last attempt only.  No response      *)
(* stays open behind the answer.                                            *)
AnswersTrue ==
    /\ fetched \in Results =>
         /\ fetched.status = "unchanged" => fetched.from = issuer
         /\ fetched.validators \in {NoPage, fetched.from}
         /\ fetched.status = "busy" => LastAttempt
    /\ open = 1 => fetchAt = "body"

(* The fetch ends, whatever servers and threads do.                         *)
FetchEnds == <>(fetchAt = "done")
=============================================================================
