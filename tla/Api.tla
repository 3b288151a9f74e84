-------------------------------- MODULE Api --------------------------------
(***************************************************************************)
(* The HTTP boundary, app/main.py: what a request passes before a route's  *)
(* handler runs, what the handlers start, and what they answer, next to    *)
(* what app/error_docs.py says they answer.  Requests are served at once:  *)
(* check_auth runs in a thread, and each handler waits for its work.       *)
(*                                                                         *)
(* What a request is like is chosen where it is looked at: its credentials *)
(* in "auth", its fields in "validate", its timeout in "options".  The     *)
(* framework parses JSON first, then runs the dependencies, then reports   *)
(* fields that do not validate.                                            *)
(***************************************************************************)
EXTENDS Integers, FiniteSets

CONSTANTS Calls,        \* requests being served
          UrlsAllowed,  \* max_urls_per_request
          UrlCeiling,   \* URL_CEILING of the schema
          MaxTokens,    \* inbound_rate_limit_burst
          MaxJobs       \* max_active_jobs

ASSUME ApiAssumption ==
    /\ IsFiniteSet(Calls) /\ UrlsAllowed \in Nat \ {0} /\ UrlCeiling \in Nat /\ UrlsAllowed <= UrlCeiling
    /\ MaxTokens \in Nat \ {0} /\ MaxJobs \in Nat

VARIABLES
    keyed, limited,  \* api_key, inbound_rate_limit_rps are set
    serving,         \* resources.ready
    budget,          \* of the inbound bucket (module InboundLimit)
    activeJobs,      \* len(jobs.tasks)
    route, callAt,   \* of each call: what it asks for, where it is
    urls,            \* how many it names
    facts,           \* history: what the call has shown and got
    answer           \* the status it was answered with, 0 before

apiVars == <<keyed, limited, serving, budget, activeJobs, route, callAt, urls, facts, answer>>
settingVars == <<keyed, limited>>

Public == {"banner", "health"}
Crawling == {"crawl", "batch", "submit"}   \* POST, with a body
Querying == {"job", "results", "stats", "docs"}
Routes == Public \cup Crawling \cup Querying

(* The stages, in this order; a stage that a route lacks lets it pass.      *)
AdmitFirst == [body |-> "admit", admit |-> "auth", auth |-> "validate", validate |-> "options",
               options |-> "work"]
After == [body |-> "auth", auth |-> "validate", validate |-> "admit", admit |-> "options",
          options |-> "work"]

ApiInit ==
    /\ keyed \in BOOLEAN /\ limited \in BOOLEAN
    /\ serving = TRUE /\ budget = MaxTokens /\ activeJobs = 0
    /\ route = [c \in Calls |-> "banner"] /\ callAt = [c \in Calls |-> "idle"]
    /\ urls = [c \in Calls |-> 1]
    /\ facts = [c \in Calls |-> {}] /\ answer = [c \in Calls |-> 0]

Arrive(c) ==
    /\ callAt[c] = "idle" /\ answer[c] = 0
    /\ \E r \in Routes : route' = [route EXCEPT ![c] = r]
    /\ callAt' = [callAt EXCEPT ![c] = "body"]
    /\ UNCHANGED <<settingVars, serving, budget, activeJobs, urls, facts, answer>>

Answered(c, status) ==
    /\ callAt' = [callAt EXCEPT ![c] = "over"]
    /\ answer' = [answer EXCEPT ![c] = status]

Pass(c, fact) ==
    /\ callAt' = [callAt EXCEPT ![c] = After[callAt[c]]]
    /\ facts' = [facts EXCEPT ![c] = @ \cup fact]
    /\ UNCHANGED answer

Reject(c, status) == Answered(c, status) /\ UNCHANGED facts

-----------------------------------------------------------------------------
(* BodySizeLimit (module BodyLimit) and the framework's JSON: 422 for what  *)
(* is no JSON, 400 for what cannot even be decoded to text.                 *)
ReadBody(c) ==
    /\ callAt[c] = "body"
    /\ \/ Pass(c, {})
       \/ route[c] \in Crawling /\ (Reject(c, 413) \/ Reject(c, 422))
       \/ /\ route[c] \in Crawling /\ Answered(c, 400)
          /\ facts' = [facts EXCEPT ![c] = @ \cup {"undecodable"}]
    /\ UNCHANGED <<settingVars, serving, budget, activeJobs, route, urls>>

(* check_auth, and check_docs_auth, which takes the key as a password too.  *)
Accepted(c) == IF route[c] = "docs" THEN {"bearer", "password"} ELSE {"bearer"}

Authenticate(c) ==
    /\ callAt[c] = "auth"
    /\ \E key \in {"none", "wrong", "bearer", "password"} :
         IF route[c] \in Public \/ ~keyed THEN Pass(c, {})
         ELSE IF key \in Accepted(c) THEN Pass(c, {"authorized"}) ELSE Reject(c, 401)
    /\ UNCHANGED <<settingVars, serving, budget, activeJobs, route, urls>>

(* Fields, the pattern of a job id, the range of a page.                    *)
Validate(c) ==
    /\ callAt[c] = "validate"
    /\ \/ /\ route[c] \in Crawling \cup {"job", "results"}
          /\ Reject(c, 422) /\ UNCHANGED urls
       \/ /\ Pass(c, {"valid"})
          /\ \E n \in 1..(IF route[c] \in {"batch", "submit"} THEN UrlCeiling ELSE 1) :
                urls' = [urls EXCEPT ![c] = n]
    /\ UNCHANGED <<settingVars, serving, budget, activeJobs, route>>

TokensNeeded(n) == IF n <= MaxTokens THEN n ELSE MaxTokens

(* admit: too many URLs cost nothing, neither does a call that has to wait. *)
AdmitCall(c) ==
    /\ callAt[c] = "admit"
    /\ IF route[c] \notin Crawling THEN Pass(c, {}) /\ UNCHANGED budget
       ELSE IF urls[c] > UrlsAllowed THEN Reject(c, 422) /\ UNCHANGED budget
       ELSE IF ~limited THEN Pass(c, {"admitted"}) /\ UNCHANGED budget
       ELSE IF budget < TokensNeeded(urls[c]) THEN Reject(c, 429) /\ UNCHANGED budget
       ELSE Pass(c, {"admitted"}) /\ budget' = budget - urls[c]
    /\ UNCHANGED <<settingVars, serving, activeJobs, route, urls>>

(* resolve_options refuses a timeout above the limit, after the admission;  *)
(* submit, when there is a job too many.                                    *)
JobsFull == activeJobs >= MaxJobs

Resolve(c) ==
    /\ callAt[c] = "options"
    /\ \/ route[c] \in Crawling /\ Reject(c, 422) /\ UNCHANGED activeJobs
       \/ route[c] = "submit" /\ JobsFull /\ Reject(c, 503) /\ UNCHANGED activeJobs
       \/ /\ route[c] = "submit" => ~JobsFull
          /\ Pass(c, {"worked"})
          /\ activeJobs' = activeJobs + (IF route[c] = "submit" THEN 1 ELSE 0)
    /\ UNCHANGED <<settingVars, serving, budget, route, urls>>

-----------------------------------------------------------------------------
(* What the work of a route ends with: crawl() turns every failure into a   *)
(* CrawlError, a batch keeps those of its URLs in their items.              *)
CrawlErrors == {400, 403, 422, 502, 503, 504}

Outcomes(r) ==
    CASE r = "crawl" -> {200} \cup CrawlErrors
      [] r = "submit" -> {202}
      [] r \in {"job", "results"} -> {200, 404}
      [] r = "health" -> {IF serving THEN 200 ELSE 503}
      [] OTHER -> {200}

WorkEnds(c) ==
    /\ callAt[c] = "work"
    /\ \E status \in Outcomes(route[c]) : Answered(c, status)
    /\ UNCHANGED <<settingVars, serving, budget, activeJobs, route, urls, facts>>

(* A store that fails reaches the caller where no crawl() is in between; a  *)
(* job that was not saved gives its place back.                             *)
PlaceOf(c) == IF route[c] = "submit" THEN 1 ELSE 0

StoreFails(c) ==
    /\ callAt[c] = "work" /\ route[c] \in {"submit", "job", "results", "stats"}
    /\ Answered(c, 500)
    /\ facts' = [facts EXCEPT ![c] = @ \cup {"store"}]
    /\ activeJobs' = activeJobs - PlaceOf(c)
    /\ UNCHANGED <<settingVars, serving, budget, route, urls>>

JobEnds ==
    /\ activeJobs > Cardinality({c \in Calls : callAt[c] = "work" /\ route[c] = "submit"})
    /\ activeJobs' = activeJobs - 1
    /\ UNCHANGED <<settingVars, serving, budget, route, callAt, urls, facts, answer>>

Refill ==
    /\ limited /\ budget < MaxTokens
    /\ budget' = budget + 1
    /\ UNCHANGED <<settingVars, serving, activeJobs, route, callAt, urls, facts, answer>>

Stops ==
    /\ serving
    /\ serving' = FALSE
    /\ UNCHANGED <<settingVars, budget, activeJobs, route, callAt, urls, facts, answer>>

ApiNext ==
    \/ \E c \in Calls :
         \/ Arrive(c) \/ ReadBody(c) \/ Authenticate(c) \/ Validate(c) \/ AdmitCall(c)
         \/ Resolve(c) \/ WorkEnds(c) \/ StoreFails(c)
    \/ JobEnds \/ Refill \/ Stops

ApiSpec == ApiInit /\ [][ApiNext]_apiVars

-----------------------------------------------------------------------------
ApiTypeOK ==
    /\ keyed \in BOOLEAN /\ limited \in BOOLEAN /\ serving \in BOOLEAN
    /\ budget \in (MaxTokens - UrlsAllowed)..MaxTokens /\ activeJobs \in 0..MaxJobs
    /\ route \in [Calls -> Routes] /\ urls \in [Calls -> 1..UrlCeiling]
    /\ callAt \in [Calls -> DOMAIN After \cup {"idle", "work", "over"}]
    /\ facts \in [Calls -> SUBSET {"authorized", "valid", "admitted", "worked", "store", "undecodable"}]
    /\ answer \in [Calls -> {0, 200, 202, 401, 404, 413, 429, 500} \cup CrawlErrors]

(* responses=answers(...) of each route, besides its success.  The routes   *)
(* of the documentation itself are not in the schema and list nothing.      *)
InSchema == Routes \ {"docs"}

Documented(r) ==
    CASE r = "crawl" -> {400, 401, 403, 413, 422, 429, 502, 503, 504}
      [] r = "batch" -> {401, 413, 422, 429}
      [] r = "submit" -> {401, 413, 422, 429, 503}
      [] r \in {"job", "results"} -> {401, 404, 422}
      [] r = "stats" -> {401}
      [] r = "health" -> {503}
      [] OTHER -> {}

(* An error answer that has its reason: its route documents it, or it is    *)
(* one of three that need not be: a 401 of the documentation's own routes,  *)
(* a 500, and the framework's 400 (which /crawl happens to list and         *)
(* /crawl/batch and /jobs do not).                                          *)
Explained(c) ==
    \/ answer[c] \in Documented(route[c])
    \/ answer[c] = 401 /\ route[c] \notin InSchema
    \/ answer[c] = 500 /\ "store" \in facts[c]
    \/ answer[c] = 400 /\ "undecodable" \in facts[c]

(* No work is begun, and no token taken, for a call without the key, with   *)
(* fields that do not validate or with more URLs than allowed; and a call   *)
(* hears only what its route documents, unless a store fails (500), its     *)
(* body cannot be decoded (400) or it asks for the documentation (401).     *)
CallsInOrder ==
    \A c \in Calls :
        /\ {"admitted", "worked"} \cap facts[c] # {} =>
             /\ keyed /\ route[c] \notin Public => "authorized" \in facts[c]
             /\ "valid" \in facts[c] /\ urls[c] <= UrlsAllowed
        /\ "worked" \in facts[c] /\ route[c] \in Crawling => "admitted" \in facts[c]
        /\ answer[c] \notin {0, 200, 202} => Explained(c)
=============================================================================
