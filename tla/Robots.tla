------------------------------ MODULE Robots ------------------------------
(***************************************************************************)
(* RobotsPolicy.allowed of app/robots.py: requests for pages of one origin *)
(* look up its robots.txt in the cache that all processes share, fetch it  *)
(* if it is not there and store what they found.  An entry belongs to the  *)
(* transport (proxy, TLS) it was fetched over.  The file may be there with *)
(* rules, be unavailable (4xx) or unreachable (5xx, 502 of the fetch), and *)
(* change at any time; the fetch may also fail otherwise.  Lookups and     *)
(* stores wait for the storage thread of their process; a request that is  *)
(* struck by its deadline leaves a store behind that is already under way. *)
(***************************************************************************)
EXTENDS Integers

CONSTANTS Visits,       \* the requests
          Transport,    \* Transport[v]: the proxy and TLS options of v
          Permitted,    \* the requests the rules of the file allow
          KeepSeconds,  \* KEEP_SECONDS: a fetched or unavailable file
          RetrySeconds, \* RETRY_SECONDS: an unreachable one
          FetchTime,    \* a fetch takes no longer than the deadline
          StoreDelay,   \* how long the storage thread may leave a call waiting
          MaxRobotsTime \* bound: the clock stops here

ASSUME RobotsAssumption ==
    /\ Transport \in [Visits -> {Transport[v] : v \in Visits}]
    /\ Permitted \subseteq Visits
    /\ KeepSeconds \in Nat /\ RetrySeconds \in Nat /\ FetchTime \in Nat /\ StoreDelay \in Nat
    /\ MaxRobotsTime \in Nat

VARIABLES
    robotsTime,
    visitAt,    \* the await each request stands at, or how it ended
    since,      \* when it reached it
    rules,      \* rules[v]: what v goes by
    cached      \* cached[k]: the entry under key k

robotsVars == <<robotsTime, visitAt, since, rules, cached>>

Transports == {Transport[v] : v \in Visits}
CacheKeys == Transports
Found == {"text", "unavailable", "unreachable"}
NoRules == [found |-> "none"]
Rules == [found : Found, over : Transports, seen : Nat]
NoEntry == [rules |-> NoRules, expire |-> 0]

OriginAlone(v) == CHOOSE k \in CacheKeys : TRUE
CacheKey(v) == Transport[v]

RobotsInit ==
    /\ robotsTime = 0
    /\ visitAt = [v \in Visits |-> "new"]
    /\ since = [v \in Visits |-> 0]
    /\ rules = [v \in Visits |-> NoRules]
    /\ cached = [k \in CacheKeys |-> NoEntry]

VisitMoves(v, place) ==
    /\ visitAt' = [visitAt EXCEPT ![v] = place]
    /\ since' = [since EXCEPT ![v] = robotsTime]

VisitFails(v) ==
    /\ visitAt' = [visitAt EXCEPT ![v] = "failed"]
    /\ since' = [since EXCEPT ![v] = 0]
    /\ rules' = [rules EXCEPT ![v] = NoRules]

Allows(v, r) == r.found = "unavailable" \/ (r.found = "text" /\ v \in Permitted)
Decides(v, r) ==
    /\ rules' = [rules EXCEPT ![v] = r]
    /\ VisitMoves(v, IF Allows(v, r) THEN "allowed" ELSE "disallowed")

KeepAlways(r) == KeepSeconds
KeepFor(r) == IF r.found = "unreachable" THEN RetrySeconds ELSE KeepSeconds

-----------------------------------------------------------------------------
AsksRobots(v) ==
    /\ visitAt[v] = "new"
    /\ VisitMoves(v, "look")
    /\ UNCHANGED <<robotsTime, rules, cached>>

(* The storage thread reads the entry.                                      *)
EntryRead(v) ==
    /\ visitAt[v] = "look"
    /\ LET entry == cached[CacheKey(v)]
       IN IF robotsTime < entry.expire THEN Decides(v, entry.rules)
          ELSE VisitMoves(v, "fetch") /\ UNCHANGED rules
    /\ UNCHANGED <<robotsTime, cached>>

(* The fetch ends with an answer, or with the 502 that counts as one.       *)
FetchEndsWith(v, found) ==
    /\ visitAt[v] = "fetch"
    /\ rules' = [rules EXCEPT ![v] = [found |-> found, over |-> Transport[v], seen |-> robotsTime]]
    /\ VisitMoves(v, "store")
    /\ UNCHANGED <<robotsTime, cached>>

(* Any other error fails the crawl: a deadline, a blocked target.           *)
FetchFails(v) ==
    /\ visitAt[v] = "fetch"
    /\ VisitFails(v)
    /\ UNCHANGED <<robotsTime, cached>>

(* The storage thread writes the entry, for a request that may be gone.     *)
EntryWritten(v) ==
    /\ visitAt[v] \in {"store", "orphan"}
    /\ cached' = [cached EXCEPT ![CacheKey(v)] =
                    [rules |-> rules[v], expire |-> robotsTime + KeepFor(rules[v])]]
    /\ IF visitAt[v] = "store" THEN Decides(v, rules[v])
       ELSE VisitFails(v)
    /\ UNCHANGED robotsTime

(* The deadline strikes, or the store fails; a store the thread has begun   *)
(* goes on.                                                                 *)
VisitStruck(v) ==
    /\ \/ visitAt[v] \in {"look", "store"} /\ VisitFails(v)
       \/ /\ visitAt[v] = "store"
          /\ visitAt' = [visitAt EXCEPT ![v] = "orphan"]
          /\ UNCHANGED <<since, rules>>
    /\ UNCHANGED <<robotsTime, cached>>

RobotsTimePasses ==
    /\ robotsTime < MaxRobotsTime
    /\ \A v \in Visits :
         /\ visitAt[v] \in {"look", "store", "orphan"} => robotsTime - since[v] < StoreDelay
         /\ visitAt[v] = "fetch" => robotsTime - since[v] < FetchTime
    /\ robotsTime' = robotsTime + 1
    /\ UNCHANGED <<visitAt, since, rules, cached>>

RobotsNext ==
    \/ \E v \in Visits :
          \/ AsksRobots(v) \/ EntryRead(v) \/ FetchFails(v) \/ EntryWritten(v) \/ VisitStruck(v)
          \/ \E found \in Found : FetchEndsWith(v, found)
    \/ RobotsTimePasses

RobotsSpec == RobotsInit /\ [][RobotsNext]_robotsVars

-----------------------------------------------------------------------------
Decided == {v \in Visits : visitAt[v] \in {"allowed", "disallowed"}}

RobotsTypeOK ==
    /\ robotsTime \in Nat
    /\ visitAt \in [Visits -> {"new", "look", "fetch", "store", "orphan",
                               "allowed", "disallowed", "failed"}]
    /\ since \in [Visits -> Nat]
    /\ rules \in [Visits -> Rules \cup {NoRules}]
    /\ cached \in [CacheKeys -> [rules : Rules \cup {NoRules}, expire : Nat]]

(* A request goes by a file that was fetched over its own transport and is  *)
(* not out of date, an unreachable one much sooner than the others, though  *)
(* several requests fetch at once, store late and overwrite one another.    *)
RobotsAnswersOwnAndRecent ==
    \A v \in Decided :
        /\ rules[v].over = Transport[v]
        /\ since[v] <= rules[v].seen + StoreDelay
              + (IF rules[v].found = "unreachable" THEN RetrySeconds ELSE KeepSeconds)
=============================================================================
