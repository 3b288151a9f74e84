---------------------------- MODULE MCRequests ----------------------------
(***************************************************************************)
(* The five parts a single request passes through and that must each come  *)
(* to an end by themselves: _cached and its followers, the HTTP fetch, the *)
(* browser fetch, the wait for a rendered page, and the egress proxy.      *)
(* They meet only at calls and answers, which each module takes as free,   *)
(* and share no state.  One run checks them all by choosing at the start   *)
(* which one acts: their state spaces add up and do not multiply.          *)
(***************************************************************************)
EXTENDS Crawl, HttpFetch, BrowserFetch, Readiness, EgressProxy

CONSTANTS u1, u2, u3

VARIABLE acting

MCRetryAfters == {-1, 3}

Parts == {"crawl", "http", "browser", "wait", "egress"}
requestsVars == <<acting, vars, httpVars, browserVars, readinessVars, egressVars>>

(* What does not act has one initial state only.                            *)
RequestsInit ==
    /\ acting \in Parts
    /\ CrawlInit /\ (acting # "crawl" => \A r \in Requests : ~forced[r])
    /\ HttpInit /\ (acting # "http" => issuer = NoPage)
    /\ BrowserInit
    /\ ReadinessInit
    /\ acting # "wait" =>
         /\ ~autoWait /\ wanted = {} /\ ~challenged /\ Running = {}
         /\ \A m \in MinimumWaits : minimum <= m
    /\ EgressInit /\ (acting # "egress" => protection /\ ~upstream)

(* A step of one part leaves the others alone.                              *)
Others(part) ==
    /\ acting = part /\ UNCHANGED acting
    /\ IF part = "crawl" THEN TRUE ELSE UNCHANGED vars
    /\ IF part = "http" THEN TRUE ELSE UNCHANGED httpVars
    /\ IF part = "browser" THEN TRUE ELSE UNCHANGED browserVars
    /\ IF part = "wait" THEN TRUE ELSE UNCHANGED readinessVars
    /\ IF part = "egress" THEN TRUE ELSE UNCHANGED egressVars

RequestsNext ==
    \/ Others("crawl") /\ CrawlNext
    \/ Others("http") /\ HttpNext
    \/ Others("browser") /\ BrowserNext
    \/ Others("wait") /\ ReadinessNext
    \/ Others("egress") /\ EgressNext

(* Each module's fairness, for the part that acts.                          *)
Progress ==
    \/ Others("crawl") /\ CrawlProgress
    \/ Others("http") /\ HttpProgress
    \/ Others("browser") /\ BrowserProgress
    \/ Others("wait") /\ LoopTurns
    \/ Others("egress") /\ EgressProgress

RequestsSpec ==
    /\ RequestsInit /\ [][RequestsNext]_requestsVars
    /\ WF_requestsVars(Progress)
    /\ WF_requestsVars(Others("wait") /\ Tick)

-----------------------------------------------------------------------------
(* Every part's variables stay in their types.                              *)
RequestsTypeOK ==
    CrawlTypeOK /\ HttpTypeOK /\ BrowserTypeOK /\ ReadinessTypeOK /\ EgressTypeOK

(* Nothing is under way in the part that acts: every request that began is  *)
(* answered, every shutdown that began is over.                             *)
Ended ==
    /\ \A r \in Requests : pc[r] \in Answers \cup {"new"}
    /\ acting = "http" => fetchAt = "done"
    /\ acting = "browser" => browserAt = "done" /\ driver = "none" /\ ~guard
    /\ acting = "wait" => waitAt \notin WaitPlaces
    /\ server \in {"open", "closed"}

(* A request comes to an end in each part it passes through: a crawl that   *)
(* joined a cancelled leader, a fetch whose server never answers, a browser *)
(* that hangs, a page that changes for ever, a proxy whose transports never *)
(* detach.  (Requests are finitely many and never begin anew, so what is    *)
(* over again and again is over for each of them.)                          *)
RequestsEnd == []<>Ended
=============================================================================
