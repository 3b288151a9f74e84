------------------------------- MODULE Crawl -------------------------------
(***************************************************************************)
(* Identical crawls in one process: CrawlService of app/service.py, with   *)
(* the slots of Capacity and the one storage thread it reads and writes    *)
(* the cache through.  All requests here have the same cache key; some are *)
(* forced refreshes.  The first leads and fetches, the others join it.     *)
(*                                                                         *)
(* A step is what a task does between two awaits.  The thread works calls  *)
(* off in order and the event loop resumes their tasks in that order.      *)
(* Timers and cancellations strike a task at any await; the task unwinds   *)
(* in a step of its own.  A deadline has an outer timer around the whole   *)
(* request and an inner one around some awaits, and either may fire first. *)
(* What a result says is left out: an entry is the request that fetched it.*)
(***************************************************************************)
EXTENDS Capacity

CONSTANTS Nobody,      \* no request
          MaxStruck,   \* bound: requests that a timer or a cancellation strikes
          MaxFaults,   \* bound: storage calls that fail
          MaxExpiries  \* bound: expiries of the fresh cache entry

ASSUME CrawlAssumption ==
    /\ Nobody \notin Requests
    /\ MaxStruck \in Nat /\ MaxFaults \in Nat /\ MaxExpiries \in Nat

VARIABLES
    pc,        \* pc[r]: the await request r stands at, or how it ended
    forced,    \* options.force_refresh
    leader,    \* leader[r]: whose future r awaits
    outcome,   \* outcome[r]: what the future of r holds
    inflight,  \* CrawlService.inflight: whose future new requests join
    stop,      \* stop[r]: what has struck r, see Strike
    cache,     \* whose result the fresh entry holds
    calls,     \* calls the storage thread has to do
    ready,     \* finished calls whose tasks have not run yet
    faults, expiries

futureVars == <<leader, outcome, inflight>>
ioVars == <<calls, ready>>
storeVars == <<cache, faults, expiries>>
crawlVars == <<pc, forced, futureVars, stop, storeVars, ioVars>>
vars == <<capacityVars, crawlVars>>

Reading == {"look", "stale", "set", "setstale"}     \* awaits a storage call
Leading == {"stale", "slot", "work", "set", "setstale"}
Awaiting == Reading \cup Leading \cup {"follow"}
Answers == {"cached", "coalesced", "own", "error", "gone"}

CrawlInit ==
    /\ CapacityInit
    /\ pc = [r \in Requests |-> "new"]
    /\ forced \in [Requests -> BOOLEAN]
    /\ leader = [r \in Requests |-> Nobody]
    /\ outcome = [r \in Requests |-> "none"]
    /\ inflight = Nobody
    /\ stop = [r \in Requests |-> "no"]
    /\ cache = Nobody
    /\ calls = <<>> /\ ready = <<>>
    /\ faults = 0 /\ expiries = 0

-----------------------------------------------------------------------------
Goes(r, where) == pc' = [pc EXCEPT ![r] = where]
Asks(r, kind) == calls' = Append(calls, [who |-> r, kind |-> kind, from |-> r])

(* The storage call r awaits has finished and it is the turn of r to run.   *)
Turn(r) == stop[r] = "no" /\ ready # <<>> /\ Head(ready).who = r
Failed == Head(ready).result = "error"

(* A leader leaves: its future gets the outcome and, if it is the one new   *)
(* requests join, it is taken out of inflight.                              *)
Displaces(r) == TRUE
Owns(r) == inflight = r

FutureLeft(o) == "pending"
FutureOf(o) == o
Resolves(r, o) ==
    /\ outcome' = [outcome EXCEPT ![r] = FutureOf(o)]
    /\ inflight' = IF Owns(r) THEN Nobody ELSE inflight

(* setdefault: a forced refresh does not displace a leader.                 *)
BecomesLeader(r) ==
    /\ outcome' = [outcome EXCEPT ![r] = "pending"]
    /\ inflight' = IF inflight = Nobody THEN r ELSE inflight

(* A request starts: the lookup, unless it is forced.                       *)
Start(r) ==
    /\ pc[r] = "new" /\ ~forced[r]
    /\ Goes(r, "look")
    /\ Asks(r, "get")
    /\ UNCHANGED <<capacityVars, forced, futureVars, stop, storeVars, ready>>

(* A forced refresh leads from the start; the slot is held at once, queued  *)
(* for, or refused with 503.                                                *)
StartForced(r) ==
    /\ pc[r] = "new" /\ forced[r]
    /\ \/ Admit(r) /\ Goes(r, "work") /\ BecomesLeader(r)
       \/ Queue(r) /\ Goes(r, "slot") /\ BecomesLeader(r)
       \/ /\ Refuse(r) /\ Goes(r, "error")
          /\ outcome' = [outcome EXCEPT ![r] = "failed"]
          /\ UNCHANGED inflight
    /\ UNCHANGED <<forced, leader, stop, storeVars, ioVars>>

(* cache.get answered: a hit, a leader to join, or a place to lead from.    *)
Looked(r) ==
    /\ pc[r] = "look" /\ Turn(r)
    /\ LET entry == Head(ready).entry
       IN \/ /\ Failed
             /\ Goes(r, "error")
             /\ UNCHANGED <<futureVars, calls>>
          \/ /\ ~Failed /\ entry # Nobody
             /\ Goes(r, "cached")
             /\ UNCHANGED <<futureVars, calls>>
          \/ /\ ~Failed /\ entry = Nobody /\ inflight # Nobody
             /\ Goes(r, "follow")
             /\ leader' = [leader EXCEPT ![r] = inflight]
             /\ UNCHANGED <<outcome, inflight, calls>>
          \/ /\ ~Failed /\ entry = Nobody /\ inflight = Nobody
             /\ Goes(r, "stale")
             /\ BecomesLeader(r)
             /\ Asks(r, "getstale")
             /\ UNCHANGED leader
    /\ ready' = Tail(ready)
    /\ UNCHANGED <<capacityVars, forced, stop, storeVars>>

(* A follower wakes up when its leader's future is resolved.  A leader that *)
(* was cancelled sends it back to the lookup.                               *)
Joined(r) ==
    /\ pc[r] = "follow" /\ stop[r] = "no"
    /\ \/ outcome[leader[r]] = "ok" /\ Goes(r, "coalesced") /\ UNCHANGED calls
       \/ outcome[leader[r]] = "failed" /\ Goes(r, "error") /\ UNCHANGED calls
       \/ outcome[leader[r]] = "cancelled" /\ Goes(r, "look") /\ Asks(r, "get")
    /\ leader' = [leader EXCEPT ![r] = Nobody]
    /\ UNCHANGED <<capacityVars, forced, outcome, inflight, stop, storeVars, ready>>

(* With the revalidation entry read, if there is one, the slot is entered.  *)
StaleLooked(r) ==
    /\ pc[r] = "stale" /\ Turn(r)
    /\ \/ ~Failed /\ Admit(r) /\ Goes(r, "work") /\ UNCHANGED <<outcome, inflight>>
       \/ ~Failed /\ Queue(r) /\ Goes(r, "slot") /\ UNCHANGED <<outcome, inflight>>
       \/ ~Failed /\ Refuse(r) /\ Goes(r, "error") /\ Resolves(r, "failed")
       \/ Failed /\ Goes(r, "error") /\ Resolves(r, "failed") /\ UNCHANGED capacityVars
    /\ ready' = Tail(ready)
    /\ UNCHANGED <<forced, leader, stop, storeVars, calls>>

SlotGranted(r) ==
    /\ pc[r] = "slot" /\ stop[r] = "no"
    /\ Resume(r)
    /\ Goes(r, "work")
    /\ UNCHANGED <<forced, futureVars, stop, storeVars, ioVars>>

(* ... or the deadline has passed while the permit was handed over.         *)
SlotTooLate(r) ==
    /\ pc[r] = "slot" /\ stop[r] = "no"
    /\ ResumeLate(r)
    /\ stop' = [stop EXCEPT ![r] = "inner"]
    /\ Goes(r, "error") /\ Resolves(r, "failed")
    /\ UNCHANGED <<forced, leader, storeVars, ioVars>>

-----------------------------------------------------------------------------
(* A mistaken variant: followers are answered before the result is stored.  *)
ExtractedEarly(r) ==
    /\ pc[r] = "work" /\ stop[r] = "no"
    /\ Leave(r)
    /\ Goes(r, "set") /\ Asks(r, "set") /\ Resolves(r, "ok")
    /\ UNCHANGED <<forced, leader, stop, storeVars, ready>>

(* What fetching, rendering and converting come to: a success, new or       *)
(* confirmed by a 304, a result that did not succeed, or an error.          *)
Extractions == {"success", "failure", "error"}

(* The extraction ends and its slot is free.  Only a success is stored; a   *)
(* result that did not succeed is an answer all the same.                   *)
Extracted(r) ==
    /\ pc[r] = "work" /\ stop[r] = "no"
    /\ Leave(r)
    /\ \E extraction \in Extractions :
          \/ /\ extraction = "success"
             /\ Goes(r, "set") /\ Asks(r, "set") /\ UNCHANGED <<outcome, inflight>>
          \/ /\ extraction = "failure"
             /\ Goes(r, "own") /\ Resolves(r, "ok") /\ UNCHANGED calls
          \/ /\ extraction = "error"
             /\ Goes(r, "error") /\ Resolves(r, "failed") /\ UNCHANGED calls
    /\ UNCHANGED <<forced, leader, stop, storeVars, ready>>

(* _store: the entry, then with validators the copy for revalidation.  A    *)
(* store that fails turns the success into an error.                        *)
Stored(r) ==
    /\ pc[r] = "set" /\ Turn(r)
    /\ \/ Failed /\ Goes(r, "error") /\ Resolves(r, "failed") /\ UNCHANGED calls
       \/ ~Failed /\ Goes(r, "setstale") /\ Asks(r, "setstale") /\ UNCHANGED <<outcome, inflight>>
       \/ ~Failed /\ Goes(r, "own") /\ Resolves(r, "ok") /\ UNCHANGED calls
    /\ ready' = Tail(ready)
    /\ UNCHANGED <<capacityVars, forced, leader, stop, storeVars>>

StaleStored(r) ==
    /\ pc[r] = "setstale" /\ Turn(r)
    /\ \/ Failed /\ Goes(r, "error") /\ Resolves(r, "failed")
       \/ ~Failed /\ Goes(r, "own") /\ Resolves(r, "ok")
    /\ ready' = Tail(ready)
    /\ UNCHANGED <<capacityVars, forced, leader, stop, storeVars, calls>>

-----------------------------------------------------------------------------
(* The storage thread does one call after the other.  An orphaned call has  *)
(* begun, so it still lands, but nobody hears of it.                        *)
Called(result) ==
    /\ calls' = Tail(calls)
    /\ ready' = IF Head(calls).who = Nobody THEN ready
                ELSE Append(ready, [who |-> Head(calls).who, result |-> result,
                                    entry |-> IF Head(calls).kind = "get" THEN cache ELSE Nobody])
    /\ UNCHANGED <<capacityVars, pc, forced, futureVars, stop, expiries>>

ThreadRuns ==
    /\ calls # <<>>
    /\ Called("ok")
    /\ cache' = IF Head(calls).kind = "set" THEN Head(calls).from ELSE cache
    /\ UNCHANGED faults

ThreadFails ==
    /\ calls # <<>> /\ faults < MaxFaults
    /\ Called("error")
    /\ faults' = faults + 1
    /\ UNCHANGED cache

(* The fresh entry reaches its ttl.                                         *)
CacheExpires ==
    /\ cache # Nobody /\ expiries < MaxExpiries
    /\ cache' = Nobody
    /\ expiries' = expiries + 1
    /\ UNCHANGED <<capacityVars, pc, forced, futureVars, stop, faults, ioVars>>

-----------------------------------------------------------------------------
(* r has at most one call under way; without that call, and with it as one  *)
(* nobody awaits.                                                           *)
Under(r, s) == {i \in 1..Len(s) : s[i].who = r}
Withdrawn(r, s) ==
    IF Under(r, s) = {} THEN s
    ELSE LET i == CHOOSE i \in Under(r, s) : TRUE
         IN SubSeq(s, 1, i - 1) \o SubSeq(s, i + 1, Len(s))

(* r stops awaiting its call: it is dropped unless the thread has begun it. *)
Orphaned(r) ==
    /\ \/ calls' = Withdrawn(r, calls)
       \/ 1 \in Under(r, calls) /\ calls' = [calls EXCEPT ![1].who = Nobody]
    /\ ready' = Withdrawn(r, ready)

(* Where a timer or a cancellation can strike: "outer" is the deadline      *)
(* around the request, "inner" the same deadline around joining, the slot   *)
(* and the work, "queue" the queue timeout, "outside" any cancellation.     *)
CanStrike(r, what) ==
    /\ pc[r] \in Awaiting
    /\ CASE what = "queue" -> stop[r] = "no" /\ pc[r] = "slot"
         [] what = "inner" -> stop[r] = "no" /\ pc[r] \in {"follow", "slot", "work"}
         [] OTHER -> stop[r] \in {"no", "inner", "queue"}

(* If an outer one strikes before r unwinds, it decides.                    *)
Strike(r, what) ==
    /\ CanStrike(r, what)
    /\ stop[r] = "no" => Cardinality({q \in Requests : stop[q] # "no"}) < MaxStruck
    /\ stop' = [stop EXCEPT ![r] = what]
    /\ IF pc[r] = "slot" /\ stop[r] = "no" THEN Cancel(r) ELSE UNCHANGED capacityVars
    /\ IF pc[r] \in Reading THEN Orphaned(r) ELSE UNCHANGED ioVars
    /\ UNCHANGED <<pc, forced, futureVars, storeVars>>

(* What a leader that is struck leaves to its followers: a timer inside     *)
(* makes a CrawlError, which is shared; a cancellation sends them on.       *)
CancelShared(r) == "failed"
RawVerdict(r) == stop[r]
Verdict(r) == IF stop[r] \in {"inner", "queue"} THEN "failed" ELSE "cancelled"

Unwinds(r) ==
    /\ pc[r] \in Awaiting /\ stop[r] # "no"
    /\ Goes(r, IF stop[r] = "outside" THEN "gone" ELSE "error")
    /\ CASE pc[r] = "slot" -> Unwind(r)
         [] pc[r] = "work" -> Leave(r)
         [] OTHER -> UNCHANGED capacityVars
    /\ IF pc[r] \in Leading THEN Resolves(r, Verdict(r)) ELSE UNCHANGED <<outcome, inflight>>
    /\ leader' = [leader EXCEPT ![r] = Nobody]
    /\ UNCHANGED <<forced, stop, ioVars, storeVars>>

-----------------------------------------------------------------------------
LoopStep(r) ==
    \/ Looked(r) \/ Joined(r) \/ StaleLooked(r) \/ SlotGranted(r) \/ SlotTooLate(r)
    \/ Extracted(r) \/ Stored(r) \/ StaleStored(r) \/ Unwinds(r)

CrawlNext ==
    \/ \E r \in Requests : Start(r) \/ StartForced(r) \/ LoopStep(r)
    \/ \E r \in Requests, what \in {"inner", "queue", "outer", "outside"} : Strike(r, what)
    \/ ThreadRuns \/ ThreadFails \/ CacheExpires

CrawlSpec == CrawlInit /\ [][CrawlNext]_vars

(* The loop resumes what is ready, every extraction ends and the thread     *)
(* works; no timer is needed for a request to end.                          *)
CrawlProgress == ThreadRuns \/ \E r \in Requests : LoopStep(r)
CrawlFairSpec == CrawlSpec /\ WF_vars(CrawlProgress)

-----------------------------------------------------------------------------
Known == Requests \cup {Nobody}

CrawlTypeOK ==
    /\ pc \in [Requests -> Awaiting \cup Answers \cup {"new"}]
    /\ forced \in [Requests -> BOOLEAN]
    /\ leader \in [Requests -> Known]
    /\ outcome \in [Requests -> {"none", "pending", "ok", "failed", "cancelled"}]
    /\ inflight \in Known /\ cache \in Known
    /\ stop \in [Requests -> {"no", "inner", "queue", "outer", "outside"}]
    /\ calls \in Seq([who : Known, kind : {"get", "getstale", "set", "setstale"}, from : Requests])
    /\ ready \in Seq([who : Requests, result : {"ok", "error"}, entry : Known])
    /\ faults \in Nat /\ expiries \in Nat

(* Requests that are not forced share one extraction: two never run at once *)
(* in this process, whoever fails, is cancelled or refreshes beside them.   *)
OneFetch == Cardinality({r \in Requests : ~forced[r] /\ pc[r] \in Leading}) <= 1

(* A future that requests join is going to be resolved: its leader still    *)
(* works, and a follower never waits for a leader that is gone.             *)
FutureAlive ==
    /\ inflight # Nobody => pc[inflight] \in Leading /\ outcome[inflight] = "pending"
    /\ \A r \in Requests : pc[r] = "follow" =>
           \/ outcome[leader[r]] \in {"ok", "failed", "cancelled"}
           \/ outcome[leader[r]] = "pending" /\ pc[leader[r]] \in Leading

(* A request holds or waits for a crawl slot exactly while it should, so a  *)
(* request that ended, however it ended, left no slot behind.               *)
SlotsMatch ==
    \A r \in Requests :
        /\ pc[r] = "work" <=> stage[r] = "held"
        /\ pc[r] = "slot" <=> stage[r] \in Waiting

(* A result that was stored and answered is not fetched again while it is   *)
(* fresh, neither by a plain request nor beside a forced refresh: one       *)
(* thread does lookups and stores in order and the loop resumes their tasks *)
(* in that order, so a lookup that missed an entry has found its leader     *)
(* before anybody hears of that entry.                                      *)
NoRepeatFetch ==
    [][\A r \in Requests :
          Looked(r) /\ pc'[r] = "stale" /\ cache # Nobody => outcome[cache] # "ok"]_vars

(* "A failure is shared, a cancellation is not": a follower gets an error   *)
(* from its leader exactly when the leader was not cancelled.               *)
CancelStaysPrivate ==
    [][\A r \in Requests :
          /\ Joined(r) /\ pc'[r] = "error" => stop[leader[r]] \notin {"outer", "outside"}
          /\ Joined(r) /\ pc'[r] = "look" => stop[leader[r]] \in {"outer", "outside"}]_vars

(* Every request ends, also one that joined a leader that was cancelled.    *)
EveryRequestEnds == \A r \in Requests : pc[r] # "new" ~> pc[r] \in Answers

(* tests/test_api.py, of a leader whose deadline ran out: the request that  *)
(* joined it "may have time left, so it must not fail" with its leader.     *)
DeadlineStaysPrivate ==
    [][\A r \in Requests :
          Joined(r) /\ pc'[r] = "error" => stop[leader[r]] # "inner"]_vars
=============================================================================
