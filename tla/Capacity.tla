----------------------------- MODULE Capacity -----------------------------
(***************************************************************************)
(* Admission to the crawl slots: Capacity.slot of app/capacity.py on top   *)
(* of asyncio.Semaphore.  A request enters, waits in a bounded queue if no *)
(* permit is free, and leaves; while it waits it may be cancelled by its   *)
(* deadline, by the queue timeout or from outside, also in the moment      *)
(* between being handed a permit and running with it.                      *)
(*                                                                         *)
(* The semaphore is the library's: release hands the permit straight to    *)
(* the first waiter that can still be woken, and a waiter that runs, with  *)
(* its permit or cancelled, wakes as many more as permits allow.           *)
(***************************************************************************)
EXTENDS Naturals, Sequences, FiniteSets

CONSTANTS Requests,  \* the requests that may ask for a slot
          Limit,     \* config.max_concurrent_requests
          MaxQueue   \* config.max_queue_size

ASSUME CapacityAssumption ==
    /\ IsFiniteSet(Requests)
    /\ Limit \in Nat \ {0}
    /\ MaxQueue \in Nat

VARIABLES
    permits,  \* Semaphore._value
    queue,    \* the waiters that can still be woken, in order of arrival
    stage,    \* where each request stands, see Stages
    active,   \* Capacity.active
    waiting   \* Capacity.waiting

capacityVars == <<permits, queue, stage, active, waiting>>

(* "pending" waits for a permit and "woken" has been handed one but has not *)
(* run since; cancelled, they are "cancelled" and "revoked" until they run. *)
Waiting == {"pending", "cancelled", "woken", "revoked"}
Granted == {"woken", "revoked", "held"}
Stages == Waiting \cup {"out", "held"}

At(S) == {r \in Requests : stage[r] \in S}

CapacityInit ==
    /\ permits = Limit
    /\ queue = <<>>
    /\ stage = [r \in Requests |-> "out"]
    /\ active = 0
    /\ waiting = 0

(* Semaphore.locked: a newcomer may not overtake those who wait.            *)
Locked == permits = 0 \/ At(Waiting \ {"cancelled"}) # {}

(* The queue is full; both requests and the one being woken count.          *)
FullLate == waiting > MaxQueue
Full == waiting >= MaxQueue

-----------------------------------------------------------------------------
(* Request r moves to stage s; of p permits at hand the first n waiters get *)
(* one each.                                                                *)
HandOn(r, s, p, n) ==
    /\ permits' = p - n
    /\ stage' = [x \in Requests |-> IF x = r THEN s
                                  ELSE IF \E i \in 1..n : queue[i] = x THEN "woken"
                                  ELSE stage[x]]
    /\ queue' = SubSeq(queue, n + 1, Len(queue))

Least(a, b) == IF a < b THEN a ELSE b

(* The end of acquire, for a waiter that runs with p permits at hand.       *)
WakesNobody(p) == 0
Wakes(p) == Least(p, Len(queue))
AcquireEnds(r, s, p) == HandOn(r, s, p, Wakes(p))

(* release: one more permit, one waiter woken.                              *)
Release(r, s) == HandOn(r, s, permits + 1, Least(1, Len(queue)))

StillQueued(r) == queue
Position(r) == CHOOSE i \in 1..Len(queue) : queue[i] = r
Without(r) == SubSeq(queue, 1, Position(r) - 1) \o SubSeq(queue, Position(r) + 1, Len(queue))

-----------------------------------------------------------------------------
(* slot: refused, admitted at once, or queued.  A deadline that has passed  *)
(* by the time the request enters changes nothing.                          *)
Refuse(r) ==
    /\ stage[r] = "out" /\ Locked /\ Full
    /\ UNCHANGED capacityVars

Admit(r) ==
    /\ stage[r] = "out" /\ ~Locked
    /\ permits' = permits - 1
    /\ stage' = [stage EXCEPT ![r] = "held"]
    /\ active' = active + 1
    /\ UNCHANGED <<queue, waiting>>

Queue(r) ==
    /\ stage[r] = "out" /\ Locked /\ ~Full
    /\ queue' = Append(queue, r)
    /\ stage' = [stage EXCEPT ![r] = "pending"]
    /\ waiting' = waiting + 1
    /\ UNCHANGED <<permits, active>>

(* A waiter that was woken runs: it holds its slot.                         *)
Resume(r) ==
    /\ stage[r] = "woken"
    /\ AcquireEnds(r, "held", permits)
    /\ active' = active + 1
    /\ waiting' = waiting - 1

(* ... or finds its deadline passed, and the finally gives the slot back.   *)
ResumeLate(r) ==
    /\ stage[r] = "woken"
    /\ AcquireEnds(r, "out", permits + 1)
    /\ waiting' = waiting - 1
    /\ UNCHANGED active

(* A timeout or a cancellation reaches a waiter.                            *)
Cancel(r) ==
    /\ \/ /\ stage[r] = "pending"
          /\ stage' = [stage EXCEPT ![r] = "cancelled"]
          /\ queue' = Without(r)
       \/ /\ stage[r] = "woken"
          /\ stage' = [stage EXCEPT ![r] = "revoked"]
          /\ UNCHANGED queue
    /\ UNCHANGED <<permits, active, waiting>>

(* A mistaken variant: a permit is given back that was never handed over.   *)
UnwindReleasing(r) ==
    /\ stage[r] \in {"cancelled", "revoked"}
    /\ AcquireEnds(r, "out", permits + 1)
    /\ waiting' = waiting - 1
    /\ UNCHANGED active

(* The cancelled waiter runs and raises.                                    *)
Unwind(r) ==
    /\ \/ /\ stage[r] = "cancelled"
          /\ AcquireEnds(r, "out", permits)
       \/ /\ stage[r] = "revoked"
          /\ AcquireEnds(r, "out", permits + 1)
    /\ waiting' = waiting - 1
    /\ UNCHANGED active

(* A mistaken variant: the slot is not given back.                          *)
LeaveHolding(r) == stage[r] = "held" /\ UNCHANGED capacityVars

(* The body ends, however it ends: the finally of slot.                     *)
Leave(r) ==
    /\ stage[r] = "held"
    /\ Release(r, "out")
    /\ active' = active - 1
    /\ UNCHANGED waiting

Step(r) ==
    \/ Refuse(r) \/ Admit(r) \/ Queue(r)
    \/ Resume(r) \/ ResumeLate(r) \/ Cancel(r) \/ Unwind(r) \/ Leave(r)

CapacityNext == \E r \in Requests : Step(r)

CapacitySpec == CapacityInit /\ [][CapacityNext]_capacityVars

-----------------------------------------------------------------------------
(* The variables stay in their types; the semaphore never exceeds its limit.*)
CapacityTypeOK ==
    /\ permits \in 0..Limit
    /\ queue \in Seq(Requests)
    /\ stage \in [Requests -> Stages]
    /\ active \in Nat /\ waiting \in Nat

(* Every permit is free, handed over or held: none is lost or given twice,  *)
(* whatever is cancelled at which moment, and active counts those held.     *)
PermitsConserved ==
    /\ permits + Cardinality(At(Granted)) = Limit
    /\ active = Cardinality(At({"held"}))

(* MAX_QUEUE_SIZE bounds the requests that wait, and waiting counts them.   *)
QueueBound ==
    /\ waiting = Cardinality(At(Waiting))
    /\ waiting <= MaxQueue

(* No wake-up is lost: while a permit lies idle and a request waits for     *)
(* one, a waiter that was handed one is still to run, and wakes the next.   *)
NoIdlePermit ==
    permits > 0 /\ At({"pending"}) # {} => At({"woken", "revoked"}) # {}

(* Only a request that still waits can be handed a permit, and only one: a  *)
(* cancelled waiter is out of the queue at once, all others are in it once. *)
QueueOrder ==
    /\ At({"pending"}) = {queue[i] : i \in 1..Len(queue)}
    /\ \A i, k \in 1..Len(queue) : queue[i] = queue[k] => i = k

CapacityInv == CapacityTypeOK /\ PermitsConserved /\ QueueBound
               /\ NoIdlePermit /\ QueueOrder
=============================================================================
