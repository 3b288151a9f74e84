---------------------------- MODULE RateLimiter ----------------------------
(***************************************************************************)
(* app/rate_limiter.py: the attempts of all requests, in all processes of  *)
(* the service, reserve slots of the global rate and of their host's rate  *)
(* in one store.  Each process reserves on its single storage thread, in a *)
(* transaction of the store; a request reads the clock before it waits for *)
(* that thread, sleeps until its slot, and may run out of its deadline or  *)
(* be cancelled meanwhile.  An attempt that leaves keeps its reservation.  *)
(***************************************************************************)
EXTENDS Integers, Sequences, FiniteSets

CONSTANTS Attempts,        \* attempts that may be made: acquire is called once for each
          Processes,       \* processes of the service on one host
          Home,            \* Home[a]: the process attempt a is made in
          Hosts,           \* the hosts that are asked
          Host,            \* Host[a]: the host of attempt a
          Global,          \* the key of the global rate
          GlobalInterval,  \* 1 / config.global_rate_limit_rps in ticks, 0 for no limit
          Intervals,       \* 1 / rps a request may ask for, 0 for no limit
          Remainings,      \* the times an attempt may have left to its deadline
          Timeout,         \* no deadline is longer
          Horizon,         \* the 3600 seconds an entry is kept at least
          Margin,          \* the 60 seconds it is kept beyond its interval
          Delay,           \* how long the storage thread may leave a call waiting
          None,            \* no slot
          MaxClock,        \* bound: the clock stops here
          MaxFaults        \* bound: reservations that fail

ASSUME RateAssumption ==
    /\ Home \in [Attempts -> Processes] /\ Host \in [Attempts -> Hosts]
    /\ Global \notin Hosts
    /\ GlobalInterval \in Nat /\ Intervals \subseteq Nat
    /\ Timeout \in Nat /\ Remainings \subseteq 1..Timeout
    /\ Horizon \in Nat /\ Margin \in Nat /\ Delay \in 0..Margin
    /\ None \notin Int
    /\ MaxClock \in Nat /\ MaxFaults \in Nat

VARIABLES
    clock,    \* time.time(), one clock for all processes
    at,       \* at[a]: where attempt a stands
    rps,      \* rps[a]: the interval its request asks for
    asked,    \* asked[a]: now, as acquire read it
    latest,   \* latest[a]: its deadline
    granted,  \* granted[a]: the slot reserved for it, whether or not it hears of it
    store,    \* store[key]: the last slot of a key and when the entry expires
    calls,    \* calls[p]: the reservations the storage thread of p has to make
    tx,       \* tx[p]: the slot computed in p's open transaction
    failures

attemptVars == <<at, rps, asked, latest>>
rateVars == <<clock, at, rps, asked, latest, granted, store, calls, tx, failures>>

Keys == Hosts \cup {Global}
Empty == [slot |-> 0, expire |-> 0]
Places == {"new", "asking", "sleeping", "started", "refused", "left", "orphan", "failed"}

(* The limits that apply to an attempt, and their intervals.                *)
IntervalOf(key, a) == IF key = Global THEN GlobalInterval ELSE rps[a]
Active(a) == {key \in {Global, Host[a]} : IntervalOf(key, a) > 0}

RateInit ==
    /\ clock = 0
    /\ at = [a \in Attempts |-> "new"]
    /\ rps = [a \in Attempts |-> 0]
    /\ asked = [a \in Attempts |-> 0]
    /\ latest = [a \in Attempts |-> 0]
    /\ granted = [a \in Attempts |-> None]
    /\ store = [key \in Keys |-> Empty]
    /\ calls = [p \in Processes |-> <<>>]
    /\ tx = [p \in Processes |-> None]
    /\ failures = 0

-----------------------------------------------------------------------------
(* acquire reads the clock and hands reserve to the storage thread.         *)
Ask(a, interval, remaining) ==
    /\ at[a] = "new"
    /\ at' = [at EXCEPT ![a] = "asking"]
    /\ rps' = [rps EXCEPT ![a] = interval]
    /\ asked' = [asked EXCEPT ![a] = clock]
    /\ latest' = [latest EXCEPT ![a] = clock + remaining]
    /\ calls' = [calls EXCEPT ![Home[a]] = Append(@, a)]
    /\ UNCHANGED <<clock, granted, store, tx, failures>>

-----------------------------------------------------------------------------
(* reserve.  A key without an entry is as free as one whose slot is long    *)
(* past.                                                                    *)
EntryInUse(key) == store[key].slot > clock
Entered(key) == store[key].expire > clock
FreeAfterFirst(key, a) ==
    IF Entered(key) THEN store[key].slot + IntervalOf(key, a) ELSE asked[a] + IntervalOf(key, a)
FreeFrom(key, a) ==
    IF Entered(key) THEN store[key].slot + IntervalOf(key, a) ELSE asked[a]

Later(x, y) == IF x > y THEN x ELSE y
NextOf(key, a) == IF key \in Active(a) THEN FreeFrom(key, a) ELSE asked[a]
Slot(a) == Later(asked[a], Later(NextOf(Global, a), NextOf(Host[a], a)))

AnySlotFits(a) == TRUE
FitsBefore(a) == Slot(a) < latest[a]
Fits(a) == Slot(a) <= latest[a]

Keep(a, slot, interval) == Later(Horizon, slot - asked[a] + interval + Margin)

(* store.transact: one transaction is open at a time, in any process.       *)
NoTransaction == TRUE
StoreFree == \A p \in Processes : tx[p] = None

Return(p, outcome) ==
    LET a == Head(calls[p])
    IN /\ at' = [at EXCEPT ![a] = IF @ = "asking" THEN outcome ELSE "left"]
       /\ calls' = [calls EXCEPT ![p] = Tail(@)]

(* The storage thread of p turns to the next call.                          *)
Turn(p) == calls[p] # <<>> /\ at[Head(calls[p])] # "left" /\ tx[p] = None /\ StoreFree

Begin(p) ==
    /\ Turn(p) /\ Fits(Head(calls[p]))
    /\ tx' = [tx EXCEPT ![p] = Slot(Head(calls[p]))]
    /\ UNCHANGED <<clock, attemptVars, granted, store, calls, failures>>

(* No slot before the deadline: 504, and nothing is reserved.               *)
Decline(p) ==
    /\ Turn(p) /\ ~Fits(Head(calls[p]))
    /\ Return(p, "refused")
    /\ UNCHANGED <<clock, rps, asked, latest, granted, store, tx, failures>>

Commit(p) ==
    /\ tx[p] # None
    /\ LET a == Head(calls[p])
       IN /\ store' = [key \in Keys |->
                        IF key \in Active(a)
                        THEN [slot |-> tx[p], expire |-> clock + Keep(a, tx[p], IntervalOf(key, a))]
                        ELSE store[key]]
          /\ granted' = [granted EXCEPT ![a] = tx[p]]
    /\ tx' = [tx EXCEPT ![p] = None]
    /\ Return(p, "sleeping")
    /\ UNCHANGED <<clock, rps, asked, latest, failures>>

(* The store is busy or an operation in it fails: all is rolled back.       *)
Fail(p) ==
    /\ calls[p] # <<>> /\ at[Head(calls[p])] # "left" /\ failures < MaxFaults
    /\ failures' = failures + 1
    /\ tx' = [tx EXCEPT ![p] = None]
    /\ Return(p, "failed")
    /\ UNCHANGED <<clock, rps, asked, latest, granted, store>>

(* A call whose attempt left before it was begun is dropped.                *)
Skip(p) ==
    /\ calls[p] # <<>> /\ at[Head(calls[p])] = "left"
    /\ calls' = [calls EXCEPT ![p] = Tail(@)]
    /\ UNCHANGED <<clock, attemptVars, granted, store, tx, failures>>

-----------------------------------------------------------------------------
(* The sleep is over, and _request finds the deadline still ahead.          *)
Start(a) ==
    /\ at[a] = "sleeping" /\ granted[a] <= clock /\ clock < latest[a]
    /\ at' = [at EXCEPT ![a] = "started"]
    /\ UNCHANGED <<clock, rps, asked, latest, granted, store, calls, tx, failures>>

(* Its deadline or a cancellation ends the wait; a call the thread may have *)
(* begun goes on without it.                                                *)
Depart(a) ==
    /\ \/ /\ at[a] \in {"asking", "sleeping"}
          /\ at' = [at EXCEPT ![a] = "left"]
          /\ at[a] = "asking" /\ Head(calls[Home[a]]) = a => tx[Home[a]] = None
       \/ /\ at[a] = "asking" /\ Head(calls[Home[a]]) = a
          /\ at' = [at EXCEPT ![a] = "orphan"]
    /\ UNCHANGED <<clock, rps, asked, latest, granted, store, calls, tx, failures>>

(* The storage thread leaves no call waiting longer than Delay.             *)
ClockTicks ==
    /\ clock < MaxClock
    /\ \A p \in Processes : \A i \in 1..Len(calls[p]) : clock - asked[calls[p][i]] < Delay
    /\ clock' = clock + 1
    /\ UNCHANGED <<attemptVars, granted, store, calls, tx, failures>>

RateNext ==
    \/ \E a \in Attempts :
          \/ \E interval \in Intervals, remaining \in Remainings : Ask(a, interval, remaining)
          \/ Start(a) \/ Depart(a)
    \/ \E p \in Processes : Begin(p) \/ Decline(p) \/ Commit(p) \/ Fail(p) \/ Skip(p)
    \/ ClockTicks

RateSpec == RateInit /\ [][RateNext]_rateVars

-----------------------------------------------------------------------------
Outstanding(p) == {calls[p][i] : i \in 1..Len(calls[p])}

(* The variables have their types; the calls that wait in a process are     *)
(* those of attempts without a slot, each once, and one transaction is open *)
(* in all processes.                                                        *)
RateTypeOK ==
    /\ clock \in Nat /\ failures \in Nat
    /\ at \in [Attempts -> Places]
    /\ rps \in [Attempts -> Intervals \cup {0}]
    /\ asked \in [Attempts -> Nat] /\ latest \in [Attempts -> Nat]
    /\ granted \in [Attempts -> Nat \cup {None}]
    /\ store \in [Keys -> [slot : Nat, expire : Nat]]
    /\ calls \in [Processes -> Seq(Attempts)]
    /\ tx \in [Processes -> Nat \cup {None}]
    /\ \A p \in Processes :
         /\ \A a \in Outstanding(p) :
              Home[a] = p /\ at[a] \in {"asking", "left", "orphan"} /\ granted[a] = None
         /\ \A i, k \in 1..Len(calls[p]) : calls[p][i] = calls[p][k] => i = k
         /\ tx[p] # None => calls[p] # <<>> /\ \A q \in Processes \ {p} : tx[q] = None
    /\ \A a \in Attempts : at[a] = "new" => granted[a] = None

Reserved == {a \in Attempts : granted[a] # None}

(* Two slots reserved under the same limit are apart by the interval of the *)
(* later one, whichever processes reserved them, however long the storage   *)
(* thread took, and though entries expire.  (An interval so long that even  *)
(* the Horizon does not cover it is kept up to what the Horizon covers.)    *)
Covered(interval) ==
    IF interval < Horizon - Timeout - Delay THEN interval ELSE Horizon - Timeout - Delay

SlotsApart ==
    \A a, b \in Reserved : \A key \in Active(a) \cap Active(b) :
        a # b => \/ granted[a] >= granted[b] + Covered(IntervalOf(key, a))
                 \/ granted[b] >= granted[a] + Covered(IntervalOf(key, b))

(* Attempts that left keep their slots, but no host is blocked by them for  *)
(* longer than the longest deadline.                                        *)
BacklogBounded == \A key \in Keys : store[key].slot <= clock + Timeout

(* An attempt is refused only if its deadline really falls before the next  *)
(* slot after one that was reserved.                                        *)
RefusedForCause ==
    \A a \in Attempts : at[a] = "refused" =>
        \E b \in Reserved : \E key \in Active(a) \cap Active(b) :
            granted[b] + IntervalOf(key, a) > latest[a]

-----------------------------------------------------------------------------
(* Why slots stay apart.  The calls that wait are not older than Delay, and *)
(* an open transaction has found a slot before the deadline; whoever leaves *)
(* then does not take the call back.                                        *)
CallsRecent ==
    \A p \in Processes :
        /\ \A a \in Outstanding(p) :
             /\ asked[a] <= clock /\ clock <= asked[a] + Delay
             /\ latest[a] <= asked[a] + Timeout
        /\ tx[p] # None => /\ at[Head(calls[p])] # "left"
                           /\ asked[Head(calls[p])] <= tx[p] /\ tx[p] <= latest[Head(calls[p])]

(* The entry of a key covers every slot reserved under it, and stays until  *)
(* a request that asks after its expiry is past them all.                   *)
StoreCovers ==
    \A b \in Reserved : \A key \in Active(b) :
        /\ granted[b] <= store[key].slot
        /\ store[key].slot + Margin <= store[key].expire
        /\ granted[b] + Horizon <= store[key].expire + Timeout

(* The slot of an open transaction is apart from all reserved before.       *)
TransactionApart ==
    \A p \in Processes : tx[p] # None =>
        LET a == Head(calls[p])
        IN \A b \in Reserved : \A key \in Active(a) \cap Active(b) :
               /\ granted[b] <= tx[p]
               /\ granted[b] + Covered(IntervalOf(key, a)) <= tx[p]

RateInv == RateTypeOK /\ CallsRecent /\ StoreCovers /\ TransactionApart /\ SlotsApart /\ BacklogBounded
=============================================================================
