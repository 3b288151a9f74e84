--------------------------- MODULE InboundLimit ---------------------------
(***************************************************************************)
(* app/inbound_limit.py: the token bucket in front of the crawl endpoints, *)
(* and the Retry-After that app/main.py makes of its answer.  take() does  *)
(* not await, so each call is one step.  Time is counted in ticks in which *)
(* a whole number of tokens flows back.                                    *)
(***************************************************************************)
EXTENDS Naturals, Integers

CONSTANTS Burst,    \* config.inbound_rate_limit_burst
          Rate,     \* tokens that flow back in a tick
          Second,   \* ticks in a second, the unit of Retry-After
          MaxUrls,  \* config.max_urls_per_request
          MaxTime   \* bound: the clock stops here

ASSUME InboundAssumption ==
    /\ Burst \in Nat \ {0} /\ Rate \in Nat \ {0} /\ Second \in Nat \ {0}
    /\ MaxUrls \in Nat \ {0} /\ MaxTime \in Nat

VARIABLES
    tokens,   \* InboundLimit.tokens; below zero after a batch larger than the burst
    updated,  \* InboundLimit.updated
    time,     \* the monotonic clock
    window,   \* ghost: a window of time that opens at any moment, and the URLs admitted in it
    told      \* ghost: a refused request, until when it was told to wait, nobody admitted since

inboundVars == <<tokens, updated, time, window, told>>

Costs == 1..MaxUrls
NoWindow == [open |-> FALSE, at |-> 0, spent |-> 0]
Nothing == [cost |-> 0, until |-> 0]

InboundInit ==
    /\ tokens = Burst
    /\ updated = 0
    /\ time = 0
    /\ window = NoWindow
    /\ told = Nothing

-----------------------------------------------------------------------------
Lower(a, b) == IF a < b THEN a ELSE b

Uncapped == tokens + (time - updated) * Rate
Refilled == Lower(Burst, tokens + (time - updated) * Rate)

(* A batch larger than the burst runs once the bucket is full.              *)
WholeCost(cost) == cost
AnyToken(cost) == 1
Needed(cost) == Lower(cost, Burst)

(* math.ceil of (needed - tokens) / rate, in seconds.                       *)
RetryAfter(cost) == (Needed(cost) - Refilled + Rate * Second - 1) \div (Rate * Second)

Refills(left) ==
    /\ tokens' = left
    /\ updated' = time
    /\ UNCHANGED time

(* take returns 0: all the URLs are admitted.                               *)
Take(cost) ==
    /\ Refilled >= Needed(cost)
    /\ Refills(Refilled - cost)
    /\ window' = IF window.open THEN [window EXCEPT !.spent = @ + cost] ELSE window
    /\ told' = Nothing

(* take returns the time to wait: 429, and nothing is taken.                *)
TurnAway(cost) ==
    /\ Refilled < Needed(cost)
    /\ Refills(Refilled)
    /\ told' \in {told, [cost |-> cost, until |-> time + RetryAfter(cost) * Second]}
    /\ UNCHANGED window

WindowOpens ==
    /\ ~window.open
    /\ window' = [open |-> TRUE, at |-> time, spent |-> 0]
    /\ UNCHANGED <<tokens, updated, time, told>>

TimePasses ==
    /\ time < MaxTime
    /\ time' = time + 1
    /\ UNCHANGED <<tokens, updated, window, told>>

InboundNext ==
    \/ \E cost \in Costs : Take(cost) \/ TurnAway(cost)
    \/ WindowOpens \/ TimePasses

InboundSpec == InboundInit /\ [][InboundNext]_inboundVars

-----------------------------------------------------------------------------
(* What a batch may take beyond a full bucket.                              *)
Excess == IF MaxUrls > Burst THEN MaxUrls - Burst ELSE 0

(* The bucket never holds more than the burst and never owes more than what *)
(* the largest batch takes beyond it.                                       *)
InboundTypeOK ==
    /\ tokens \in Int /\ -Excess <= tokens /\ tokens <= Burst
    /\ updated \in Nat /\ time \in Nat /\ updated <= time
    /\ window \in [open : BOOLEAN, at : Nat, spent : Nat] /\ window.at <= time
    /\ told \in [cost : Costs \cup {0}, until : Nat]

(* Whatever is asked when, in no stretch of time are more URLs admitted     *)
(* than the burst, what flows back meanwhile and one batch's excess.        *)
WindowBound ==
    window.open => window.spent <= Burst + Rate * (time - window.at) + Excess

(* Retry-After is honest: a request that waits as long as it was told, and  *)
(* before which no other is admitted, is admitted, batches larger than the  *)
(* burst included.                                                          *)
RetryIsEnough ==
    told # Nothing /\ time >= told.until => Refilled >= Needed(told.cost)
=============================================================================
