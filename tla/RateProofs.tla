---------------------------- MODULE RateProofs ----------------------------
(***************************************************************************)
(* The two limits on the rate of requests.                                 *)
(*                                                                         *)
(* The outbound limit for any attempts, processes, hosts and intervals:    *)
(* RateInv is inductive.  The heart is SlotAfter: whether the entry of a   *)
(* key is still there or has expired, the slot computed for an attempt is  *)
(* apart from every slot reserved under that key before.                   *)
(*                                                                         *)
(* The inbound limit for every rate, burst and largest batch: no stretch   *)
(* of time sees more URLs than the burst, the refill and one excess.       *)
(***************************************************************************)
EXTENDS RateLimiter, InboundLimit, SequenceTheorems, TLAPS

NoRepeat(s) == \A i, k \in 1..Len(s) : s[i] = s[k] => i = k

(* What the types say of the first call that waits in a process.            *)
LEMMA HeadWaits ==
  ASSUME RateTypeOK, NEW p \in Processes, calls[p] # <<>>
  PROVE  LET a == Head(calls[p])
         IN  /\ a \in Attempts /\ a \in Outstanding(p) /\ Home[a] = p
             /\ at[a] \in {"asking", "left", "orphan"} /\ granted[a] = None
<1>1. calls[p] \in Seq(Attempts)
  BY DEF RateTypeOK
<1>2. Len(calls[p]) \in Nat /\ Len(calls[p]) >= 1 /\ Head(calls[p]) = calls[p][1]
  BY <1>1
<1>3. Head(calls[p]) \in Attempts /\ Head(calls[p]) \in Outstanding(p)
  BY <1>1, <1>2 DEF Outstanding
<1> QED
  BY <1>3 DEF RateTypeOK

(* What the queues are like once the storage thread has done with a call.   *)
LEMMA OneCallLess ==
  ASSUME RateTypeOK, NEW p \in Processes, calls[p] # <<>>,
         calls' = [calls EXCEPT ![p] = Tail(@)]
  PROVE  /\ calls' \in [Processes -> Seq(Attempts)]
         /\ \A q \in Processes \ {p} : calls'[q] = calls[q]
         /\ \A q \in Processes : Outstanding(q)' \subseteq Outstanding(q)
         /\ \A q \in Processes : Head(calls[p]) \notin Outstanding(q)'
         /\ \A q \in Processes : \A i, k \in 1..Len(calls'[q]) : calls'[q][i] = calls'[q][k] => i = k
<1>1. calls \in [Processes -> Seq(Attempts)] /\ calls[p] \in Seq(Attempts)
  BY DEF RateTypeOK
<1> DEFINE s == calls[p]
           t == Tail(s)
<1>2. /\ t \in Seq(Attempts) /\ Len(s) \in Nat /\ Len(s) >= 1 /\ Len(t) = Len(s) - 1
      /\ \A i \in 1..Len(t) : t[i] = s[i + 1]
      /\ Head(s) = s[1]
  BY <1>1
<1>3. calls'[p] = t /\ \A q \in Processes \ {p} : calls'[q] = calls[q]
  BY <1>1
<1>4. calls' \in [Processes -> Seq(Attempts)]
  BY <1>1, <1>2
<1>5. \A i, k \in 1..Len(s) : s[i] = s[k] => i = k
  BY DEF RateTypeOK
<1> HIDE DEF t, s
<1>6. ASSUME NEW q \in Processes
      PROVE  /\ Outstanding(q)' \subseteq Outstanding(q)
             /\ Head(calls[p]) \notin Outstanding(q)'
             /\ \A i, k \in 1..Len(calls'[q]) : calls'[q][i] = calls'[q][k] => i = k
  <2>1. CASE q = p
    <3>1. \A i \in 1..Len(t) : i + 1 \in 1..Len(s) /\ 1 \in 1..Len(s)
      BY <1>2
    <3>2. \A i \in 1..Len(t) : t[i] # s[1]
      BY <1>2, <1>5, <3>1
    <3>3. \A i, k \in 1..Len(t) : t[i] = t[k] => i = k
      BY <1>2, <1>5, <3>1
    <3>4. Outstanding(p)' = {t[i] : i \in 1..Len(t)} /\ Outstanding(p) = {s[i] : i \in 1..Len(s)}
      BY <1>3 DEF Outstanding, s
    <3>5. Outstanding(p)' \subseteq Outstanding(p)
      BY <3>1, <3>4, <1>2
    <3>6. Head(s) \notin Outstanding(p)'
      BY <3>2, <3>4, <1>2
    <3> QED
      <4>1. Head(calls[p]) \notin Outstanding(p)' /\ calls'[p] = t
        BY <1>3, <3>6 DEF s
      <4>2. \A i, k \in 1..Len(calls'[p]) : calls'[p][i] = calls'[p][k] => i = k
        <5>1. NoRepeat(t)
          BY <3>3 DEF NoRepeat
        <5>2. NoRepeat(calls'[p])
          BY <4>1, <5>1
        <5> QED
          BY <5>2, Zenon DEF NoRepeat
      <4> QED
        BY <2>1, <3>5, <4>1, <4>2
  <2>2. CASE q # p
    <3>1. calls'[q] = calls[q]
      BY <1>3, <2>2
    <3>2. Outstanding(q)' = Outstanding(q)
      BY <3>1 DEF Outstanding
    <3>3. Home[Head(calls[p])] = p
      BY HeadWaits
    <3>4. Head(calls[p]) \notin Outstanding(q)
      BY <2>2, <3>3 DEF RateTypeOK
    <3> QED
      BY <3>1, <3>2, <3>4 DEF RateTypeOK
  <2> QED
    BY <2>1, <2>2
<1> QED
  BY <1>3, <1>4, <1>6

(* The limits of an attempt do not change unless its request does.          *)
LEMMA SameLimits ==
  ASSUME NEW a \in Attempts, rps'[a] = rps[a]
  PROVE  Active(a)' = Active(a) /\ \A key : IntervalOf(key, a)' = IntervalOf(key, a)
  BY DEF Active, IntervalOf

(* An interval, and the part of it that entries cover.                      *)
LEMMA IntervalCovers ==
  ASSUME RateTypeOK, NEW a \in Attempts, NEW key
  PROVE  /\ IntervalOf(key, a) \in Nat
         /\ Covered(IntervalOf(key, a)) \in Int /\ Covered(IntervalOf(key, a)) <= IntervalOf(key, a)
         /\ Covered(IntervalOf(key, a)) <= Horizon - Timeout - Delay
<1>1. /\ Horizon \in Nat /\ Timeout \in Nat /\ Delay \in Nat
      /\ GlobalInterval \in Nat /\ rps[a] \in Nat
  <2>1. rps[a] \in Intervals \cup {0}
    BY DEF RateTypeOK
  <2>2. Intervals \subseteq Nat /\ Horizon \in Nat /\ Timeout \in Nat /\ GlobalInterval \in Nat
    BY RateAssumption
  <2>3. Delay \in Nat
    BY RateAssumption
  <2>4. \A i \in Intervals \cup {0} : i \in Nat
    BY <2>2
  <2>5. rps[a] \in Nat
    BY <2>1, <2>4, Zenon
  <2> QED
    BY <2>2, <2>3, <2>5
<1>2. PICK i \in Nat : i = IntervalOf(key, a)
  BY <1>1 DEF IntervalOf
<1>3. Covered(i) \in Int /\ Covered(i) <= i /\ Covered(i) <= Horizon - Timeout - Delay
  <2> DEFINE most == Horizon - Timeout - Delay
  <2>1. most \in Int /\ Covered(i) = IF i < most THEN i ELSE most
    BY <1>1 DEF Covered
  <2> HIDE DEF most
  <2>2. Covered(i) \in Int /\ Covered(i) <= i /\ Covered(i) <= most
    BY <2>1
  <2> QED
    BY <2>2 DEF most
<1> QED
  BY <1>2, <1>3

(* reserve computes a slot no earlier than the attempt asked, and no        *)
(* earlier than each of its limits is free.                                 *)
LEMMA SlotBounds ==
  ASSUME RateTypeOK, NEW a \in Attempts
  PROVE  /\ Slot(a) \in Nat /\ asked[a] <= Slot(a)
         /\ \A key \in Active(a) : FreeFrom(key, a) \in Nat /\ FreeFrom(key, a) <= Slot(a)
<1>1. asked[a] \in Nat
  BY DEF RateTypeOK
<1>2. ASSUME NEW key \in Keys
      PROVE  FreeFrom(key, a) \in Nat
  <2>1. IntervalOf(key, a) \in Nat /\ store[key].slot \in Nat
    BY IntervalCovers DEF RateTypeOK
  <2> QED
    BY <1>1, <2>1 DEF FreeFrom
<1>3. Global \in Keys /\ Host[a] \in Keys
  BY RateAssumption DEF Keys
<1>4. PICK g \in Nat : g = NextOf(Global, a)
  BY <1>1, <1>2, <1>3 DEF NextOf
<1>5. PICK h \in Nat : h = NextOf(Host[a], a)
  BY <1>1, <1>2, <1>3 DEF NextOf
<1>6. Slot(a) = Later(asked[a], Later(g, h))
  BY <1>4, <1>5 DEF Slot
<1>7. Slot(a) \in Nat /\ asked[a] <= Slot(a) /\ g <= Slot(a) /\ h <= Slot(a)
  BY <1>1, <1>6 DEF Later
<1>8. ASSUME NEW key \in Active(a)
      PROVE  FreeFrom(key, a) \in Nat /\ FreeFrom(key, a) <= Slot(a)
  <2>1. key = Global \/ key = Host[a]
    BY DEF Active
  <2>2. NextOf(key, a) = FreeFrom(key, a)
    BY DEF NextOf
  <2> QED
    BY <2>1, <2>2, <1>2, <1>3, <1>4, <1>5, <1>7
<1> QED
  BY <1>7, <1>8

(* The slot computed for an attempt that waited for the storage thread no   *)
(* longer than Delay is apart from every slot reserved under its limits.    *)
LEMMA SlotAfter ==
  ASSUME RateTypeOK, StoreCovers, NEW a \in Attempts, clock <= asked[a] + Delay,
         NEW b \in Reserved, NEW key \in Active(a) \cap Active(b)
  PROVE  granted[b] <= Slot(a) /\ granted[b] + Covered(IntervalOf(key, a)) <= Slot(a)
<1>1. /\ asked[a] \in Nat /\ clock \in Nat /\ granted[b] \in Nat /\ key \in Keys
      /\ store[key].slot \in Nat /\ store[key].expire \in Nat
  BY RateAssumption, SMTT(30) DEF RateTypeOK, Reserved, Active, Keys
<1>2. /\ granted[b] <= store[key].slot
      /\ store[key].slot + Margin <= store[key].expire
      /\ granted[b] + Horizon <= store[key].expire + Timeout
  BY DEF StoreCovers
<1>3. PICK i \in Nat : i = IntervalOf(key, a)
  BY IntervalCovers
<1>4. PICK c \in Int : c = Covered(IntervalOf(key, a)) /\ c <= i /\ c <= Horizon - Timeout - Delay
  BY <1>3, IntervalCovers
<1>5. PICK s \in Nat : s = Slot(a) /\ asked[a] <= s /\ FreeFrom(key, a) <= s
  BY SlotBounds
<1>6. Horizon \in Nat /\ Timeout \in Nat /\ Margin \in Nat /\ Delay \in Nat /\ Delay <= Margin
  BY RateAssumption
<1>7. CASE Entered(key)
  <2>1. FreeFrom(key, a) = store[key].slot + i
    BY <1>3, <1>7 DEF FreeFrom
  <2>2. granted[b] <= s /\ granted[b] + c <= s
    BY <1>1, <1>2, <1>4, <1>5, <2>1
  <2> QED
    BY <1>4, <1>5, <2>2
<1>8. CASE ~Entered(key)
  <2>1. store[key].expire <= clock
    BY <1>1, <1>8 DEF Entered
  <2>2. granted[b] <= s
    BY <1>1, <1>2, <1>5, <1>6, <2>1
  <2>3. granted[b] + c <= s
    BY <1>1, <1>2, <1>4, <1>5, <1>6, <2>1
  <2> QED
    BY <1>4, <1>5, <2>2, <2>3
<1> QED
  BY <1>7, <1>8

(* A step that reserves nothing leaves the slots as they are.               *)
LEMMA NothingReserved ==
  ASSUME RateInv, RateTypeOK', granted' = granted, store' = store, clock' >= clock,
         \A b \in Reserved : rps'[b] = rps[b]
  PROVE  StoreCovers' /\ SlotsApart' /\ BacklogBounded'
<1>1. Reserved' = Reserved /\ Reserved \subseteq Attempts
  BY DEF Reserved
<1>2. \A b \in Reserved : Active(b)' = Active(b) /\ \A key : IntervalOf(key, b)' = IntervalOf(key, b)
  BY <1>1, SameLimits
<1>3. StoreCovers'
  BY <1>1, <1>2 DEF RateInv, StoreCovers
<1>4. SlotsApart'
  BY <1>1, <1>2 DEF RateInv, SlotsApart, Covered
<1>5. BacklogBounded'
  <2>1. ASSUME NEW key \in Keys PROVE store'[key].slot <= clock' + Timeout
    <3>1. /\ store[key].slot \in Nat /\ clock \in Nat /\ clock' \in Nat /\ Timeout \in Nat
          /\ store[key].slot <= clock + Timeout
      BY RateAssumption DEF RateInv, RateTypeOK, BacklogBounded
    <3> QED
      BY <3>1
  <2> QED
    BY <2>1 DEF BacklogBounded
<1> QED
  BY <1>3, <1>4, <1>5

(* Nor does it touch the transactions that stay open.                       *)
LEMMA TransactionsStay ==
  ASSUME RateInv, granted' = granted,
         \A b \in Reserved : rps'[b] = rps[b],
         \A p \in Processes : tx'[p] # None =>
             /\ tx'[p] = tx[p] /\ Head(calls'[p]) = Head(calls[p])
             /\ rps'[Head(calls[p])] = rps[Head(calls[p])]
  PROVE  TransactionApart'
<1>1. ASSUME NEW p \in Processes, tx'[p] # None, NEW a, a = Head(calls'[p]),
             NEW b \in Reserved', NEW key \in Active(a)' \cap Active(b)'
      PROVE  granted'[b] <= tx'[p] /\ granted'[b] + Covered(IntervalOf(key, a)') <= tx'[p]
  <2>1. tx'[p] = tx[p] /\ a = Head(calls[p]) /\ rps'[a] = rps[a] /\ calls[p] # <<>>
    BY <1>1 DEF RateInv, RateTypeOK
  <2>2. a \in Attempts /\ b \in Reserved /\ b \in Attempts
    BY <1>1, <2>1, HeadWaits DEF RateInv, Reserved
  <2>3. /\ Active(a)' = Active(a) /\ Active(b)' = Active(b)
        /\ IntervalOf(key, a)' = IntervalOf(key, a)
    BY <2>1, <2>2, SameLimits
  <2>4. tx[p] # None /\ key \in Active(a) \cap Active(b)
    BY <1>1, <2>1, <2>3
  <2>5. granted[b] <= tx[p] /\ granted[b] + Covered(IntervalOf(key, a)) <= tx[p]
    BY <2>1, <2>2, <2>4 DEF RateInv, TransactionApart
  <2> QED
    BY <2>1, <2>3, <2>5
<1> QED
  BY <1>1 DEF TransactionApart, Reserved, Active, IntervalOf, Covered

(* The storage thread of p is done with a call, and has no open transaction *)
(* then.                                                                    *)
LEMMA CallDone ==
  ASSUME RateInv, NEW p \in Processes, calls[p] # <<>>,
         calls' = [calls EXCEPT ![p] = Tail(@)],
         at' \in [Attempts -> Places], at'[Head(calls[p])] # "new",
         \A x \in Attempts : x # Head(calls[p]) => at'[x] = at[x] /\ granted'[x] = granted[x],
         granted' \in [Attempts -> Nat \cup {None}],
         store' \in [Keys -> [slot : Nat, expire : Nat]],
         tx' \in [Processes -> Nat \cup {None}], tx'[p] = None,
         \A q \in Processes \ {p} : tx'[q] = tx[q],
         failures' \in Nat, UNCHANGED <<clock, rps, asked, latest>>
  PROVE  RateTypeOK' /\ CallsRecent'
<1>1. RateTypeOK
  BY DEF RateInv
<1>2. PICK a \in Attempts : a = Head(calls[p]) /\ Home[a] = p /\ at[a] # "new"
  BY <1>1, HeadWaits
<1>3. /\ calls' \in [Processes -> Seq(Attempts)]
      /\ \A q \in Processes \ {p} : calls'[q] = calls[q]
      /\ \A q \in Processes : Outstanding(q)' \subseteq Outstanding(q) /\ a \notin Outstanding(q)'
      /\ \A q \in Processes : NoRepeat(calls'[q])
  BY <1>1, <1>2, OneCallLess DEF NoRepeat
<1>4. ASSUME NEW q \in Processes, NEW x \in Outstanding(q)'
      PROVE  /\ x \in Outstanding(q) /\ x \in Attempts /\ at'[x] = at[x] /\ granted'[x] = granted[x]
             /\ Home[x] = q /\ at[x] \in {"asking", "left", "orphan"} /\ granted[x] = None
  <2>1. x \in Outstanding(q) /\ x # a
    BY <1>3
  <2>2. calls[q] \in Seq(Attempts)
    BY <1>1 DEF RateTypeOK
  <2>3. x \in Attempts
    BY <2>1, <2>2 DEF Outstanding
  <2> QED
    BY <1>1, <1>2, <2>1, <2>3 DEF RateTypeOK
<1>5. ASSUME NEW q \in Processes, tx'[q] # None
      PROVE  /\ q # p /\ tx[q] # None /\ tx'[q] = tx[q] /\ calls'[q] = calls[q] /\ calls[q] # <<>>
             /\ Head(calls[q]) \in Attempts /\ at'[Head(calls[q])] = at[Head(calls[q])]
             /\ \A o \in Processes \ {q} : tx'[o] = None
  <2>1. q # p /\ tx[q] # None /\ tx'[q] = tx[q] /\ calls'[q] = calls[q]
    BY <1>3, <1>5
  <2>2. calls[q] # <<>> /\ \A o \in Processes \ {q} : tx[o] = None
    BY <1>1, <2>1 DEF RateTypeOK
  <2>3. Head(calls[q]) \in Attempts /\ Home[Head(calls[q])] = q
    BY <1>1, <2>2, HeadWaits
  <2>4. at'[Head(calls[q])] = at[Head(calls[q])]
    BY <1>2, <2>1, <2>3
  <2>5. \A o \in Processes \ {q} : tx'[o] = None
    BY <2>2
  <2> QED
    BY <2>1, <2>2, <2>3, <2>4, <2>5
<1>6. RateTypeOK'
  <2>1. /\ (clock \in Nat)' /\ (rps \in [Attempts -> Intervals \cup {0}])'
        /\ (asked \in [Attempts -> Nat])' /\ (latest \in [Attempts -> Nat])'
    BY <1>1 DEF RateTypeOK
  <2>2. \A q \in Processes : \A x \in Outstanding(q)' :
            Home[x] = q /\ at'[x] \in {"asking", "left", "orphan"} /\ granted'[x] = None
    BY <1>4
  <2>3. \A q \in Processes : tx'[q] # None =>
            calls'[q] # <<>> /\ \A o \in Processes \ {q} : tx'[o] = None
    BY <1>5
  <2>4. \A x \in Attempts : at'[x] = "new" => granted'[x] = None
    BY <1>1, <1>2, ZenonT(40) DEF RateTypeOK
  <2> QED
    BY <1>3, <2>1, <2>2, <2>3, <2>4 DEF RateTypeOK, NoRepeat
<1>7. CallsRecent'
  <2>1. ASSUME NEW q \in Processes, NEW x \in Outstanding(q)'
        PROVE  asked[x] <= clock /\ clock <= asked[x] + Delay /\ latest[x] <= asked[x] + Timeout
    BY <1>4 DEF RateInv, CallsRecent
  <2>2. ASSUME NEW q \in Processes, tx'[q] # None
        PROVE  /\ at'[Head(calls'[q])] # "left"
               /\ asked[Head(calls'[q])] <= tx'[q] /\ tx'[q] <= latest[Head(calls'[q])]
    <3>1. tx[q] # None /\ tx'[q] = tx[q] /\ calls'[q] = calls[q] /\ at'[Head(calls[q])] = at[Head(calls[q])]
      BY <1>5, <2>2
    <3>2. /\ at[Head(calls[q])] # "left"
          /\ asked[Head(calls[q])] <= tx[q] /\ tx[q] <= latest[Head(calls[q])]
      BY <3>1 DEF RateInv, CallsRecent
    <3> QED
      BY <3>1, <3>2, Zenon
  <2> QED
    BY <2>1, <2>2 DEF CallsRecent
<1> QED
  BY <1>6, <1>7

(* acquire: one more call waits.                                            *)
LEMMA OneCallMore ==
  ASSUME RateTypeOK, NEW a \in Attempts, at[a] = "new",
         calls' = [calls EXCEPT ![Home[a]] = Append(@, a)]
  PROVE  /\ calls' \in [Processes -> Seq(Attempts)]
         /\ \A q \in Processes : a \notin Outstanding(q) /\ Outstanding(q)' \subseteq Outstanding(q) \cup {a}
         /\ \A q \in Processes : a \in Outstanding(q)' => Home[a] = q
         /\ \A q \in Processes : NoRepeat(calls'[q])
         /\ \A q \in Processes : calls[q] # <<>> =>
                calls'[q] # <<>> /\ Head(calls'[q]) = Head(calls[q]) /\ Head(calls[q]) # a
<1>1. calls \in [Processes -> Seq(Attempts)] /\ Home[a] \in Processes
  BY RateAssumption DEF RateTypeOK
<1>2. \A q \in Processes : a \notin Outstanding(q)
  BY DEF RateTypeOK
<1>3. calls' \in [Processes -> Seq(Attempts)]
  BY <1>1
<1>4. ASSUME NEW q \in Processes, q = Home[a]
      PROVE  /\ Outstanding(q)' \subseteq Outstanding(q) \cup {a} /\ NoRepeat(calls'[q])
             /\ calls[q] # <<>> =>
                  calls'[q] # <<>> /\ Head(calls'[q]) = Head(calls[q]) /\ Head(calls[q]) # a
  <2> DEFINE s == calls[q]
             t == Append(s, a)
  <2>1. /\ s \in Seq(Attempts) /\ t \in Seq(Attempts) /\ Len(s) \in Nat /\ Len(t) = Len(s) + 1
        /\ \A i \in 1..Len(s) : t[i] = s[i]
        /\ t[Len(s) + 1] = a
    BY <1>1
  <2>2. calls'[q] = t
    BY <1>1, <1>4
  <2>3. \A i, k \in 1..Len(s) : s[i] = s[k] => i = k
    BY DEF RateTypeOK
  <2>4. \A i \in 1..Len(s) : s[i] # a
    BY <1>2 DEF Outstanding
  <2>5. s # <<>> => t # <<>> /\ Head(t) = Head(s) /\ Head(s) # a
    <3>1. ASSUME s # <<>> PROVE Len(s) >= 1
      BY <2>1, <3>1
    <3>2. ASSUME s # <<>> PROVE Head(s) = s[1] /\ Head(t) = t[1] /\ t # <<>>
      BY <2>1, <3>1, <3>2
    <3> QED
      BY <2>1, <2>4, <3>1, <3>2
  <2>6. Outstanding(q)' = {t[i] : i \in 1..Len(t)} /\ Outstanding(q) = {s[i] : i \in 1..Len(s)}
    BY <2>2 DEF Outstanding
  <2> HIDE DEF s, t
  <2>7. \A i \in 1..Len(t) : i \in 1..Len(s) \/ i = Len(s) + 1
    BY <2>1
  <2>8. NoRepeat(t)
    BY <2>1, <2>3, <2>4, <2>7 DEF NoRepeat
  <2>9. Outstanding(q)' \subseteq Outstanding(q) \cup {a}
    BY <2>1, <2>6, <2>7
  <2>10. NoRepeat(calls'[q])
    BY <2>2, <2>8
  <2> QED
    BY <2>2, <2>5, <2>9, <2>10 DEF s
<1>5. ASSUME NEW q \in Processes, q # Home[a]
      PROVE  /\ Outstanding(q)' = Outstanding(q) /\ NoRepeat(calls'[q])
             /\ calls[q] # <<>> =>
                  calls'[q] # <<>> /\ Head(calls'[q]) = Head(calls[q]) /\ Head(calls[q]) # a
  <2>1. calls'[q] = calls[q]
    BY <1>1, <1>5
  <2>2. Outstanding(q)' = Outstanding(q)
    BY <2>1 DEF Outstanding
  <2>3. NoRepeat(calls[q])
    BY DEF RateTypeOK, NoRepeat
  <2>4. calls[q] # <<>> => Head(calls[q]) # a
    BY <1>2, HeadWaits
  <2> QED
    BY <2>1, <2>2, <2>3, <2>4
<1> QED
  BY <1>2, <1>3, <1>4, <1>5

(* Nothing is reserved at first.                                            *)
LEMMA RateInitInv == RateInit => RateInv
<1> SUFFICES ASSUME RateInit PROVE RateInv
  OBVIOUS
<1>1. Reserved = {} /\ \A p \in Processes : Outstanding(p) = {} /\ tx[p] = None
  BY DEF RateInit, Reserved, Outstanding
<1>2. RateTypeOK
  <2>1. /\ at \in [Attempts -> Places] /\ rps \in [Attempts -> Intervals \cup {0}]
        /\ asked \in [Attempts -> Nat] /\ latest \in [Attempts -> Nat]
        /\ granted \in [Attempts -> Nat \cup {None}]
    BY DEF RateInit, Places
  <2>2. store \in [Keys -> [slot : Nat, expire : Nat]] /\ tx \in [Processes -> Nat \cup {None}]
    BY DEF RateInit, Empty
  <2>3. calls \in [Processes -> Seq(Attempts)] /\ \A p \in Processes : Len(calls[p]) = 0
    BY DEF RateInit
  <2>4. clock \in Nat /\ failures \in Nat /\ \A a \in Attempts : granted[a] = None
    BY DEF RateInit
  <2> QED
    BY <1>1, <2>1, <2>2, <2>3, <2>4 DEF RateTypeOK
<1>3. CallsRecent /\ TransactionApart /\ StoreCovers /\ SlotsApart
  BY <1>1 DEF CallsRecent, TransactionApart, StoreCovers, SlotsApart
<1>4. BacklogBounded
  <2>1. \A key \in Keys : store[key].slot = 0
    BY DEF RateInit, Empty
  <2> QED
    BY <2>1, RateAssumption DEF BacklogBounded, RateInit
<1> QED
  BY <1>2, <1>3, <1>4 DEF RateInv

(* acquire hands its call to the storage thread.                            *)
LEMMA AskKeeps ==
  ASSUME RateInv, NEW a \in Attempts, NEW interval \in Intervals, NEW remaining \in Remainings,
         Ask(a, interval, remaining)
  PROVE  RateInv'
<1>1. RateTypeOK /\ Home[a] \in Processes /\ Timeout \in Nat /\ Delay \in Nat
  BY RateAssumption DEF RateInv
<1>2. remaining \in Nat /\ remaining <= Timeout
  BY RateAssumption
<1>3. /\ at[a] = "new" /\ at' = [at EXCEPT ![a] = "asking"] /\ rps' = [rps EXCEPT ![a] = interval]
      /\ asked' = [asked EXCEPT ![a] = clock] /\ latest' = [latest EXCEPT ![a] = clock + remaining]
      /\ calls' = [calls EXCEPT ![Home[a]] = Append(@, a)]
      /\ UNCHANGED <<clock, granted, store, tx, failures>>
  BY DEF Ask
<1>4. /\ calls' \in [Processes -> Seq(Attempts)]
      /\ \A q \in Processes : a \notin Outstanding(q) /\ Outstanding(q)' \subseteq Outstanding(q) \cup {a}
      /\ \A q \in Processes : a \in Outstanding(q)' => Home[a] = q
      /\ \A q \in Processes : NoRepeat(calls'[q])
      /\ \A q \in Processes : calls[q] # <<>> =>
             calls'[q] # <<>> /\ Head(calls'[q]) = Head(calls[q]) /\ Head(calls[q]) # a
  BY <1>1, <1>3, OneCallMore
<1>5. /\ at' \in [Attempts -> Places] /\ rps' \in [Attempts -> Intervals \cup {0}]
      /\ asked' \in [Attempts -> Nat] /\ latest' \in [Attempts -> Nat] /\ clock \in Nat
      /\ at'[a] = "asking" /\ asked'[a] = clock /\ latest'[a] = clock + remaining
      /\ \A x \in Attempts : x # a =>
            at'[x] = at[x] /\ rps'[x] = rps[x] /\ asked'[x] = asked[x] /\ latest'[x] = latest[x]
  BY <1>1, <1>2, <1>3 DEF RateTypeOK, Places
<1>6. granted[a] = None
  BY <1>1, <1>3 DEF RateTypeOK
<1>7. ASSUME NEW q \in Processes, NEW x \in Outstanding(q)', x # a
      PROVE  x \in Outstanding(q) /\ x \in Attempts
  <2>1. x \in Outstanding(q) /\ calls[q] \in Seq(Attempts)
    BY <1>1, <1>4, <1>7 DEF RateTypeOK
  <2> QED
    BY <2>1 DEF Outstanding
<1>8. ASSUME NEW q \in Processes, tx[q] # None
      PROVE  /\ calls[q] # <<>> /\ calls'[q] # <<>> /\ Head(calls'[q]) = Head(calls[q])
             /\ Head(calls[q]) \in Attempts /\ Head(calls[q]) # a
  <2>1. calls[q] # <<>>
    BY <1>1, <1>8 DEF RateTypeOK
  <2> QED
    BY <1>1, <1>4, <2>1, HeadWaits
<1>9. RateTypeOK'
  <2>1. \A q \in Processes : \A x \in Outstanding(q)' :
            Home[x] = q /\ at'[x] \in {"asking", "left", "orphan"} /\ granted'[x] = None
    <3>1. ASSUME NEW q \in Processes, NEW x \in Outstanding(q)'
          PROVE  Home[x] = q /\ at'[x] \in {"asking", "left", "orphan"} /\ granted'[x] = None
      <4>1. CASE x = a
        BY <1>3, <1>4, <1>5, <1>6, <4>1
      <4>2. CASE x # a
        BY <1>1, <1>3, <1>5, <1>7, <4>2 DEF RateTypeOK
      <4> QED
        BY <4>1, <4>2
    <3> QED
      BY <3>1
  <2>2. \A q \in Processes : tx'[q] # None =>
            calls'[q] # <<>> /\ \A o \in Processes \ {q} : tx'[o] = None
    BY <1>1, <1>3, <1>8 DEF RateTypeOK
  <2>3. /\ (clock \in Nat)' /\ (failures \in Nat)' /\ (granted \in [Attempts -> Nat \cup {None}])'
        /\ (store \in [Keys -> [slot : Nat, expire : Nat]])'
        /\ (tx \in [Processes -> Nat \cup {None}])'
    BY <1>1, <1>3 DEF RateTypeOK
  <2>4. \A x \in Attempts : at'[x] = "new" => granted'[x] = None
    BY <1>1, <1>3, <1>5 DEF RateTypeOK
  <2> QED
    BY <1>4, <1>5, <2>1, <2>2, <2>3, <2>4 DEF RateTypeOK, NoRepeat
<1>10. CallsRecent'
  <2>1. ASSUME NEW q \in Processes, NEW x \in Outstanding(q)'
        PROVE  /\ asked'[x] <= clock /\ clock <= asked'[x] + Delay
               /\ latest'[x] <= asked'[x] + Timeout
    <3>1. CASE x = a
      BY <1>1, <1>2, <1>5, <3>1
    <3>2. CASE x # a
      BY <1>5, <1>7, <3>2 DEF RateInv, CallsRecent
    <3> QED
      BY <3>1, <3>2
  <2>2. ASSUME NEW q \in Processes, tx[q] # None
        PROVE  /\ at'[Head(calls'[q])] # "left"
               /\ asked'[Head(calls'[q])] <= tx[q] /\ tx[q] <= latest'[Head(calls'[q])]
    <3>1. /\ at[Head(calls[q])] # "left"
          /\ asked[Head(calls[q])] <= tx[q] /\ tx[q] <= latest[Head(calls[q])]
      BY <2>2 DEF RateInv, CallsRecent
    <3>2. /\ Head(calls'[q]) = Head(calls[q]) /\ Head(calls[q]) \in Attempts /\ Head(calls[q]) # a
      BY <1>8, <2>2
    <3>3. /\ at'[Head(calls[q])] = at[Head(calls[q])] /\ asked'[Head(calls[q])] = asked[Head(calls[q])]
          /\ latest'[Head(calls[q])] = latest[Head(calls[q])]
      BY <1>5, <3>2
    <3> QED
      BY <3>1, <3>2, <3>3, Zenon
  <2> QED
    BY <1>3, <2>1, <2>2 DEF CallsRecent
<1>11. \A b \in Reserved : rps'[b] = rps[b]
  BY <1>5, <1>6 DEF Reserved
<1>12. StoreCovers' /\ SlotsApart' /\ BacklogBounded'
  <2>1. clock' >= clock
    BY <1>3, <1>5
  <2> QED
    BY <1>3, <1>9, <1>11, <2>1, NothingReserved
<1>13. TransactionApart'
  <2>1. \A q \in Processes : tx'[q] # None =>
            /\ tx'[q] = tx[q] /\ Head(calls'[q]) = Head(calls[q])
            /\ rps'[Head(calls[q])] = rps[Head(calls[q])]
    BY <1>3, <1>5, <1>8
  <2> QED
    BY <1>3, <1>11, <2>1, TransactionsStay
<1> QED
  BY <1>9, <1>10, <1>12, <1>13 DEF RateInv

(* A call is done, and nothing was reserved: refused, failed or dropped.    *)
LEMMA CallDoneInVain ==
  ASSUME RateInv, NEW p \in Processes, calls[p] # <<>>,
         calls' = [calls EXCEPT ![p] = Tail(@)],
         at' \in [Attempts -> Places], at'[Head(calls[p])] # "new",
         \A x \in Attempts : x # Head(calls[p]) => at'[x] = at[x],
         tx' \in [Processes -> Nat \cup {None}], tx'[p] = None,
         \A q \in Processes \ {p} : tx'[q] = tx[q],
         failures' \in Nat, UNCHANGED <<clock, rps, asked, latest, granted, store>>
  PROVE  RateInv'
<1>1. RateTypeOK' /\ CallsRecent'
  <2>1. /\ granted' \in [Attempts -> Nat \cup {None}]
        /\ store' \in [Keys -> [slot : Nat, expire : Nat]]
    BY DEF RateInv, RateTypeOK
  <2>2. \A x \in Attempts : x # Head(calls[p]) => at'[x] = at[x] /\ granted'[x] = granted[x]
    OBVIOUS
  <2> QED
    BY <2>1, <2>2, CallDone
<1>2. StoreCovers' /\ SlotsApart' /\ BacklogBounded'
  <2>1. clock' >= clock
    BY DEF RateInv, RateTypeOK
  <2> QED
    BY <1>1, <2>1, NothingReserved
<1>3. TransactionApart'
  <2>1. \A q \in Processes \ {p} : calls'[q] = calls[q]
    BY OneCallLess DEF RateInv
  <2>2. \A q \in Processes : tx'[q] # None =>
            /\ tx'[q] = tx[q] /\ Head(calls'[q]) = Head(calls[q])
            /\ rps'[Head(calls[q])] = rps[Head(calls[q])]
    BY <2>1
  <2> QED
    BY <2>2, TransactionsStay
<1> QED
  BY <1>1, <1>2, <1>3 DEF RateInv

(* What Return does to the places of the attempts.                          *)
LEMMA Returns ==
  ASSUME RateTypeOK, NEW p \in Processes, calls[p] # <<>>,
         NEW outcome \in {"refused", "sleeping", "failed"}, Return(p, outcome)
  PROVE  /\ calls' = [calls EXCEPT ![p] = Tail(@)]
         /\ at' \in [Attempts -> Places] /\ at'[Head(calls[p])] # "new"
         /\ \A x \in Attempts : x # Head(calls[p]) => at'[x] = at[x]
<1>1. PICK a \in Attempts : a = Head(calls[p])
  BY HeadWaits
<1>2. /\ at' = [at EXCEPT ![a] = IF @ = "asking" THEN outcome ELSE "left"]
      /\ calls' = [calls EXCEPT ![p] = Tail(@)]
  BY <1>1 DEF Return
<1>3. at \in [Attempts -> Places]
  BY DEF RateTypeOK
<1>4. /\ at' \in [Attempts -> Places] /\ at'[a] # "new"
      /\ \A x \in Attempts : x # a => at'[x] = at[x]
  BY <1>2, <1>3 DEF Places
<1> QED
  BY <1>1, <1>2, <1>4

(* reserve finds no slot before the deadline.                               *)
LEMMA DeclineKeeps == ASSUME RateInv, NEW p \in Processes, Decline(p) PROVE RateInv'
<1>1. RateTypeOK
  BY DEF RateInv
<1>2. /\ calls[p] # <<>> /\ tx[p] = None /\ Return(p, "refused")
      /\ UNCHANGED <<clock, rps, asked, latest, granted, store, tx, failures>>
  BY DEF Decline, Turn
<1>3. /\ calls' = [calls EXCEPT ![p] = Tail(@)]
      /\ at' \in [Attempts -> Places] /\ at'[Head(calls[p])] # "new"
      /\ \A x \in Attempts : x # Head(calls[p]) => at'[x] = at[x]
  BY <1>1, <1>2, Returns
<1>4. /\ tx' \in [Processes -> Nat \cup {None}] /\ tx'[p] = None /\ failures' \in Nat
      /\ \A q \in Processes \ {p} : tx'[q] = tx[q]
  BY <1>1, <1>2 DEF RateTypeOK
<1> QED
  BY <1>2, <1>3, <1>4, CallDoneInVain

(* The reservation fails and is rolled back.                                *)
LEMMA FailKeeps == ASSUME RateInv, NEW p \in Processes, Fail(p) PROVE RateInv'
<1>1. RateTypeOK
  BY DEF RateInv
<1>2. /\ calls[p] # <<>> /\ tx' = [tx EXCEPT ![p] = None] /\ Return(p, "failed")
      /\ failures' = failures + 1 /\ UNCHANGED <<clock, rps, asked, latest, granted, store>>
  BY DEF Fail
<1>3. /\ calls' = [calls EXCEPT ![p] = Tail(@)]
      /\ at' \in [Attempts -> Places] /\ at'[Head(calls[p])] # "new"
      /\ \A x \in Attempts : x # Head(calls[p]) => at'[x] = at[x]
  BY <1>1, <1>2, Returns
<1>4. /\ tx' \in [Processes -> Nat \cup {None}] /\ tx'[p] = None /\ failures' \in Nat
      /\ \A q \in Processes \ {p} : tx'[q] = tx[q]
  BY <1>1, <1>2 DEF RateTypeOK
<1> QED
  BY <1>2, <1>3, <1>4, CallDoneInVain

(* The call of an attempt that left is dropped.                             *)
LEMMA SkipKeeps == ASSUME RateInv, NEW p \in Processes, Skip(p) PROVE RateInv'
<1>1. RateTypeOK
  BY DEF RateInv
<1>2. /\ calls[p] # <<>> /\ at[Head(calls[p])] = "left" /\ calls' = [calls EXCEPT ![p] = Tail(@)]
      /\ UNCHANGED <<clock, at, rps, asked, latest, granted, store, tx, failures>>
  BY DEF Skip, attemptVars
<1>3. tx[p] = None
  BY <1>2 DEF RateInv, CallsRecent
<1>4. /\ at' \in [Attempts -> Places] /\ at'[Head(calls[p])] # "new"
      /\ \A x \in Attempts : x # Head(calls[p]) => at'[x] = at[x]
  BY <1>1, <1>2 DEF RateTypeOK
<1>5. /\ tx' \in [Processes -> Nat \cup {None}] /\ tx'[p] = None /\ failures' \in Nat
      /\ \A q \in Processes \ {p} : tx'[q] = tx[q]
  BY <1>1, <1>2, <1>3 DEF RateTypeOK
<1> QED
  BY <1>2, <1>4, <1>5, CallDoneInVain

(* A step that moves only attempts: those that wait still wait, and none of *)
(* them leaves whose call the thread has begun.                             *)
LEMMA MoveKeeps ==
  ASSUME RateInv, at' \in [Attempts -> Places],
         \A x \in Attempts : at'[x] = "new" => at[x] = "new",
         \A x \in Attempts : at[x] \in {"asking", "left", "orphan"} =>
             at'[x] \in {"asking", "left", "orphan"},
         \A p \in Processes : tx[p] # None => at'[Head(calls[p])] # "left",
         UNCHANGED <<clock, rps, asked, latest, granted, store, calls, tx, failures>>
  PROVE  RateInv'
<1>1. RateTypeOK'
  <2>1. ASSUME NEW q \in Processes, NEW x \in Outstanding(q)
        PROVE  Home[x] = q /\ at'[x] \in {"asking", "left", "orphan"} /\ granted[x] = None
    <3>1. calls[q] \in Seq(Attempts)
      BY DEF RateInv, RateTypeOK
    <3>2. x \in Attempts
      BY <3>1 DEF Outstanding
    <3> QED
      BY <3>2 DEF RateInv, RateTypeOK
  <2>2. \A q \in Processes : Outstanding(q)' = Outstanding(q)
    BY DEF Outstanding
  <2> QED
    BY <2>1, <2>2 DEF RateInv, RateTypeOK
<1>2. CallsRecent'
  <2>1. \A q \in Processes : Outstanding(q)' = Outstanding(q)
    BY DEF Outstanding
  <2>2. \A q \in Processes : \A x \in Outstanding(q) :
            asked[x] <= clock /\ clock <= asked[x] + Delay /\ latest[x] <= asked[x] + Timeout
    BY DEF RateInv, CallsRecent
  <2>3. \A q \in Processes : tx[q] # None =>
            /\ at'[Head(calls[q])] # "left"
            /\ asked[Head(calls[q])] <= tx[q] /\ tx[q] <= latest[Head(calls[q])]
    BY DEF RateInv, CallsRecent
  <2> QED
    BY <2>1, <2>2, <2>3 DEF CallsRecent
<1>3. StoreCovers' /\ SlotsApart' /\ BacklogBounded'
  <2>1. clock' >= clock
    BY DEF RateInv, RateTypeOK
  <2> QED
    BY <1>1, <2>1, NothingReserved
<1>4. TransactionApart'
  BY TransactionsStay
<1> QED
  BY <1>1, <1>2, <1>3, <1>4 DEF RateInv

(* The sleep is over.                                                       *)
LEMMA StartKeeps == ASSUME RateInv, NEW a \in Attempts, Start(a) PROVE RateInv'
<1>1. RateTypeOK
  BY DEF RateInv
<1>2. /\ at[a] = "sleeping" /\ at' = [at EXCEPT ![a] = "started"]
      /\ UNCHANGED <<clock, rps, asked, latest, granted, store, calls, tx, failures>>
  BY DEF Start
<1>3. /\ at' \in [Attempts -> Places] /\ at'[a] = "started"
      /\ \A x \in Attempts : x # a => at'[x] = at[x]
  BY <1>1, <1>2 DEF RateTypeOK, Places
<1>4. ASSUME NEW p \in Processes, tx[p] # None PROVE at'[Head(calls[p])] # "left"
  <2>1. calls[p] # <<>> /\ at[Head(calls[p])] # "left"
    BY <1>1, <1>4 DEF RateInv, RateTypeOK, CallsRecent
  <2>2. Head(calls[p]) \in Attempts
    BY <1>1, <2>1, HeadWaits
  <2> QED
    BY <1>3, <2>1, <2>2
<1> QED
  BY <1>2, <1>3, <1>4, MoveKeeps

(* The deadline or a cancellation ends the wait.                            *)
LEMMA DepartKeeps == ASSUME RateInv, NEW a \in Attempts, Depart(a) PROVE RateInv'
<1>1. RateTypeOK
  BY DEF RateInv
<1>2. UNCHANGED <<clock, rps, asked, latest, granted, store, calls, tx, failures>>
  BY DEF Depart
<1>3. PICK place \in {"left", "orphan"} :
        /\ at' = [at EXCEPT ![a] = place] /\ at[a] \in {"asking", "sleeping"}
        /\ place = "left" => (at[a] = "asking" /\ Head(calls[Home[a]]) = a => tx[Home[a]] = None)
  BY DEF Depart
<1>4. /\ at' \in [Attempts -> Places] /\ at'[a] = place
      /\ \A x \in Attempts : x # a => at'[x] = at[x]
  BY <1>1, <1>3 DEF RateTypeOK, Places
<1>5. ASSUME NEW p \in Processes, tx[p] # None PROVE at'[Head(calls[p])] # "left"
  <2>1. calls[p] # <<>> /\ at[Head(calls[p])] # "left"
    BY <1>1, <1>5 DEF RateInv, RateTypeOK, CallsRecent
  <2>2. /\ Head(calls[p]) \in Attempts /\ Home[Head(calls[p])] = p
        /\ at[Head(calls[p])] \in {"asking", "left", "orphan"}
    BY <1>1, <2>1, HeadWaits
  <2>3. CASE Head(calls[p]) = a
    BY <1>3, <1>4, <1>5, <2>2, <2>3
  <2>4. CASE Head(calls[p]) # a
    BY <1>4, <2>1, <2>2, <2>4
  <2> QED
    BY <2>3, <2>4
<1> QED
  BY <1>2, <1>3, <1>4, <1>5, MoveKeeps

(* A tick finds no call that has waited for Delay.                          *)
LEMMA TickKeeps == ASSUME RateInv, ClockTicks PROVE RateInv'
<1>1. /\ RateTypeOK /\ clock \in Nat /\ clock' = clock + 1
      /\ UNCHANGED <<at, rps, asked, latest, granted, store, calls, tx, failures>>
      /\ \A q \in Processes : Outstanding(q)' = Outstanding(q)
  BY DEF RateInv, RateTypeOK, ClockTicks, attemptVars, Outstanding
<1>2. RateTypeOK'
  BY <1>1 DEF RateTypeOK
<1>3. CallsRecent'
  <2>1. ASSUME NEW q \in Processes, NEW x \in Outstanding(q)
        PROVE  asked[x] <= clock + 1 /\ clock + 1 <= asked[x] + Delay
    <3>1. clock - asked[x] < Delay
      BY DEF ClockTicks, Outstanding
    <3>2. calls[q] \in Seq(Attempts) /\ asked[x] <= clock
      BY <1>1 DEF RateInv, RateTypeOK, CallsRecent
    <3>3. x \in Attempts
      BY <3>2 DEF Outstanding
    <3>4. asked[x] \in Nat /\ Delay \in Nat
      BY <1>1, <3>3, RateAssumption DEF RateTypeOK
    <3> QED
      BY <1>1, <3>1, <3>2, <3>4
  <2> QED
    BY <1>1, <2>1 DEF RateInv, CallsRecent
<1>4. StoreCovers' /\ SlotsApart' /\ BacklogBounded'
  <2>1. clock' >= clock
    BY <1>1
  <2> QED
    BY <1>1, <1>2, <2>1, NothingReserved
<1>5. TransactionApart'
  BY <1>1, TransactionsStay
<1> QED
  BY <1>2, <1>3, <1>4, <1>5 DEF RateInv

(* reserve computes a slot: SlotAfter is what keeps it apart.               *)
LEMMA BeginKeeps == ASSUME RateInv, NEW p \in Processes, Begin(p) PROVE RateInv'
<1>1. RateTypeOK /\ StoreCovers
  BY DEF RateInv
<1>2. /\ calls[p] # <<>> /\ \A q \in Processes : tx[q] = None
      /\ at[Head(calls[p])] # "left" /\ Fits(Head(calls[p]))
      /\ tx' = [tx EXCEPT ![p] = Slot(Head(calls[p]))]
      /\ UNCHANGED <<clock, at, rps, asked, latest, granted, store, calls, failures>>
  BY DEF Begin, Turn, StoreFree, attemptVars
<1>3. PICK a \in Attempts : a = Head(calls[p]) /\ a \in Outstanding(p)
  BY <1>1, <1>2, HeadWaits
<1>4. Slot(a) \in Nat /\ asked[a] <= Slot(a) /\ Slot(a) <= latest[a]
  BY <1>1, <1>2, <1>3, SlotBounds DEF Fits
<1>5. clock <= asked[a] + Delay
  BY <1>3 DEF RateInv, CallsRecent
<1>6. PICK slot \in Nat : slot = Slot(a)
  BY <1>4
<1>7. /\ tx' \in [Processes -> Nat \cup {None}] /\ tx'[p] = slot
      /\ \A q \in Processes \ {p} : tx'[q] = None
  BY <1>1, <1>2, <1>3, <1>6 DEF RateTypeOK
<1>8. \A q \in Processes : Outstanding(q)' = Outstanding(q)
  BY <1>2 DEF Outstanding
<1>9. RateTypeOK'
  <2>1. \A q \in Processes : tx'[q] # None =>
            calls[q] # <<>> /\ \A o \in Processes \ {q} : tx'[o] = None
    BY <1>2, <1>7
  <2> QED
    BY <1>1, <1>2, <1>7, <1>8, <2>1, SMTT(30) DEF RateTypeOK
<1>10. CallsRecent'
  <2>1. ASSUME NEW q \in Processes, tx'[q] # None
        PROVE  /\ at[Head(calls[q])] # "left"
               /\ asked[Head(calls[q])] <= tx'[q] /\ tx'[q] <= latest[Head(calls[q])]
    BY <1>2, <1>3, <1>4, <1>6, <1>7, <2>1
  <2> QED
    BY <1>2, <1>8, <2>1 DEF RateInv, CallsRecent
<1>11. StoreCovers' /\ SlotsApart' /\ BacklogBounded'
  <2>1. clock' >= clock
    BY <1>1, <1>2 DEF RateTypeOK
  <2> QED
    BY <1>2, <1>9, <2>1, NothingReserved
<1>12. TransactionApart'
  <2>1. ASSUME NEW b \in Reserved, NEW key \in Active(a) \cap Active(b)
        PROVE  granted[b] <= slot /\ granted[b] + Covered(IntervalOf(key, a)) <= slot
    BY <1>1, <1>5, <1>6, <2>1, SlotAfter
  <2>2. ASSUME NEW q \in Processes, tx'[q] # None,
               NEW b \in Reserved, NEW key \in Active(Head(calls[q])) \cap Active(b)
        PROVE  /\ granted[b] <= tx'[q]
               /\ granted[b] + Covered(IntervalOf(key, Head(calls[q]))) <= tx'[q]
    BY <1>3, <1>7, <2>1, <2>2
  <2> QED
    BY <1>2, <2>2, ZenonT(40) DEF TransactionApart, Reserved, Active, IntervalOf, Covered
<1> QED
  BY <1>9, <1>10, <1>11, <1>12 DEF RateInv

(* The transaction is committed: the entries of the attempt's keys now      *)
(* cover its slot, and those before it.                                     *)
LEMMA CommitKeeps == ASSUME RateInv, NEW p \in Processes, Commit(p) PROVE RateInv'
<1>1. RateTypeOK
  BY DEF RateInv
<1>2. tx[p] # None /\ calls[p] # <<>> /\ \A q \in Processes \ {p} : tx[q] = None
  BY <1>1 DEF Commit, RateTypeOK
<1>3. PICK a \in Attempts : a = Head(calls[p]) /\ granted[a] = None /\ a \in Outstanding(p)
  BY <1>1, <1>2, HeadWaits
<1>4. PICK slot \in Nat : slot = tx[p]
  BY <1>1, <1>2 DEF RateTypeOK
<1>5. /\ store' = [key \in Keys |->
                    IF key \in Active(a)
                    THEN [slot |-> slot, expire |-> clock + Keep(a, slot, IntervalOf(key, a))]
                    ELSE store[key]]
      /\ granted' = [granted EXCEPT ![a] = slot]
      /\ tx' = [tx EXCEPT ![p] = None]
      /\ Return(p, "sleeping")
      /\ UNCHANGED <<clock, rps, asked, latest, failures>>
  BY <1>3, <1>4 DEF Commit
<1>6. /\ clock \in Nat /\ asked[a] \in Nat /\ latest[a] \in Nat
      /\ asked[a] <= clock /\ latest[a] <= asked[a] + Timeout
      /\ asked[a] <= slot /\ slot <= latest[a]
      /\ Timeout \in Nat /\ Horizon \in Nat /\ Margin \in Nat
  <2>1. asked[a] <= clock /\ latest[a] <= asked[a] + Timeout
    BY <1>3 DEF RateInv, CallsRecent
  <2>2. asked[a] <= slot /\ slot <= latest[a]
    BY <1>2, <1>3, <1>4 DEF RateInv, CallsRecent
  <2> QED
    BY <1>1, <2>1, <2>2, RateAssumption DEF RateTypeOK
<1>7. ASSUME NEW key
      PROVE  /\ Keep(a, slot, IntervalOf(key, a)) \in Nat /\ Horizon <= Keep(a, slot, IntervalOf(key, a))
             /\ slot + Margin <= clock + Keep(a, slot, IntervalOf(key, a))
  <2>1. PICK i \in Nat : i = IntervalOf(key, a)
    BY <1>1, IntervalCovers
  <2>2. /\ Keep(a, slot, i) \in Nat /\ Horizon <= Keep(a, slot, i)
        /\ slot + Margin <= clock + Keep(a, slot, i)
    BY <1>6 DEF Keep, Later
  <2> QED
    BY <2>1, <2>2
<1>8. \A key \in Keys :
        IF key \in Active(a)
        THEN /\ store'[key].slot = slot
             /\ store'[key].expire = clock + Keep(a, slot, IntervalOf(key, a))
        ELSE store'[key] = store[key]
  BY <1>5
<1>9. store' \in [Keys -> [slot : Nat, expire : Nat]]
  <2>1. ASSUME NEW key \in Keys PROVE store'[key] \in [slot : Nat, expire : Nat]
    <3>1. CASE key \in Active(a)
      <4>1. clock + Keep(a, slot, IntervalOf(key, a)) \in Nat
        BY <1>6, <1>7
      <4>2. store'[key] = [slot |-> slot, expire |-> clock + Keep(a, slot, IntervalOf(key, a))]
        BY <1>5, <3>1
      <4> QED
        BY <4>1, <4>2
    <3>2. CASE key \notin Active(a)
      BY <1>1, <1>8, <3>2 DEF RateTypeOK
    <3> QED
      BY <3>1, <3>2
  <2> QED
    BY <1>5, <2>1
<1>10. /\ granted' \in [Attempts -> Nat \cup {None}] /\ granted'[a] = slot /\ granted'[a] # None
       /\ \A x \in Attempts : x # a => granted'[x] = granted[x]
  <2>1. None \notin Nat
    BY RateAssumption
  <2> QED
    BY <1>1, <1>5, <2>1 DEF RateTypeOK
<1>11. RateTypeOK' /\ CallsRecent'
  <2>1. /\ calls' = [calls EXCEPT ![p] = Tail(@)]
        /\ at' \in [Attempts -> Places] /\ at'[a] # "new"
        /\ \A x \in Attempts : x # a => at'[x] = at[x]
    BY <1>1, <1>2, <1>3, <1>5, Returns
  <2>2. /\ tx' \in [Processes -> Nat \cup {None}] /\ tx'[p] = None /\ failures' \in Nat
        /\ \A q \in Processes \ {p} : tx'[q] = tx[q]
    BY <1>1, <1>5 DEF RateTypeOK
  <2>3. \A x \in Attempts : x # a => at'[x] = at[x] /\ granted'[x] = granted[x]
    BY <1>10, <2>1
  <2> QED
    BY <1>2, <1>3, <1>5, <1>9, <1>10, <2>1, <2>2, <2>3, CallDone
<1>12. Reserved' = Reserved \cup {a} /\ a \notin Reserved /\ Reserved \subseteq Attempts
  BY <1>3, <1>10 DEF Reserved
<1>13. \A x \in Attempts : Active(x)' = Active(x) /\ \A key : IntervalOf(key, x)' = IntervalOf(key, x)
  BY <1>5, SameLimits
<1>14. ASSUME NEW b \in Reserved
       PROVE  /\ granted'[b] = granted[b] /\ granted[b] \in Nat /\ b # a /\ b \in Attempts
              /\ \A key \in Active(a) \cap Active(b) :
                    granted[b] <= slot /\ granted[b] + Covered(IntervalOf(key, a)) <= slot
  <2>1. granted'[b] = granted[b] /\ granted[b] \in Nat /\ b # a /\ b \in Attempts
    BY <1>1, <1>10, <1>12 DEF RateTypeOK, Reserved
  <2>2. \A key \in Active(a) \cap Active(b) :
            granted[b] <= slot /\ granted[b] + Covered(IntervalOf(key, a)) <= slot
    BY <1>2, <1>3, <1>4 DEF RateInv, TransactionApart
  <2> QED
    BY <2>1, <2>2
<1>15. \A x \in Attempts : Active(x) \subseteq Keys
  BY RateAssumption DEF Active, Keys
<1>16. StoreCovers'
  <2>1. ASSUME NEW b \in Reserved', NEW key \in Active(b)
        PROVE  /\ granted'[b] <= store'[key].slot
               /\ store'[key].slot + Margin <= store'[key].expire
               /\ granted'[b] + Horizon <= store'[key].expire + Timeout
    <3>1. b \in Attempts /\ key \in Keys
      BY <1>12, <1>15
    <3>2. CASE key \in Active(a)
      <4>1. granted'[b] \in Nat /\ granted'[b] <= slot
        BY <1>6, <1>10, <1>12, <1>14, <3>2
      <4>2. PICK keep \in Nat : keep = Keep(a, slot, IntervalOf(key, a)) /\ Horizon <= keep
                                /\ slot + Margin <= clock + keep
        BY <1>7
      <4>3. store'[key].slot = slot /\ store'[key].expire = clock + keep
        BY <1>8, <3>1, <3>2, <4>2
      <4>4. granted'[b] + Horizon <= (clock + keep) + Timeout
        BY <1>6, <4>1, <4>2
      <4> QED
        BY <4>1, <4>2, <4>3, <4>4
    <3>3. CASE key \notin Active(a)
      <4>1. b \in Reserved /\ granted'[b] = granted[b] /\ store'[key] = store[key]
        BY <1>8, <1>12, <1>14, <3>1, <3>3
      <4> QED
        BY <4>1 DEF RateInv, StoreCovers
    <3> QED
      BY <3>2, <3>3
  <2> QED
    BY <1>12, <1>13, <2>1 DEF StoreCovers
<1>17. SlotsApart'
  <2>1. ASSUME NEW x \in Reserved', NEW b \in Reserved', NEW key \in Active(x) \cap Active(b), x # b
        PROVE  \/ granted'[x] >= granted'[b] + Covered(IntervalOf(key, x))
               \/ granted'[b] >= granted'[x] + Covered(IntervalOf(key, b))
    <3>1. CASE x = a
      BY <1>6, <1>10, <1>12, <1>14, <2>1, <3>1
    <3>2. CASE b = a
      BY <1>6, <1>10, <1>12, <1>14, <2>1, <3>2
    <3>3. CASE x # a /\ b # a
      <4>1. x \in Reserved /\ b \in Reserved /\ granted'[x] = granted[x] /\ granted'[b] = granted[b]
        BY <1>12, <1>14, <3>3
      <4> QED
        BY <2>1, <4>1 DEF RateInv, SlotsApart
    <3> QED
      BY <3>1, <3>2, <3>3
  <2> QED
    BY <1>12, <1>13, <2>1 DEF SlotsApart, Covered
<1>18. BacklogBounded'
  <2>1. slot <= clock + Timeout
    BY <1>6
  <2> QED
    BY <1>5, <1>8, <2>1 DEF RateInv, BacklogBounded
<1>19. TransactionApart'
  <2>1. \A q \in Processes : tx'[q] = None
    BY <1>1, <1>2, <1>5 DEF RateTypeOK
  <2> QED
    BY <2>1 DEF TransactionApart
<1> QED
  BY <1>11, <1>16, <1>17, <1>18, <1>19 DEF RateInv

(* Every step keeps the invariant.                                          *)
LEMMA RateStepInv == RateInv /\ [RateNext]_rateVars => RateInv'
<1> SUFFICES ASSUME RateInv, [RateNext]_rateVars PROVE RateInv'
  OBVIOUS
<1>1. ASSUME NEW a \in Attempts, NEW interval \in Intervals, NEW remaining \in Remainings,
             Ask(a, interval, remaining)
      PROVE  RateInv'
  BY <1>1, AskKeeps
<1>2. ASSUME NEW a \in Attempts, Start(a) \/ Depart(a) PROVE RateInv'
  BY <1>2, StartKeeps, DepartKeeps
<1>3. ASSUME NEW p \in Processes, Begin(p) \/ Decline(p) \/ Commit(p) \/ Fail(p) \/ Skip(p)
      PROVE  RateInv'
  BY <1>3, BeginKeeps, DeclineKeeps, CommitKeeps, FailKeeps, SkipKeeps
<1>4. CASE ClockTicks
  BY <1>4, TickKeeps
<1>5. CASE UNCHANGED rateVars
  <2>1. UNCHANGED <<clock, at, rps, asked, latest, granted, store, calls, tx, failures>>
    BY <1>5 DEF rateVars
  <2>2. \A p \in Processes : tx[p] # None => at'[Head(calls[p])] # "left"
    BY <2>1 DEF RateInv, CallsRecent
  <2>3. /\ at' \in [Attempts -> Places]
        /\ \A x \in Attempts : at'[x] = "new" => at[x] = "new"
        /\ \A x \in Attempts : at[x] \in {"asking", "left", "orphan"} =>
               at'[x] \in {"asking", "left", "orphan"}
    BY <2>1 DEF RateInv, RateTypeOK
  <2> QED
    BY <2>1, <2>2, <2>3, MoveKeeps
<1> QED
  BY <1>1, <1>2, <1>3, <1>4, <1>5 DEF RateNext

(* What is known of slots, entries and open transactions at all times.      *)
THEOREM RateInvariant == RateSpec => []RateInv
  BY RateInitInv, RateStepInv, PTL DEF RateSpec

(* acquire and reserve, in any number of processes: slots reserved under    *)
(* the same limit are apart by the interval of the later one.               *)
THEOREM SlotsStayApart == RateSpec => []SlotsApart
<1>1. RateInv => SlotsApart
  BY DEF RateInv
<1> QED
  BY <1>1, RateInvariant, PTL

(* No host is reserved further ahead than the longest deadline.             *)
THEOREM BacklogIsBounded == RateSpec => []BacklogBounded
<1>1. RateInv => BacklogBounded
  BY DEF RateInv
<1> QED
  BY <1>1, RateInvariant, PTL
-----------------------------------------------------------------------------
(* Why a refusal has a cause: an entry is that of a reserved slot, whether  *)
(* or not its attempt is still there.                                       *)
EntryReserved(key) ==
    store[key] # Empty => \E b \in Reserved : key \in Active(b) /\ granted[b] = store[key].slot
CauseInv ==
    /\ \A key \in Keys : EntryReserved(key)
    /\ \A a \in Attempts : at[a] # "new" => asked[a] <= latest[a]
    /\ RefusedForCause

(* A slot once reserved stays so, and the request of an attempt that was    *)
(* made does not change.                                                    *)
Recorded(a) ==
    /\ granted[a] # None => granted'[a] = granted[a]
    /\ at[a] # "new" => at'[a] # "new" /\ UNCHANGED <<rps[a], asked[a], latest[a]>>

(* Slots and attempts stay as they were recorded, so causes stay.           *)
LEMMA RecordsStay ==
  ASSUME RateTypeOK, \A a \in Attempts : Recorded(a)
  PROVE  \A b \in Reserved : /\ b \in Reserved' /\ granted'[b] = granted[b]
                             /\ Active(b)' = Active(b)
<1> SUFFICES ASSUME NEW b \in Reserved
             PROVE  b \in Reserved' /\ granted'[b] = granted[b] /\ Active(b)' = Active(b)
  OBVIOUS
<1>1. b \in Attempts /\ granted[b] # None
  BY DEF Reserved
<1>2. at[b] # "new"
  BY <1>1 DEF RateTypeOK
<1>3. granted'[b] = granted[b] /\ rps'[b] = rps[b]
  BY <1>1, <1>2 DEF Recorded
<1> QED
  BY <1>1, <1>3, SameLimits DEF Reserved

LEMMA EntriesStay ==
  ASSUME RateTypeOK, \A a \in Attempts : Recorded(a),
         NEW key \in Keys, EntryReserved(key), store'[key] = store[key]
  PROVE  EntryReserved(key)'
<1> SUFFICES ASSUME store'[key] # Empty
             PROVE  \E b \in Reserved' : key \in Active(b)' /\ granted'[b] = store'[key].slot
  BY DEF EntryReserved
<1>1. PICK b \in Reserved : key \in Active(b) /\ granted[b] = store[key].slot
  BY DEF EntryReserved
<1>2. b \in Reserved' /\ key \in Active(b)' /\ granted'[b] = store'[key].slot
  BY <1>1, RecordsStay
<1> QED
  BY <1>2

LEMMA RefusalsStay ==
  ASSUME RateTypeOK, RefusedForCause, \A a \in Attempts : Recorded(a),
         NEW a \in Attempts, at[a] = "refused"
  PROVE  \E b \in Reserved' : \E key \in Active(a)' \cap Active(b)' :
             granted'[b] + IntervalOf(key, a)' > latest'[a]
<1>1. PICK b \in Reserved : \E key \in Active(a) \cap Active(b) :
          granted[b] + IntervalOf(key, a) > latest[a]
  BY DEF RefusedForCause
<1>2. PICK key \in Active(a) \cap Active(b) : granted[b] + IntervalOf(key, a) > latest[a]
  BY <1>1
<1>3. rps'[a] = rps[a] /\ latest'[a] = latest[a]
  BY DEF Recorded
<1>4. Active(a)' = Active(a) /\ IntervalOf(key, a)' = IntervalOf(key, a)
  BY <1>3, SameLimits
<1>5. b \in Reserved' /\ granted'[b] = granted[b] /\ Active(b)' = Active(b)
  BY RecordsStay
<1>6. key \in Active(a)' \cap Active(b)'
  BY <1>2, <1>4, <1>5
<1>7. granted'[b] + IntervalOf(key, a)' > latest'[a]
  BY <1>2, <1>3, <1>4, <1>5
<1> QED
  BY <1>5, <1>6, <1>7

(* A step that refuses nobody keeps the causes if it keeps the entries.     *)
LEMMA CausesStay ==
  ASSUME RateTypeOK, CauseInv, \A a \in Attempts : Recorded(a),
         \A key \in Keys : EntryReserved(key)',
         \A a \in Attempts : at'[a] = "refused" => at[a] = "refused",
         \A a \in Attempts : at[a] = "new" /\ at'[a] # "new" => asked'[a] <= latest'[a]
  PROVE  CauseInv'
<1>1. \A a \in Attempts : at'[a] # "new" => asked'[a] <= latest'[a]
  BY DEF CauseInv, Recorded
<1>2. RefusedForCause'
  BY RefusalsStay DEF CauseInv, RefusedForCause
<1> QED
  BY <1>1, <1>2 DEF CauseInv

(* The same when no entry changes.                                          *)
LEMMA CausesStayWith ==
  ASSUME RateTypeOK, CauseInv, \A a \in Attempts : Recorded(a), store' = store,
         \A a \in Attempts : at'[a] = "refused" => at[a] = "refused",
         \A a \in Attempts : at[a] = "new" /\ at'[a] # "new" => asked'[a] <= latest'[a]
  PROVE  CauseInv'
<1>1. \A key \in Keys : EntryReserved(key)'
  BY EntriesStay DEF CauseInv
<1> QED
  BY <1>1, CausesStay

LEMMA CauseInitInv == RateInit => CauseInv
<1> SUFFICES ASSUME RateInit PROVE CauseInv
  OBVIOUS
<1>1. \A key \in Keys : store[key] = Empty
  BY DEF RateInit
<1>2. \A a \in Attempts : at[a] = "new"
  BY DEF RateInit
<1> QED
  BY <1>1, <1>2 DEF CauseInv, EntryReserved, RefusedForCause

LEMMA AskCauses ==
  ASSUME RateTypeOK, CauseInv, NEW a \in Attempts, NEW interval \in Intervals,
         NEW remaining \in Remainings, Ask(a, interval, remaining)
  PROVE  CauseInv'
<1>1. \A x \in Attempts : x # a => at'[x] = at[x] /\ UNCHANGED <<rps[x], asked[x], latest[x]>>
  BY DEF Ask, RateTypeOK
<1>2. at[a] = "new" /\ at'[a] = "asking" /\ granted' = granted /\ store' = store
  BY DEF Ask, RateTypeOK
<1>3. asked'[a] <= latest'[a]
  <2>1. asked'[a] = clock /\ latest'[a] = clock + remaining
    BY DEF Ask, RateTypeOK
  <2>2. clock \in Nat /\ remaining \in Nat
    BY RateAssumption DEF RateTypeOK
  <2> QED
    BY <2>1, <2>2
<1>4. \A x \in Attempts : Recorded(x)
  BY <1>1, <1>2 DEF Recorded
<1>5. \A x \in Attempts : at'[x] = "refused" => at[x] = "refused"
  BY <1>1, <1>2
<1>6. \A x \in Attempts : at[x] = "new" /\ at'[x] # "new" => asked'[x] <= latest'[x]
  BY <1>1, <1>2, <1>3
<1> QED
  BY <1>2, <1>4, <1>5, <1>6, CausesStayWith

(* A key in whose way a slot is when it does not fit.                       *)
LEMMA NoFitHasCause ==
  ASSUME RateTypeOK, NEW a \in Attempts, ~Fits(a), asked[a] <= latest[a]
  PROVE  \E key \in Active(a) : Entered(key) /\ store[key].slot + IntervalOf(key, a) > latest[a]
<1>1. asked[a] \in Nat /\ latest[a] \in Nat /\ Host[a] \in Hosts
  BY RateAssumption DEF RateTypeOK
<1>2. \A key \in Keys : store[key].slot \in Nat /\ IntervalOf(key, a) \in Nat
  BY IntervalCovers DEF RateTypeOK
<1>3. Global \in Keys /\ Host[a] \in Keys
  BY <1>1 DEF Keys
<1>4. \A key \in Keys : NextOf(key, a) \in Nat
  BY <1>1, <1>2 DEF NextOf, FreeFrom
<1>5. NextOf(Global, a) > latest[a] \/ NextOf(Host[a], a) > latest[a]
  <2>1. PICK g \in Nat : g = NextOf(Global, a)
    BY <1>3, <1>4
  <2>2. PICK h \in Nat : h = NextOf(Host[a], a)
    BY <1>3, <1>4
  <2>3. ~(Later(asked[a], Later(g, h)) <= latest[a])
    BY <2>1, <2>2 DEF Fits, Slot
  <2> QED
    BY <1>1, <2>1, <2>2, <2>3 DEF Later
<1>6. PICK key \in Keys : NextOf(key, a) > latest[a]
  BY <1>3, <1>5
<1>7. key \in Active(a)
  BY <1>1, <1>6 DEF NextOf
<1>8. Entered(key) /\ NextOf(key, a) = store[key].slot + IntervalOf(key, a)
  BY <1>1, <1>6, <1>7 DEF NextOf, FreeFrom
<1> QED
  BY <1>6, <1>7, <1>8

LEMMA DeclineCauses ==
  ASSUME RateTypeOK, CauseInv, NEW p \in Processes, Decline(p)
  PROVE  CauseInv'
<1>1. calls[p] # <<>> /\ ~Fits(Head(calls[p]))
  BY DEF Decline, Turn
<1>2. PICK a \in Attempts : a = Head(calls[p]) /\ at[a] \in {"asking", "left", "orphan"}
  BY <1>1, HeadWaits
<1>3. /\ UNCHANGED <<rps, asked, latest, granted, store>>
      /\ at' = [at EXCEPT ![a] = IF @ = "asking" THEN "refused" ELSE "left"]
  BY <1>2 DEF Decline, Return
<1>4. /\ \A x \in Attempts : x # a => at'[x] = at[x]
      /\ at'[a] \in {"refused", "left"}
  BY <1>2, <1>3 DEF RateTypeOK
<1>5. \A x \in Attempts : Recorded(x)
  BY <1>2, <1>3, <1>4 DEF Recorded
<1>6. \A key \in Keys : EntryReserved(key)'
  BY <1>3, <1>5, EntriesStay DEF CauseInv
<1>7. \A x \in Attempts : at'[x] # "new" => asked'[x] <= latest'[x]
  BY <1>2, <1>3, <1>4 DEF CauseInv
<1>8. \E b \in Reserved' : \E key \in Active(a)' \cap Active(b)' :
          granted'[b] + IntervalOf(key, a)' > latest'[a]
  <2>1. asked[a] <= latest[a]
    BY <1>2 DEF CauseInv
  <2>2. PICK key \in Active(a) : Entered(key) /\ store[key].slot + IntervalOf(key, a) > latest[a]
    BY <1>1, <1>2, <2>1, NoFitHasCause
  <2>3. key \in Keys
    BY RateAssumption DEF Active, Keys
  <2>4. store[key] # Empty
    BY <2>2 DEF Entered, Empty, RateTypeOK
  <2>5. PICK b \in Reserved : key \in Active(b) /\ granted[b] = store[key].slot
    BY <2>3, <2>4 DEF CauseInv, EntryReserved
  <2>6. b \in Reserved' /\ granted'[b] = granted[b] /\ Active(b)' = Active(b)
    BY <1>5, RecordsStay
  <2>7. Active(a)' = Active(a) /\ IntervalOf(key, a)' = IntervalOf(key, a)
    BY <1>3, SameLimits
  <2>8. key \in Active(a)' \cap Active(b)'
    BY <2>2, <2>5, <2>6, <2>7
  <2>9. granted'[b] + IntervalOf(key, a)' > latest'[a]
    BY <1>3, <2>2, <2>5, <2>6, <2>7
  <2> QED
    BY <2>6, <2>8, <2>9
<1>9. RefusedForCause'
  <2>1. ASSUME NEW x \in Attempts, at'[x] = "refused", x # a
        PROVE  \E b \in Reserved' : \E key \in Active(x)' \cap Active(b)' :
                   granted'[b] + IntervalOf(key, x)' > latest'[x]
    <3>1. at[x] = "refused"
      BY <1>4, <2>1
    <3> QED
      BY <1>5, <3>1, RefusalsStay DEF CauseInv
  <2> QED
    BY <1>8, <2>1 DEF RefusedForCause
<1> QED
  BY <1>6, <1>7, <1>9 DEF CauseInv

LEMMA CommitCauses ==
  ASSUME RateTypeOK, CauseInv, NEW p \in Processes, Commit(p)
  PROVE  CauseInv'
<1>1. tx[p] # None /\ calls[p] # <<>>
  BY DEF Commit, RateTypeOK
<1>2. PICK a \in Attempts : /\ a = Head(calls[p]) /\ granted[a] = None
                            /\ at[a] \in {"asking", "left", "orphan"}
  BY <1>1, HeadWaits
<1>3. PICK slot \in Nat : slot = tx[p]
  BY <1>1 DEF RateTypeOK
<1>4. /\ store' = [key \in Keys |->
                    IF key \in Active(a)
                    THEN [slot |-> slot, expire |-> clock + Keep(a, slot, IntervalOf(key, a))]
                    ELSE store[key]]
      /\ granted' = [granted EXCEPT ![a] = slot]
      /\ at' = [at EXCEPT ![a] = IF @ = "asking" THEN "sleeping" ELSE "left"]
      /\ UNCHANGED <<rps, asked, latest>>
  BY <1>2, <1>3 DEF Commit, Return
<1>5. /\ \A x \in Attempts : x # a => at'[x] = at[x] /\ granted'[x] = granted[x]
      /\ at'[a] \in {"sleeping", "left"} /\ granted'[a] = slot /\ slot # None
  BY <1>2, <1>4, RateAssumption DEF RateTypeOK
<1>6. \A x \in Attempts : Recorded(x)
  BY <1>2, <1>4, <1>5 DEF Recorded
<1>7. ASSUME NEW key \in Keys PROVE EntryReserved(key)'
  <2>1. CASE key \in Active(a)
    <3>1. store'[key].slot = slot
      BY <1>4, <2>1
    <3>2. a \in Reserved' /\ granted'[a] = store'[key].slot
      BY <1>5, <3>1 DEF Reserved
    <3>3. key \in Active(a)'
      BY <1>4, <2>1, SameLimits
    <3> QED
      BY <3>2, <3>3 DEF EntryReserved
  <2>2. CASE key \notin Active(a)
    <3>1. store'[key] = store[key]
      BY <1>4, <2>2
    <3> QED
      BY <1>6, <3>1, EntriesStay DEF CauseInv
  <2> QED
    BY <2>1, <2>2
<1>8. \A x \in Attempts : at'[x] = "refused" => at[x] = "refused"
  BY <1>5
<1>9. \A x \in Attempts : at[x] = "new" /\ at'[x] # "new" => asked'[x] <= latest'[x]
  BY <1>2, <1>5
<1> QED
  BY <1>6, <1>7, <1>8, <1>9, CausesStay

(* A step after which nobody else was made or refused, and no slot or entry *)
(* has changed.                                                             *)
LEMMA MoveCauses ==
  ASSUME RateTypeOK, CauseInv, UNCHANGED <<rps, asked, latest, granted, store>>,
         \A a \in Attempts : at'[a] = "new" <=> at[a] = "new",
         \A a \in Attempts : at'[a] = "refused" => at[a] = "refused"
  PROVE  CauseInv'
<1>1. \A a \in Attempts : Recorded(a)
  BY DEF Recorded
<1> QED
  BY <1>1, CausesStayWith

LEMMA FailCauses ==
  ASSUME RateTypeOK, CauseInv, NEW p \in Processes, Fail(p)
  PROVE  CauseInv'
<1>1. calls[p] # <<>>
  BY DEF Fail
<1>2. PICK a \in Attempts : a = Head(calls[p]) /\ at[a] \in {"asking", "left", "orphan"}
  BY <1>1, HeadWaits
<1>3. /\ UNCHANGED <<rps, asked, latest, granted, store>>
      /\ at' = [at EXCEPT ![a] = IF @ = "asking" THEN "failed" ELSE "left"]
  BY <1>2 DEF Fail, Return
<1>4. /\ \A x \in Attempts : x # a => at'[x] = at[x]
      /\ at'[a] \in {"failed", "left"}
  BY <1>2, <1>3 DEF RateTypeOK
<1> QED
  BY <1>2, <1>3, <1>4, MoveCauses

LEMMA CauseStepInv == RateTypeOK /\ CauseInv /\ [RateNext]_rateVars => CauseInv'
<1> SUFFICES ASSUME RateTypeOK, CauseInv, [RateNext]_rateVars PROVE CauseInv'
  OBVIOUS
<1>1. ASSUME NEW a \in Attempts, NEW interval \in Intervals, NEW remaining \in Remainings,
             Ask(a, interval, remaining)
      PROVE  CauseInv'
  BY <1>1, AskCauses
<1>2. ASSUME NEW a \in Attempts, Start(a) \/ Depart(a) PROVE CauseInv'
  <2>1. UNCHANGED <<rps, asked, latest, granted, store>>
    BY <1>2 DEF Start, Depart
  <2>2. /\ at[a] \in {"asking", "sleeping"} /\ at'[a] \in {"started", "left", "orphan"}
        /\ \A x \in Attempts : x # a => at'[x] = at[x]
    BY <1>2 DEF Start, Depart, RateTypeOK
  <2> QED
    BY <2>1, <2>2, MoveCauses
<1>3. ASSUME NEW p \in Processes, Begin(p) \/ Skip(p) PROVE CauseInv'
  <2>1. UNCHANGED <<at, rps, asked, latest, granted, store>>
    BY <1>3 DEF Begin, Skip, attemptVars
  <2> QED
    BY <2>1, MoveCauses
<1>4. ASSUME NEW p \in Processes, Decline(p) \/ Commit(p) \/ Fail(p) PROVE CauseInv'
  BY <1>4, DeclineCauses, CommitCauses, FailCauses
<1>5. CASE ClockTicks \/ UNCHANGED rateVars
  <2>1. UNCHANGED <<at, rps, asked, latest, granted, store>>
    BY <1>5 DEF ClockTicks, attemptVars, rateVars
  <2> QED
    BY <2>1, MoveCauses
<1> QED
  BY <1>1, <1>2, <1>3, <1>4, <1>5 DEF RateNext

(* acquire and reserve: whoever is answered 504 had a slot reserved under   *)
(* one of its limits in its way, though that attempt may long have left.    *)
THEOREM RefusalsHaveACause == RateSpec => []RefusedForCause
<1>1. RateInv => RateTypeOK
  BY DEF RateInv
<1>2. CauseInv => RefusedForCause
  BY DEF CauseInv
<1> QED
  BY <1>1, <1>2, CauseInitInv, CauseStepInv, RateInvariant, PTL DEF RateSpec

-----------------------------------------------------------------------------
(* The inbound limit.                                                       *)
(* What was admitted in the window and what is left in the bucket come from *)
(* the burst and the refill since the window opened.                        *)
WindowPaid ==
    window.open =>
        IF updated < window.at THEN window.spent = 0
        ELSE window.spent + tokens <= Burst + Rate * (updated - window.at)

(* At the time a refused request was told, the bucket will hold enough.     *)
RetryPaid ==
    told # Nothing =>
        IF updated <= told.until THEN Needed(told.cost) <= tokens + Rate * (told.until - updated)
        ELSE Needed(told.cost) <= tokens

InboundInv == InboundTypeOK /\ WindowPaid /\ RetryPaid

(* What flows back grows with time and adds up over it.                     *)
LEMMA Refill ==
  \A a, b, c \in Nat : a <= b /\ b <= c =>
      /\ Rate * (b - a) \in Nat /\ Rate * (c - b) \in Nat /\ (b - a) * Rate = Rate * (b - a)
      /\ Rate * (c - a) = Rate * (b - a) + Rate * (c - b)
<1> SUFFICES ASSUME NEW a \in Nat, NEW b \in Nat, NEW c \in Nat, a <= b, b <= c
             PROVE  /\ Rate * (b - a) \in Nat /\ Rate * (c - b) \in Nat
                    /\ (b - a) * Rate = Rate * (b - a)
                    /\ Rate * (c - a) = Rate * (b - a) + Rate * (c - b)
  OBVIOUS
<1>1. Rate \in Nat
  BY InboundAssumption
<1>2. \A r, x, y \in Nat : r * (x + y) = r * x + r * y /\ r * x \in Nat /\ x * r = r * x
  OBVIOUS
<1>3. b - a \in Nat /\ c - b \in Nat /\ c - a = (b - a) + (c - b)
  OBVIOUS
<1> QED
  BY <1>1, <1>2, <1>3

(* The same for one stretch of time.                                        *)
LEMMA Flow ==
  \A a, b \in Nat : a <= b => Rate * (b - a) \in Nat /\ (b - a) * Rate = Rate * (b - a)
<1> SUFFICES ASSUME NEW a \in Nat, NEW b \in Nat, a <= b
             PROVE  Rate * (b - a) \in Nat /\ (b - a) * Rate = Rate * (b - a)
  OBVIOUS
<1>1. b <= b
  OBVIOUS
<1> QED
  BY <1>1, Refill, ZenonT(60)

(* The bucket after its refill: full at most, and short of what it held     *)
(* plus what flowed back by nothing but that.                               *)
LEMMA RefilledBounds ==
  ASSUME InboundTypeOK
  PROVE  /\ Refilled \in Int /\ Refilled <= Burst /\ tokens <= Refilled
         /\ Refilled <= tokens + Rate * (time - updated)
<1>1. /\ tokens \in Int /\ tokens <= Burst /\ Burst \in Nat
      /\ updated \in Nat /\ time \in Nat /\ updated <= time
  BY InboundAssumption DEF InboundTypeOK
<1> DEFINE flow == Rate * (time - updated)
<1>2. flow \in Nat /\ (time - updated) * Rate = flow
  BY <1>1, Flow, Zenon
<1> HIDE DEF flow
<1>3. Refilled = Lower(Burst, tokens + flow)
  BY <1>2 DEF Refilled
<1>4. Refilled \in Int /\ Refilled <= Burst /\ tokens <= Refilled /\ Refilled <= tokens + flow
  BY <1>1, <1>2, <1>3 DEF Lower
<1> QED
  BY <1>4 DEF flow

(* A call of take, admitted or not, that takes some tokens of the refilled  *)
(* bucket keeps the window's account.                                       *)
LEMMA TakenIsPaid ==
  ASSUME InboundInv, NEW cost \in Nat, Refills(Refilled - cost),
         window' = IF window.open THEN [window EXCEPT !.spent = @ + cost] ELSE window
  PROVE  WindowPaid'
<1> SUFFICES ASSUME window'.open
             PROVE  /\ updated' >= window'.at
                    /\ window'.spent + tokens' <= Burst + Rate * (updated' - window'.at)
  <2>1. window'.at \in Nat /\ updated' \in Nat
    BY DEF InboundInv, InboundTypeOK, Refills
  <2> QED
    BY <2>1 DEF WindowPaid
<1>1. /\ tokens \in Int /\ Burst \in Nat /\ updated \in Nat /\ time \in Nat /\ updated <= time
      /\ window \in [open : BOOLEAN, at : Nat, spent : Nat] /\ window.at <= time
  BY InboundAssumption DEF InboundInv, InboundTypeOK
<1>2. window.open /\ window'.at = window.at /\ window'.spent = window.spent + cost
  BY <1>1
<1>3. tokens' = Refilled - cost /\ updated' = time
  BY DEF Refills
<1>4. /\ Refilled \in Int /\ Refilled <= Burst
      /\ Refilled <= tokens + Rate * (time - updated)
  BY RefilledBounds DEF InboundInv
<1>5. CASE updated < window.at
  <2>1. window.spent = 0
    BY <1>2, <1>5 DEF InboundInv, WindowPaid
  <2>2. Rate * (time - window.at) \in Nat
    <3>1. window.at \in Nat /\ time \in Nat /\ window.at <= time
      BY <1>1
    <3> QED
      BY <3>1, Flow, Zenon
  <2> QED
    BY <1>1, <1>2, <1>3, <1>4, <2>1, <2>2
<1>6. CASE window.at <= updated
  <2>1. window.spent + tokens <= Burst + Rate * (updated - window.at)
    BY <1>1, <1>2, <1>6 DEF InboundInv, WindowPaid
  <2> DEFINE early == Rate * (updated - window.at)
             flow == Rate * (time - updated)
             whole == Rate * (time - window.at)
  <2>2. early \in Nat /\ flow \in Nat /\ whole = early + flow
    <3>1. window.at \in Nat /\ updated \in Nat /\ time \in Nat /\ window.at <= updated /\ updated <= time
      BY <1>1, <1>6
    <3> QED
      BY <3>1, Refill, ZenonT(60)
  <2>3. window.spent + tokens <= Burst + early /\ Refilled <= tokens + flow
    BY <2>1, <1>4
  <2>4. window'.spent + tokens' = window.spent + Refilled
    BY <1>1, <1>2, <1>3, <1>4
  <2> HIDE DEF early, flow, whole
  <2>5. window'.spent + tokens' <= Burst + whole
    BY <2>2, <2>3, <2>4, <1>1, <1>4
  <2> QED
    BY <2>5, <1>1, <1>2, <1>3, <1>6 DEF whole
<1> QED
  BY <1>1, <1>5, <1>6

(* The wait take answers with is enough, from now on.                       *)
LEMMA RetryCovers ==
  ASSUME InboundTypeOK, NEW cost \in Costs, Refilled < Needed(cost)
  PROVE  /\ RetryAfter(cost) * Second \in Nat
         /\ Needed(cost) <= Refilled + Rate * (RetryAfter(cost) * Second)
<1>1. Refilled \in Int /\ Needed(cost) \in Nat /\ Rate \in Nat \ {0} /\ Second \in Nat \ {0}
  BY InboundAssumption, RefilledBounds DEF Needed, Lower, Costs
<1> DEFINE missing == Needed(cost) - Refilled
           step == Rate * Second
           wait == RetryAfter(cost)
<1>2. missing \in Nat /\ step \in Nat \ {0} /\ wait = (missing + step - 1) \div step
  <2>1. step \in Nat \ {0}
    BY <1>1
  <2> QED
    BY <1>1, <2>1 DEF RetryAfter
<1> HIDE DEF missing, step, wait
<1>3. wait \in Nat /\ missing <= wait * step
  BY <1>2
<1>4. wait * step = Rate * (wait * Second) /\ wait * Second \in Nat
  BY <1>1, <1>3 DEF step
<1>5. Needed(cost) <= Refilled + Rate * (wait * Second) /\ Rate * (wait * Second) \in Nat
  <2>1. Rate * (wait * Second) \in Nat
    BY <1>1, <1>4
  <2> DEFINE flow == Rate * (wait * Second)
  <2>2. missing <= flow
    BY <1>3, <1>4
  <2>3. flow \in Nat
    BY <2>1
  <2> HIDE DEF flow
  <2>4. Needed(cost) <= Refilled + flow
    BY <1>1, <2>2, <2>3 DEF missing
  <2> QED
    BY <2>1, <2>4 DEF flow
<1> QED
  BY <1>4, <1>5 DEF wait

(* A refusal that takes nothing leaves enough for whoever was told before.  *)
LEMMA RefillKeepsRetry ==
  ASSUME InboundInv, Refills(Refilled), told # Nothing
  PROVE  IF updated' <= told.until THEN Needed(told.cost) <= tokens' + Rate * (told.until - updated')
         ELSE Needed(told.cost) <= tokens'
<1>1. /\ tokens \in Int /\ tokens <= Burst /\ Burst \in Nat /\ updated \in Nat /\ time \in Nat
      /\ updated <= time /\ told.cost \in Nat
      /\ Refilled \in Int /\ tokens <= Refilled /\ tokens' = Refilled /\ updated' = time
  BY InboundAssumption, RefilledBounds DEF InboundInv, InboundTypeOK, Refills, Costs
<1>0. PICK until \in Nat : until = told.until
  BY DEF InboundInv, InboundTypeOK
<1>2. Needed(told.cost) \in Int /\ Needed(told.cost) <= Burst
  BY <1>1 DEF Needed, Lower
<1> DEFINE flow == Rate * (time - updated)
           rest == Rate * (until - time)
           whole == Rate * (until - updated)
<1>3. flow \in Nat /\ Refilled = Lower(Burst, tokens + flow)
  <2>1. flow \in Nat /\ (time - updated) * Rate = flow
    BY <1>1, Flow, Zenon
  <2> QED
    BY <2>1 DEF Refilled
<1>4. CASE until < updated
  <2>1. Needed(told.cost) <= tokens
    BY <1>0, <1>1, <1>4 DEF InboundInv, RetryPaid
  <2> QED
    BY <1>0, <1>1, <1>2, <1>4, <2>1
<1>5. CASE updated <= until /\ until < time
  <2> DEFINE late == Rate * (time - until)
  <2>1. Needed(told.cost) <= tokens + whole
    BY <1>0, <1>1, <1>5 DEF InboundInv, RetryPaid
  <2>2. whole \in Nat /\ late \in Nat /\ flow = whole + late
    <3>1. until <= time
      BY <1>1, <1>0, <1>5
    <3> QED
      BY <1>1, <1>0, <1>5, <3>1, Refill, ZenonT(60)
  <2> HIDE DEF flow, whole, late
  <2>3. Needed(told.cost) <= Refilled
    BY <1>1, <1>2, <1>3, <2>1, <2>2 DEF Lower
  <2> QED
    BY <1>0, <1>1, <1>5, <2>3
<1>6. CASE time <= until
  <2>1. Needed(told.cost) <= tokens + whole
    BY <1>0, <1>1, <1>6 DEF InboundInv, RetryPaid
  <2>2. rest \in Nat /\ whole = flow + rest
    BY <1>1, <1>0, <1>6, Refill, ZenonT(60)
  <2> HIDE DEF flow, whole, rest
  <2>3. Needed(told.cost) <= Refilled + rest
    BY <1>1, <1>2, <1>3, <2>1, <2>2 DEF Lower
  <2> QED
    BY <1>0, <1>1, <1>6, <2>3 DEF rest
<1> QED
  BY <1>1, <1>4, <1>5, <1>6

(* A full bucket, no window yet.                                            *)
LEMMA InboundInitInv == InboundInit => InboundInv
  BY InboundAssumption
  DEF InboundInit, InboundInv, InboundTypeOK, WindowPaid, RetryPaid, NoWindow, Nothing, Costs, Excess

(* Each call of take and each tick keep the account.                        *)
LEMMA InboundStepInv == InboundInv /\ [InboundNext]_inboundVars => InboundInv'
<1> SUFFICES ASSUME InboundInv, [InboundNext]_inboundVars PROVE InboundInv'
  OBVIOUS
<1>1. /\ tokens \in Int /\ Burst \in Nat \ {0} /\ MaxUrls \in Nat \ {0} /\ Excess \in Nat
      /\ -Excess <= tokens /\ tokens <= Burst
      /\ updated \in Nat /\ time \in Nat /\ updated <= time
      /\ window \in [open : BOOLEAN, at : Nat, spent : Nat] /\ window.at <= time
      /\ told \in [cost : Costs \cup {0}, until : Nat]
      /\ Refilled \in Int /\ Refilled <= Burst /\ tokens <= Refilled
  BY InboundAssumption, RefilledBounds DEF InboundInv, InboundTypeOK, Excess
<1>2. ASSUME NEW cost \in Costs, Take(cost) PROVE InboundInv'
  <2>1. cost \in Nat /\ cost <= MaxUrls /\ Refilled >= Needed(cost)
    BY <1>1, <1>2 DEF Costs, Take
  <2>2. tokens' \in Int /\ -Excess <= tokens' /\ tokens' <= Burst
    BY <1>1, <1>2, <2>1 DEF Take, Refills, Needed, Lower, Excess
  <2>3. window' \in [open : BOOLEAN, at : Nat, spent : Nat] /\ window'.at <= time
    BY <1>1, <1>2, <2>1 DEF Take
  <2>4. InboundTypeOK'
    BY <1>1, <1>2, <2>2, <2>3 DEF InboundTypeOK, Take, Refills, Nothing, Excess, Costs
  <2>5. WindowPaid'
    BY <1>2, <2>1, TakenIsPaid DEF Take
  <2>6. RetryPaid'
    BY <1>2 DEF Take, RetryPaid
  <2> QED
    BY <2>4, <2>5, <2>6 DEF InboundInv
<1>3. ASSUME NEW cost \in Costs, TurnAway(cost) PROVE InboundInv'
  <2> DEFINE until == time + RetryAfter(cost) * Second
  <2>1. /\ RetryAfter(cost) * Second \in Nat /\ until \in Nat /\ time <= until
        /\ Needed(cost) <= Refilled + Rate * (until - time)
    <3>1. /\ RetryAfter(cost) * Second \in Nat /\ Refilled < Needed(cost)
          /\ Needed(cost) <= Refilled + Rate * (RetryAfter(cost) * Second)
      BY <1>3, RetryCovers DEF TurnAway, InboundInv
    <3>2. until - time = RetryAfter(cost) * Second
      BY <1>1, <3>1
    <3> QED
      BY <1>1, <3>1, <3>2
  <2>2. /\ tokens' = Refilled /\ updated' = time /\ UNCHANGED <<time, window>>
        /\ told' = told \/ told' = [cost |-> cost, until |-> until]
        /\ Refills(Refilled)
    BY <1>3 DEF TurnAway, Refills
  <2> HIDE DEF until
  <2>3. told' \in [cost : Costs \cup {0}, until : Nat]
    BY <1>1, <2>1, <2>2
  <2>4. InboundTypeOK'
    BY <1>1, <2>2, <2>3 DEF InboundTypeOK, Excess, Costs
  <2>5. WindowPaid'
    <3>1. Refills(Refilled - 0)
      BY <1>1, <2>2 DEF Refills
    <3>2. window' = IF window.open THEN [window EXCEPT !.spent = @ + 0] ELSE window
      BY <1>1, <2>2
    <3> QED
      BY <3>1, <3>2, TakenIsPaid
  <2>6. RetryPaid'
    <3>1. CASE told' = told
      BY <2>2, <3>1, RefillKeepsRetry DEF RetryPaid, Needed
    <3>2. CASE told' = [cost |-> cost, until |-> until]
      BY <2>1, <2>2, <3>2 DEF RetryPaid, Needed
    <3> QED
      BY <2>2, <3>1, <3>2
  <2> QED
    BY <2>4, <2>5, <2>6 DEF InboundInv
<1>4. CASE WindowOpens
  <2>1. InboundTypeOK'
    BY <1>1, <1>4 DEF InboundTypeOK, WindowOpens, Excess, Costs
  <2>2. RetryPaid'
    BY <1>4 DEF InboundInv, RetryPaid, WindowOpens, Needed
  <2>3. WindowPaid'
    <3>1. Rate * (time - time) = 0
      BY <1>1, InboundAssumption
    <3> QED
      BY <1>1, <1>4, <3>1 DEF WindowOpens, WindowPaid
  <2> QED
    BY <2>1, <2>2, <2>3 DEF InboundInv
<1>5. CASE TimePasses
  <2>1. InboundTypeOK'
    BY <1>1, <1>5 DEF InboundTypeOK, TimePasses, Excess, Costs
  <2> QED
    BY <1>5, <2>1 DEF InboundInv, RetryPaid, WindowPaid, TimePasses, Needed
<1>6. CASE UNCHANGED inboundVars
  BY <1>6 DEF inboundVars, InboundInv, InboundTypeOK, RetryPaid, WindowPaid, Needed
<1> QED
  BY <1>2, <1>3, <1>4, <1>5, <1>6 DEF InboundNext

(* The account and the promise hold at all times.                           *)
THEOREM InboundInvariant == InboundSpec => []InboundInv
  BY InboundInitInv, InboundStepInv, PTL DEF InboundSpec

(* take: whoever asks when, a stretch of time sees no more URLs admitted    *)
(* than the burst, the refill during it and one batch's excess.             *)
THEOREM WindowIsBounded == InboundSpec => []WindowBound
<1>1. InboundInv => WindowBound
  <2> SUFFICES ASSUME InboundInv, window.open
               PROVE  window.spent <= Burst + Rate * (time - window.at) + Excess
    BY DEF WindowBound
  <2>1. /\ tokens \in Int /\ -Excess <= tokens /\ Excess \in Nat /\ Burst \in Nat
        /\ updated \in Nat /\ time \in Nat /\ updated <= time
        /\ window.at \in Nat /\ window.spent \in Nat /\ window.at <= time
    BY InboundAssumption DEF InboundInv, InboundTypeOK, Excess
  <2>0. PICK since \in Nat : since = window.at
    BY <2>1
  <2>2. CASE updated < window.at
    <3>1. window.spent = 0
      BY <2>2 DEF InboundInv, WindowPaid
    <3>2. Rate * (time - since) \in Nat
      BY <2>0, <2>1, Flow, Zenon
    <3> QED
      BY <2>0, <2>1, <3>1, <3>2
  <2>3. CASE window.at <= updated
    <3> DEFINE early == Rate * (updated - since)
               flow == Rate * (time - updated)
               whole == Rate * (time - since)
    <3>1. early \in Nat /\ flow \in Nat /\ whole = early + flow
      BY <2>0, <2>1, <2>3, Refill, ZenonT(60)
    <3>2. window.spent + tokens <= Burst + early
      BY <2>0, <2>1, <2>3 DEF InboundInv, WindowPaid
    <3> HIDE DEF early, flow, whole
    <3>3. window.spent <= Burst + whole + Excess
      BY <2>1, <3>1, <3>2
    <3> QED
      BY <2>0, <3>3 DEF whole
  <2> QED
    BY <2>1, <2>2, <2>3
<1> QED
  BY <1>1, InboundInvariant, PTL

(* The 429 of main.py tells the truth: whoever waits as long as its         *)
(* Retry-After says, and is not overtaken, is admitted.                     *)
THEOREM RetryIsHonest == InboundSpec => []RetryIsEnough
<1>1. InboundInv => RetryIsEnough
  <2> SUFFICES ASSUME InboundInv, told # Nothing, time >= told.until
               PROVE  Refilled >= Needed(told.cost)
    BY DEF RetryIsEnough
  <2>1. /\ tokens \in Int /\ tokens <= Burst /\ Burst \in Nat /\ updated \in Nat /\ time \in Nat
        /\ updated <= time /\ told.until \in Nat /\ told.cost \in Nat /\ Refilled \in Int
    BY InboundAssumption, RefilledBounds DEF InboundInv, InboundTypeOK, Costs
  <2>2. Needed(told.cost) \in Int
    BY <2>1 DEF Needed, Lower
  <2>3. Needed(told.cost) <= Burst
    BY <2>1 DEF Needed, Lower
  <2>4. PICK until \in Nat : until = told.until
    BY <2>1
  <2>5. CASE until < updated
    BY <2>1, <2>2, <2>4, <2>5, RefilledBounds DEF InboundInv, RetryPaid
  <2>6. CASE updated <= until
    <3> DEFINE early == Rate * (until - updated)
               late == Rate * (time - until)
               flow == Rate * (time - updated)
    <3>1. early \in Nat /\ late \in Nat /\ flow = early + late
      <4>1. until <= time
        BY <2>1, <2>4
      <4> QED
        BY <2>1, <2>4, <2>6, <4>1, Refill, ZenonT(60)
    <3>2. Needed(told.cost) <= tokens + early
      BY <2>1, <2>4, <2>6 DEF InboundInv, RetryPaid
    <3>3. Refilled = Lower(Burst, tokens + flow)
      <4>1. (time - updated) * Rate = flow
        BY <2>1, Flow, Zenon
      <4> QED
        BY <4>1 DEF Refilled
    <3> HIDE DEF early, late, flow
    <3> QED
      BY <2>1, <2>2, <2>3, <3>1, <3>2, <3>3 DEF Lower
  <2> QED
    BY <2>1, <2>4, <2>5, <2>6
<1> QED
  BY <1>1, InboundInvariant, PTL
=============================================================================
