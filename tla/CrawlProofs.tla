---------------------------- MODULE CrawlProofs ----------------------------
(***************************************************************************)
(* What the admission to the crawl slots and CrawlService on top of it     *)
(* promise the requests for one page, for any number of them, forced or    *)
(* not, any limits and any number of timers, faults and expiries.          *)
(*                                                                         *)
(* Capacity comes first.  Every step of it but those of a newcomer and the *)
(* cancellation of a waiter is one use of HandOn, so the proof counts once,*)
(* in HandOnQueue and HandOnCounts, what handing permits on does to the    *)
(* queue and to the sets of requests, and reads each action off them.      *)
(*                                                                         *)
(* Of the crawl, LeadInv is about who leads and what a future says,        *)
(* CallInv about the order of the calls to the storage thread, SlotsInv    *)
(* about the crawl slots; each is kept by every step.                      *)
(***************************************************************************)
EXTENDS Crawl, FiniteSetTheorems, SequenceTheorems, TLAPS

(* The first n waiters of a queue without repetition are n requests.        *)
LEMMA FirstWaiters ==
  ASSUME QueueOrder, queue \in Seq(Requests), NEW n \in 0..Len(queue)
  PROVE  /\ IsFiniteSet({queue[i] : i \in 1..n})
         /\ Cardinality({queue[i] : i \in 1..n}) = n
<1> DEFINE W == {queue[i] : i \in 1..n}
           f == [i \in 1..n |-> queue[i]]
<1>1. IsFiniteSet(1..n) /\ Cardinality(1..n) = n
  BY FS_Interval
<1>2. f \in Bijection(1..n, W)
  <2>1. f \in [1..n -> W]
    OBVIOUS
  <2>2. \A i, k \in 1..n : f[i] = f[k] => i = k
    BY DEF QueueOrder
  <2>3. \A w \in W : \E i \in 1..n : f[i] = w
    OBVIOUS
  <2> QED
    BY <2>1, <2>2, <2>3 DEF Bijection, Injection, Surjection, IsInjective
<1>3. ExistsBijection(1..n, W)
  BY <1>2 DEF ExistsBijection
<1> QED
  BY <1>1, <1>3, FS_Bijection

(* The sets of requests that are counted are finite.                        *)
LEMMA FiniteAt ==
  ASSUME NEW S
  PROVE  /\ IsFiniteSet(At(S)) /\ Cardinality(At(S)) \in Nat
         /\ IsFiniteSet(At(S)') /\ Cardinality(At(S)') \in Nat
<1>1. At(S) \in SUBSET Requests /\ At(S)' \in SUBSET Requests
  BY DEF At
<1> QED
  BY <1>1, CapacityAssumption, FS_Subset, FS_CardinalityType

(* Handing permits on wakes n waiters, none of them r, and leaves a queue.  *)
LEMMA HandOnQueue ==
  ASSUME CapacityTypeOK, QueueOrder,
         NEW r \in Requests, stage[r] # "pending", NEW s \in Stages \ {"pending"},
         NEW p \in Nat, NEW n \in 0..Len(queue), HandOn(r, s, p, n)
  PROVE  LET W == {queue[i] : i \in 1..n}
         IN  /\ W \subseteq At({"pending"}) /\ r \notin W
             /\ stage' \in [Requests -> Stages]
             /\ \A x \in Requests : stage'[x] = IF x = r THEN s ELSE IF x \in W THEN "woken" ELSE stage[x]
             /\ queue' \in Seq(Requests) /\ Len(queue') = Len(queue) - n
             /\ QueueOrder'
<1> DEFINE W == {queue[i] : i \in 1..n}
<1>1. W \subseteq At({"pending"}) /\ r \notin W
  BY DEF QueueOrder, At
<1>2. \A x \in Requests : stage'[x] = IF x = r THEN s ELSE IF x \in W THEN "woken" ELSE stage[x]
  BY DEF HandOn
<1>3. stage' \in [Requests -> Stages]
  BY DEF HandOn, CapacityTypeOK, Stages, Waiting
<1>4. /\ queue' \in Seq(Requests) /\ Len(queue') = Len(queue) - n
      /\ \A i \in 1..Len(queue') : queue'[i] = queue[i + n]
  BY SMTT(30) DEF HandOn, CapacityTypeOK
<1>5. \A i, k \in 1..Len(queue') : queue'[i] = queue'[k] => i = k
  <2> SUFFICES ASSUME NEW i \in 1..Len(queue'), NEW k \in 1..Len(queue'), queue'[i] = queue'[k]
               PROVE  i = k
    OBVIOUS
  <2>1. i + n \in 1..Len(queue) /\ k + n \in 1..Len(queue) /\ queue[i + n] = queue[k + n]
    BY <1>4 DEF CapacityTypeOK
  <2> QED
    BY <2>1 DEF QueueOrder
<1>6. At({"pending"})' = {queue'[i] : i \in 1..Len(queue')}
  <2>1. At({"pending"})' = At({"pending"}) \ W
    BY <1>1, <1>2 DEF At
  <2>2. \A i \in 1..Len(queue) : queue[i] \notin W <=> i > n
    BY DEF QueueOrder
  <2>3. {queue'[i] : i \in 1..Len(queue')} \subseteq At({"pending"}) \ W
    <3> SUFFICES ASSUME NEW i \in 1..Len(queue')
                 PROVE  queue'[i] \in At({"pending"}) \ W
      OBVIOUS
    <3>1. i + n \in 1..Len(queue) /\ i + n > n /\ queue'[i] = queue[i + n]
      BY <1>4 DEF CapacityTypeOK
    <3> QED
      BY <3>1, <2>2 DEF QueueOrder
  <2>4. At({"pending"}) \ W \subseteq {queue'[i] : i \in 1..Len(queue')}
    <3> SUFFICES ASSUME NEW x \in At({"pending"}) \ W
                 PROVE  \E i \in 1..Len(queue') : queue'[i] = x
      OBVIOUS
    <3>1. PICK i \in 1..Len(queue) : queue[i] = x
      BY DEF QueueOrder
    <3>2. i > n
      BY <3>1, <2>2
    <3>3. i - n \in 1..Len(queue') /\ queue'[i - n] = x
      BY <3>1, <3>2, <1>4, SMTT(30) DEF CapacityTypeOK
    <3> QED
      BY <3>3
  <2> QED
    BY <2>1, <2>3, <2>4
<1> QED
  BY <1>1, <1>2, <1>3, <1>4, <1>5, <1>6 DEF QueueOrder

(* Membership as a number, and how many elements removing one leaves.       *)
Bit(x, S) == IF x \in S THEN 1 ELSE 0

LEMMA RemoveOne ==
  ASSUME NEW A, IsFiniteSet(A), NEW x
  PROVE  Cardinality(A) = Cardinality(A \ {x}) + Bit(x, A)
<1>1. /\ Cardinality(A) \in Nat
      /\ Cardinality(A \ {x}) = IF x \in A THEN Cardinality(A) - 1 ELSE Cardinality(A)
  BY FS_RemoveElement, FS_CardinalityType
<1> QED
  BY <1>1 DEF Bit

(* The number of requests in some stages, if r moves from a to s, and those *)
(* of W, all of them pending, are woken.                                    *)
LEMMA MoveCounts ==
  ASSUME NEW before \in [Requests -> Stages], NEW after \in [Requests -> Stages],
         NEW r \in Requests, NEW W \in SUBSET Requests, r \notin W,
         \A x \in W : before[x] = "pending",
         \A x \in Requests \ {r} : after[x] = IF x \in W THEN "woken" ELSE before[x],
         NEW S
  PROVE  LET B == {x \in Requests : before[x] \in S}
             A == {x \in Requests : after[x] \in S}
         IN  /\ ("pending" \in S <=> "woken" \in S) =>
                   Cardinality(A) = Cardinality(B) - Bit(before[r], S) + Bit(after[r], S)
             /\ "pending" \notin S /\ "woken" \in S =>
                   Cardinality(A) = Cardinality(B) - Bit(before[r], S) + Bit(after[r], S)
                                    + Cardinality(W)
<1> DEFINE B == {x \in Requests : before[x] \in S}
           A == {x \in Requests : after[x] \in S}
<1>1. IsFiniteSet(A) /\ IsFiniteSet(B) /\ IsFiniteSet(W) /\ IsFiniteSet(B \ {r}) /\ IsFiniteSet(A \ {r})
  <2>1. A \in SUBSET Requests /\ B \in SUBSET Requests /\ B \ {r} \in SUBSET Requests /\ A \ {r} \in SUBSET Requests
    OBVIOUS
  <2> HIDE DEF A, B
  <2> QED
    BY <2>1, CapacityAssumption, FS_Subset
<1>2. /\ Cardinality(A) \in Nat /\ Cardinality(B) \in Nat /\ Cardinality(W) \in Nat
      /\ Cardinality(A \ {r}) \in Nat /\ Cardinality(B \ {r}) \in Nat
  <2> HIDE DEF A, B
  <2> QED
    BY <1>1, FS_CardinalityType
<1>3. /\ Cardinality(A) = Cardinality(A \ {r}) + Bit(r, A)
      /\ Cardinality(B) = Cardinality(B \ {r}) + Bit(r, B)
  <2> HIDE DEF A, B
  <2> QED
    BY <1>1, RemoveOne
<1>4. Bit(r, A) = Bit(after[r], S) /\ Bit(r, B) = Bit(before[r], S)
  BY DEF Bit
<1>5. ASSUME "pending" \in S <=> "woken" \in S
      PROVE  Cardinality(A \ {r}) = Cardinality(B \ {r})
  <2>1. A \ {r} = B \ {r}
    BY <1>5
  <2> HIDE DEF A, B
  <2> QED
    BY <2>1
<1>6. ASSUME "pending" \notin S, "woken" \in S
      PROVE  Cardinality(A \ {r}) = Cardinality(B \ {r}) + Cardinality(W)
  <2>1. A \ {r} = (B \ {r}) \cup W /\ (B \ {r}) \cap W = {}
    BY <1>6
  <2> HIDE DEF A, B
  <2>2. Cardinality((B \ {r}) \cup W) =
           Cardinality(B \ {r}) + Cardinality(W) - Cardinality((B \ {r}) \cap W)
    BY <1>1, FS_Union
  <2>3. Cardinality((B \ {r}) \cap W) = 0
    BY <2>1, FS_EmptySet
  <2>4. Cardinality(A \ {r}) = Cardinality((B \ {r}) \cup W)
    BY <2>1
  <2> QED
    BY <2>2, <2>3, <2>4, <1>2
<1>7. Bit(r, A) \in {0, 1} /\ Bit(r, B) \in {0, 1}
  BY DEF Bit
<1> HIDE DEF A, B
<1> QED
  <2> SUFFICES /\ ("pending" \in S <=> "woken" \in S) =>
                     Cardinality(A) = Cardinality(B) - Bit(before[r], S) + Bit(after[r], S)
               /\ "pending" \notin S /\ "woken" \in S =>
                     Cardinality(A) = Cardinality(B) - Bit(before[r], S) + Bit(after[r], S)
                                      + Cardinality(W)
    BY DEF A, B
  <2>1. /\ Cardinality(A) = Cardinality(A \ {r}) + Bit(after[r], S)
        /\ Cardinality(B) = Cardinality(B \ {r}) + Bit(before[r], S)
        /\ Bit(after[r], S) \in {0, 1} /\ Bit(before[r], S) \in {0, 1}
    BY <1>3, <1>4, <1>7
  <2> QED
    BY <2>1, <1>2, <1>5, <1>6

(* What handing permits on does to the numbers of requests that are counted.*)
LEMMA HandOnCounts ==
  ASSUME CapacityTypeOK, QueueOrder,
         NEW r \in Requests, stage[r] # "pending", NEW s \in Stages \ {"pending"},
         NEW p \in Nat, NEW n \in 0..Len(queue), HandOn(r, s, p, n)
  PROVE  /\ Cardinality(At(Granted)') =
               Cardinality(At(Granted)) - Bit(stage[r], Granted) + Bit(s, Granted) + n
         /\ Cardinality(At(Waiting)') =
               Cardinality(At(Waiting)) - Bit(stage[r], Waiting) + Bit(s, Waiting)
         /\ Cardinality(At({"held"})') =
               Cardinality(At({"held"})) - Bit(stage[r], {"held"}) + Bit(s, {"held"})
<1> DEFINE W == {queue[i] : i \in 1..n}
<1>1. /\ W \subseteq At({"pending"}) /\ r \notin W
      /\ stage' \in [Requests -> Stages]
      /\ \A x \in Requests : stage'[x] = IF x = r THEN s ELSE IF x \in W THEN "woken" ELSE stage[x]
  BY HandOnQueue
<1>2. Cardinality(W) = n
  BY FirstWaiters DEF CapacityTypeOK
<1>3. /\ W \in SUBSET Requests
      /\ \A x \in W : stage[x] = "pending"
      /\ \A x \in Requests \ {r} : stage'[x] = IF x \in W THEN "woken" ELSE stage[x]
      /\ stage'[r] = s
      /\ stage \in [Requests -> Stages]
  BY <1>1 DEF At, CapacityTypeOK
<1> HIDE DEF W
<1>4. \A S : /\ ("pending" \in S <=> "woken" \in S) =>
                   Cardinality({x \in Requests : stage'[x] \in S}) =
                      Cardinality({x \in Requests : stage[x] \in S}) - Bit(stage[r], S) + Bit(s, S)
             /\ "pending" \notin S /\ "woken" \in S =>
                   Cardinality({x \in Requests : stage'[x] \in S}) =
                      Cardinality({x \in Requests : stage[x] \in S}) - Bit(stage[r], S) + Bit(s, S) + n
  BY <1>1, <1>2, <1>3, MoveCounts
<1>5. /\ "pending" \notin Granted /\ "woken" \in Granted
      /\ "pending" \in Waiting /\ "woken" \in Waiting
  BY DEF Granted, Waiting
<1> QED
  BY <1>4, <1>5 DEF At

-----------------------------------------------------------------------------
(* Handing permits on keeps the invariant, if r gives up what it had: the   *)
(* permits at hand are those of the semaphore and, if r was granted one it  *)
(* no longer keeps, that one.                                               *)
LEMMA HandOnKeepsInv ==
  ASSUME CapacityInv, NEW r \in Requests, stage[r] \in {"woken", "revoked", "cancelled", "held"},
         NEW s \in {"out", "held"}, NEW p \in Nat, NEW n \in 0..Len(queue),
         HandOn(r, s, p, n), n <= p, n = p \/ n = Len(queue) \/ n > 0,
         p = permits + Bit(stage[r], Granted) - Bit(s, Granted),
         waiting' = waiting - Bit(stage[r], Waiting),
         active' = active - Bit(stage[r], {"held"}) + Bit(s, {"held"})
  PROVE  CapacityInv'
<1> DEFINE W == {queue[i] : i \in 1..n}
<1>1. /\ CapacityTypeOK /\ QueueOrder /\ stage[r] # "pending" /\ stage[r] \in Stages
      /\ s \in Stages \ {"pending"}
  BY DEF CapacityInv, CapacityTypeOK, Stages, Waiting
<1>2. permits \in Nat /\ Len(queue) \in Nat /\ n \in Nat /\ queue \in Seq(Requests)
      /\ Limit \in Nat /\ MaxQueue \in Nat /\ waiting \in Nat /\ active \in Nat
  BY CapacityAssumption DEF CapacityInv, CapacityTypeOK
<1>3. /\ W \subseteq At({"pending"}) /\ r \notin W
      /\ stage' \in [Requests -> Stages]
      /\ \A x \in Requests : stage'[x] = IF x = r THEN s ELSE IF x \in W THEN "woken" ELSE stage[x]
      /\ queue' \in Seq(Requests) /\ Len(queue') = Len(queue) - n
      /\ QueueOrder'
  BY <1>1, HandOnQueue
<1>4. /\ Cardinality(At(Granted)') =
               Cardinality(At(Granted)) - Bit(stage[r], Granted) + Bit(s, Granted) + n
      /\ Cardinality(At(Waiting)') =
               Cardinality(At(Waiting)) - Bit(stage[r], Waiting) + Bit(s, Waiting)
      /\ Cardinality(At({"held"})') =
               Cardinality(At({"held"})) - Bit(stage[r], {"held"}) + Bit(s, {"held"})
  BY <1>1, HandOnCounts
<1>5. permits' = p - n
  BY DEF HandOn
<1>6. /\ Cardinality(At(Granted)') \in Nat /\ Cardinality(At(Granted)) \in Nat
      /\ Cardinality(At(Waiting)') \in Nat /\ Cardinality(At(Waiting)) \in Nat
      /\ Cardinality(At({"held"})') \in Nat /\ Cardinality(At({"held"})) \in Nat
  BY FiniteAt
<1>7. /\ Bit(stage[r], Granted) \in {0, 1} /\ Bit(s, Granted) \in {0, 1}
      /\ Bit(stage[r], Waiting) \in {0, 1} /\ Bit(s, Waiting) = 0
      /\ Bit(stage[r], {"held"}) \in {0, 1} /\ Bit(s, {"held"}) \in {0, 1}
  BY DEF Bit, Waiting
<1>8. PermitsConserved'
  <2>1. /\ permits + Cardinality(At(Granted)) = Limit
        /\ active = Cardinality(At({"held"}))
    BY DEF CapacityInv, PermitsConserved
  <2>2. permits' = permits + Bit(stage[r], Granted) - Bit(s, Granted) - n
    BY <1>2, <1>5, <1>7, SMTT(30)
  <2>3. permits' + Cardinality(At(Granted)') = Limit
    <3> DEFINE g == Cardinality(At(Granted))
               gNext == Cardinality(At(Granted)')
               b == Bit(stage[r], Granted)
               c == Bit(s, Granted)
    <3>1. /\ permits + g = Limit /\ permits' = permits + b - c - n /\ gNext = g - b + c + n
          /\ permits \in Nat /\ g \in Nat /\ b \in Nat /\ c \in Nat /\ n \in Nat
      <4>1. permits + g = Limit
        BY <2>1
      <4>2. permits' = permits + b - c - n
        BY <2>2
      <4>3. gNext = g - b + c + n
        BY <1>4
      <4>4. permits \in Nat /\ g \in Nat /\ n \in Nat
        BY <1>2, <1>6
      <4>5. b \in Nat /\ c \in Nat
        BY <1>7
      <4> QED
        BY <4>1, <4>2, <4>3, <4>4, <4>5
    <3> HIDE DEF g, gNext, b, c
    <3>2. permits' + gNext = Limit
      BY <3>1
    <3> QED
      BY <3>2 DEF gNext
  <2>4. active' = Cardinality(At({"held"})')
    BY <2>1, <1>2, <1>4, <1>6, <1>7
  <2> QED
    BY <2>3, <2>4 DEF PermitsConserved
<1>9. QueueBound'
  BY <1>2, <1>4, <1>6, <1>7, SMTT(30) DEF QueueBound, CapacityInv
<1>10. CapacityTypeOK'
  <2>1. permits' + Cardinality(At(Granted)') = Limit /\ active' = Cardinality(At({"held"})')
    BY <1>8 DEF PermitsConserved
  <2>2. permits' \in Nat
    BY <1>2, <1>5
  <2>3. permits' \in 0..Limit
    <3>1. \A a, b, c \in Nat : a + b = c => a \in 0..c
      OBVIOUS
    <3> QED
      BY <3>1, <2>1, <2>2, <1>2, <1>6
  <2>4. active' \in Nat
    BY <2>1, <1>6
  <2>5. waiting' = Cardinality(At(Waiting)')
    BY <1>9 DEF QueueBound
  <2>6. waiting' \in Nat
    BY <2>5, <1>6
  <2> QED
    BY <1>3, <2>3, <2>4, <2>6 DEF CapacityTypeOK
<1>11. NoIdlePermit'
  <2> SUFFICES ASSUME permits' > 0, At({"pending"})' # {}
               PROVE  At({"woken", "revoked"})' # {}
    BY DEF NoIdlePermit
  <2>1. n # p /\ n # Len(queue)
    <3>1. Len(queue') # 0
      BY <1>3 DEF QueueOrder
    <3> QED
      BY <3>1, <1>2, <1>3, <1>5
  <2>2. queue[1] \in W /\ 1 \in 1..Len(queue)
    BY <2>1, <1>2
  <2>3. queue[1] \in Requests /\ stage'[queue[1]] = "woken"
    BY <2>2, <1>2, <1>3, SMTT(30)
  <2> QED
    BY <2>3 DEF At
<1> QED
  BY <1>3, <1>8, <1>9, <1>10, <1>11 DEF CapacityInv

-----------------------------------------------------------------------------
(* One request moves to stage s and no permit is handed on.                 *)
LEMMA MoveOne ==
  ASSUME CapacityTypeOK, NEW r \in Requests, NEW s \in Stages,
         stage' \in [Requests -> Stages],
         \A x \in Requests : stage'[x] = IF x = r THEN s ELSE stage[x]
  PROVE  /\ Cardinality(At(Granted)') =
               Cardinality(At(Granted)) - Bit(stage[r], Granted) + Bit(s, Granted)
         /\ Cardinality(At(Waiting)') =
               Cardinality(At(Waiting)) - Bit(stage[r], Waiting) + Bit(s, Waiting)
         /\ Cardinality(At({"held"})') =
               Cardinality(At({"held"})) - Bit(stage[r], {"held"}) + Bit(s, {"held"})
<1> DEFINE W == {x \in Requests : FALSE}
<1>1. stage \in [Requests -> Stages] /\ stage'[r] = s
  BY DEF CapacityTypeOK
<1>2. /\ W \in SUBSET Requests /\ r \notin W
      /\ \A x \in W : stage[x] = "pending"
      /\ \A x \in Requests \ {r} : stage'[x] = IF x \in W THEN "woken" ELSE stage[x]
  BY <1>1
<1>3. Cardinality(W) = 0
  <2>1. W = {}
    OBVIOUS
  <2> HIDE DEF W
  <2> QED
    BY <2>1, FS_EmptySet
<1> HIDE DEF W
<1>4. \A S : /\ ("pending" \in S <=> "woken" \in S) =>
                   Cardinality({x \in Requests : stage'[x] \in S}) =
                      Cardinality({x \in Requests : stage[x] \in S}) - Bit(stage[r], S) + Bit(s, S)
             /\ "pending" \notin S /\ "woken" \in S =>
                   Cardinality({x \in Requests : stage'[x] \in S}) =
                      Cardinality({x \in Requests : stage[x] \in S}) - Bit(stage[r], S) + Bit(s, S)
                      + 0
  BY <1>1, <1>2, <1>3, MoveCounts
<1>5. /\ "pending" \notin Granted /\ "woken" \in Granted
      /\ "pending" \in Waiting /\ "woken" \in Waiting
  BY DEF Granted, Waiting
<1>6. /\ Cardinality(At(Granted)) \in Nat
      /\ Bit(stage[r], Granted) \in Nat /\ Bit(s, Granted) \in Nat
  BY FiniteAt DEF Bit
<1>7. Cardinality(At(Granted)') =
         Cardinality(At(Granted)) - Bit(stage[r], Granted) + Bit(s, Granted) + 0
  BY <1>4, <1>5 DEF At
<1>8. \A a, b, c \in Nat : a - b + c + 0 = a - b + c
  OBVIOUS
<1>9. Cardinality(At(Granted)') =
         Cardinality(At(Granted)) - Bit(stage[r], Granted) + Bit(s, Granted)
  BY <1>6, <1>7, <1>8
<1> QED
  BY <1>4, <1>5, <1>9 DEF At

(* A newcomer that finds a permit and nobody before it.                     *)
LEMMA AdmitKeepsInv ==
  ASSUME CapacityInv, NEW r \in Requests, Admit(r)
  PROVE  CapacityInv'
<1>1. /\ CapacityTypeOK /\ PermitsConserved /\ QueueBound /\ QueueOrder
      /\ stage[r] = "out" /\ "held" \in Stages /\ stage' = [stage EXCEPT ![r] = "held"]
      /\ permits' = permits - 1 /\ active' = active + 1 /\ queue' = queue /\ waiting' = waiting
  BY DEF CapacityInv, Admit, Stages
<1>2. permits \in Nat \ {0} /\ Limit \in Nat /\ active \in Nat /\ waiting \in Nat
  BY <1>1, CapacityAssumption DEF Admit, Locked, CapacityTypeOK
<1>3. /\ stage' \in [Requests -> Stages]
      /\ \A x \in Requests : stage'[x] = IF x = r THEN "held" ELSE stage[x]
  BY <1>1 DEF CapacityTypeOK
<1>4. /\ Cardinality(At(Granted)') = Cardinality(At(Granted)) - Bit("out", Granted) + Bit("held", Granted)
      /\ Cardinality(At(Waiting)') = Cardinality(At(Waiting)) - Bit("out", Waiting) + Bit("held", Waiting)
      /\ Cardinality(At({"held"})') = Cardinality(At({"held"})) - Bit("out", {"held"}) + Bit("held", {"held"})
  BY <1>1, <1>3, MoveOne
<1>5. /\ Bit("out", Granted) = 0 /\ Bit("held", Granted) = 1
      /\ Bit("out", Waiting) = 0 /\ Bit("held", Waiting) = 0
      /\ Bit("out", {"held"}) = 0 /\ Bit("held", {"held"}) = 1
  BY DEF Bit, Granted, Waiting
<1>6. /\ Cardinality(At(Granted)) \in Nat /\ Cardinality(At(Waiting)) \in Nat
      /\ Cardinality(At({"held"})) \in Nat
  BY FiniteAt
<1>7. /\ Cardinality(At(Granted)') = Cardinality(At(Granted)) + 1
      /\ Cardinality(At(Waiting)') = Cardinality(At(Waiting))
      /\ Cardinality(At({"held"})') = Cardinality(At({"held"})) + 1
  BY <1>4, <1>5, <1>6
<1>8. PermitsConserved'
  BY <1>1, <1>2, <1>6, <1>7 DEF PermitsConserved
<1>9. QueueBound'
  BY <1>1, <1>7 DEF QueueBound
<1>10. CapacityTypeOK'
  BY <1>1, <1>2, <1>3 DEF CapacityTypeOK
<1>11. At({"pending"}) = {}
  BY DEF Admit, Locked, At, Waiting
<1>12. At({"pending"})' = At({"pending"})
  BY <1>1, <1>3 DEF At
<1>13. NoIdlePermit' /\ QueueOrder'
  BY <1>1, <1>11, <1>12 DEF NoIdlePermit, QueueOrder
<1> QED
  BY <1>8, <1>9, <1>10, <1>13 DEF CapacityInv

(* A newcomer that waits: whoever it found waiting, or the permits being    *)
(* gone, means that no permit lies idle without a waiter about to run.      *)
LEMMA QueueKeepsInv ==
  ASSUME CapacityInv, NEW r \in Requests, Queue(r)
  PROVE  CapacityInv'
<1>1. /\ CapacityTypeOK /\ PermitsConserved /\ QueueBound /\ QueueOrder /\ NoIdlePermit
      /\ stage[r] = "out" /\ "pending" \in Stages /\ stage' = [stage EXCEPT ![r] = "pending"]
      /\ queue' = Append(queue, r) /\ waiting' = waiting + 1
      /\ permits' = permits /\ active' = active /\ waiting < MaxQueue
  BY CapacityAssumption DEF CapacityInv, CapacityTypeOK, Queue, Full, Stages, Waiting
<1>2. /\ permits \in Nat /\ Limit \in Nat /\ active \in Nat /\ waiting \in Nat /\ MaxQueue \in Nat
      /\ queue \in Seq(Requests)
  BY <1>1, CapacityAssumption DEF CapacityTypeOK
<1>3. /\ stage' \in [Requests -> Stages]
      /\ \A x \in Requests : stage'[x] = IF x = r THEN "pending" ELSE stage[x]
  BY <1>1 DEF CapacityTypeOK
<1>4. /\ Cardinality(At(Granted)') = Cardinality(At(Granted)) - Bit("out", Granted) + Bit("pending", Granted)
      /\ Cardinality(At(Waiting)') = Cardinality(At(Waiting)) - Bit("out", Waiting) + Bit("pending", Waiting)
      /\ Cardinality(At({"held"})') = Cardinality(At({"held"})) - Bit("out", {"held"}) + Bit("pending", {"held"})
  BY <1>1, <1>3, MoveOne
<1>5. /\ Bit("out", Granted) = 0 /\ Bit("pending", Granted) = 0
      /\ Bit("out", Waiting) = 0 /\ Bit("pending", Waiting) = 1
      /\ Bit("out", {"held"}) = 0 /\ Bit("pending", {"held"}) = 0
  BY DEF Bit, Granted, Waiting
<1>6. /\ Cardinality(At(Granted)) \in Nat /\ Cardinality(At(Waiting)) \in Nat
      /\ Cardinality(At({"held"})) \in Nat
  BY FiniteAt
<1>7. /\ Cardinality(At(Granted)') = Cardinality(At(Granted))
      /\ Cardinality(At(Waiting)') = Cardinality(At(Waiting)) + 1
      /\ Cardinality(At({"held"})') = Cardinality(At({"held"}))
  BY <1>4, <1>5, <1>6
<1>8. PermitsConserved'
  BY <1>1, <1>7 DEF PermitsConserved
<1>9. QueueBound'
  BY <1>1, <1>2, <1>7 DEF QueueBound
<1>10. CapacityTypeOK'
  BY <1>1, <1>2, <1>3 DEF CapacityTypeOK
<1>11. NoIdlePermit'
  <2> SUFFICES ASSUME permits > 0
               PROVE  At({"woken", "revoked"})' # {}
    BY <1>1 DEF NoIdlePermit
  <2>1. At(Waiting \ {"cancelled"}) # {}
    <3>1. Locked
      BY DEF Queue
    <3>2. permits # 0
      BY <1>2
    <3> QED
      BY <3>1, <3>2, Zenon DEF Locked
  <2>2. At({"woken", "revoked"}) # {}
    <3>1. CASE At({"pending"}) # {}
      BY <3>1, <1>1 DEF NoIdlePermit
    <3>2. CASE At({"pending"}) = {}
      BY <3>2, <2>1 DEF At, Waiting
    <3> QED
      BY <3>1, <3>2
  <2> QED
    BY <2>2, <1>1, <1>3 DEF At
<1>12. QueueOrder'
  <2>1. /\ Len(queue') = Len(queue) + 1 /\ Len(queue) \in Nat
        /\ queue'[Len(queue) + 1] = r
        /\ \A i \in 1..Len(queue) : queue'[i] = queue[i] /\ queue[i] # r
    BY <1>1, <1>2 DEF QueueOrder, At
  <2>2. \A i, k \in 1..Len(queue') : queue'[i] = queue'[k] => i = k
    BY <1>1, <2>1 DEF QueueOrder
  <2>3. At({"pending"})' = At({"pending"}) \cup {r}
    BY <1>3 DEF At
  <2>4. {queue'[i] : i \in 1..Len(queue')} = {queue[i] : i \in 1..Len(queue)} \cup {r}
    BY <2>1
  <2> QED
    BY <1>1, <2>2, <2>3, <2>4 DEF QueueOrder
<1> QED
  BY <1>8, <1>9, <1>10, <1>11, <1>12 DEF CapacityInv

(* The queue without r is a queue, and holds all the others once.           *)
LEMMA WithoutRemoves ==
  ASSUME CapacityTypeOK, QueueOrder, NEW r \in Requests, stage[r] = "pending"
  PROVE  LET rest == Without(r)
         IN  /\ rest \in Seq(Requests)
             /\ {rest[i] : i \in 1..Len(rest)} = At({"pending"}) \ {r}
             /\ \A i, k \in 1..Len(rest) : rest[i] = rest[k] => i = k
<1> DEFINE at == Position(r)
           rest == Without(r)
<1>1. at \in 1..Len(queue) /\ queue[at] = r
  <2>1. \E i \in 1..Len(queue) : queue[i] = r
    BY DEF QueueOrder, At
  <2> QED
    BY <2>1 DEF Position
<1>2. queue \in Seq(Requests) /\ Len(queue) \in Nat
  BY DEF CapacityTypeOK
<1>3. rest = SubSeq(queue, 1, at - 1) \o SubSeq(queue, at + 1, Len(queue))
  BY DEF Without
<1> HIDE DEF at, rest
<1>4. /\ rest \in Seq(Requests) /\ Len(rest) = Len(queue) - 1
      /\ \A i \in 1..Len(rest) : rest[i] = IF i < at THEN queue[i] ELSE queue[i + 1]
  <2> DEFINE before == SubSeq(queue, 1, at - 1)
             after == SubSeq(queue, at + 1, Len(queue))
  <2>1. /\ before \in Seq(Requests) /\ Len(before) = at - 1
        /\ \A i \in 1..Len(before) : before[i] = queue[i]
    BY <1>1, <1>2
  <2>2. /\ after \in Seq(Requests) /\ Len(after) = Len(queue) - at
        /\ \A i \in 1..Len(after) : after[i] = queue[i + at]
    BY <1>1, <1>2
  <2>3. rest = before \o after
    BY <1>3
  <2> HIDE DEF before, after
  <2>4. /\ rest \in Seq(Requests) /\ Len(rest) = Len(before) + Len(after)
        /\ \A i \in 1..Len(rest) :
              rest[i] = IF i <= Len(before) THEN before[i] ELSE after[i - Len(before)]
    <3>1. before \in Seq(Requests) /\ after \in Seq(Requests)
      BY <2>1, <2>2
    <3>2. /\ before \o after \in Seq(Requests)
          /\ Len(before \o after) = Len(before) + Len(after)
          /\ \A i \in 1..Len(before) + Len(after) : (before \o after)[i] =
                IF i <= Len(before) THEN before[i] ELSE after[i - Len(before)]
      BY <3>1, ConcatProperties, Zenon
    <3> QED
      BY <3>2, <2>3, Zenon
  <2>5. Len(rest) = Len(queue) - 1
    BY <2>1, <2>2, <2>4, <1>1, <1>2
  <2> SUFFICES ASSUME NEW i \in 1..Len(rest)
               PROVE  rest[i] = IF i < at THEN queue[i] ELSE queue[i + 1]
    BY <2>4, <2>5
  <2>6. CASE i < at
    BY <2>6, <2>1, <2>4, <1>1, <1>2
  <2>7. CASE ~(i < at)
    <3>1. i - Len(before) \in 1..Len(after) /\ (i - Len(before)) + at = i + 1
      BY <2>7, <2>1, <2>2, <2>5, <1>1, <1>2
    <3>2. ~(i <= Len(before))
      BY <2>7, <2>1, <1>1, <1>2
    <3> QED
      BY <2>7, <3>1, <3>2, <2>2, <2>4
  <2> QED
    BY <2>6, <2>7
<1>5. \A i, k \in 1..Len(rest) : rest[i] = rest[k] => i = k
  BY <1>1, <1>2, <1>4 DEF QueueOrder
<1>6. \A i \in 1..Len(rest) : rest[i] \in At({"pending"}) \ {r}
  BY <1>1, <1>2, <1>4 DEF QueueOrder
<1>7. ASSUME NEW x \in At({"pending"}) \ {r}
      PROVE  \E i \in 1..Len(rest) : rest[i] = x
  <2>1. PICK k \in 1..Len(queue) : queue[k] = x
    BY DEF QueueOrder
  <2>2. CASE k < at
    BY <2>1, <2>2, <1>1, <1>2, <1>4
  <2>3. CASE k > at
    <3>1. k - 1 \in 1..Len(rest) /\ rest[k - 1] = x
      BY <2>1, <2>3, <1>1, <1>2, <1>4
    <3> QED
      BY <3>1
  <2>4. k # at
    BY <2>1, <1>1
  <2> QED
    BY <2>2, <2>3, <2>4, <1>1, <1>2
<1>8. {rest[i] : i \in 1..Len(rest)} = At({"pending"}) \ {r}
  BY <1>6, <1>7
<1> QED
  BY <1>4, <1>5, <1>8 DEF rest

(* A cancelled waiter keeps what it was handed until it runs.               *)
LEMMA CancelKeepsInv ==
  ASSUME CapacityInv, NEW r \in Requests, Cancel(r)
  PROVE  CapacityInv'
<1>1. /\ CapacityTypeOK /\ PermitsConserved /\ QueueBound /\ QueueOrder /\ NoIdlePermit
      /\ permits' = permits /\ active' = active /\ waiting' = waiting
  BY DEF CapacityInv, Cancel
<1>2. /\ Cardinality(At(Granted)) \in Nat /\ Cardinality(At(Waiting)) \in Nat
      /\ Cardinality(At({"held"})) \in Nat
  BY FiniteAt
<1>3. ASSUME NEW s \in {"cancelled", "revoked"},
             stage[r] \in Waiting, stage[r] \in Granted <=> s \in Granted,
             stage' \in [Requests -> Stages],
             \A x \in Requests : stage'[x] = IF x = r THEN s ELSE stage[x],
             queue' \in Seq(Requests)
      PROVE  CapacityTypeOK' /\ PermitsConserved' /\ QueueBound'
  <2>1. s \in Stages
    BY DEF Stages, Waiting
  <2>2. /\ Cardinality(At(Granted)') = Cardinality(At(Granted)) - Bit(stage[r], Granted) + Bit(s, Granted)
        /\ Cardinality(At(Waiting)') = Cardinality(At(Waiting)) - Bit(stage[r], Waiting) + Bit(s, Waiting)
        /\ Cardinality(At({"held"})') = Cardinality(At({"held"})) - Bit(stage[r], {"held"}) + Bit(s, {"held"})
    BY <1>1, <1>3, <2>1, MoveOne
  <2>3. /\ Bit(stage[r], Granted) = Bit(s, Granted) /\ Bit(s, Granted) \in {0, 1}
        /\ Bit(stage[r], Waiting) = 1 /\ Bit(s, Waiting) = 1
        /\ Bit(stage[r], {"held"}) = 0 /\ Bit(s, {"held"}) = 0
    BY <1>3 DEF Bit, Waiting
  <2>4. /\ Cardinality(At(Granted)') = Cardinality(At(Granted))
        /\ Cardinality(At(Waiting)') = Cardinality(At(Waiting))
        /\ Cardinality(At({"held"})') = Cardinality(At({"held"}))
    BY <2>2, <2>3, <1>2
  <2>5. PermitsConserved'
    BY <1>1, <2>4 DEF PermitsConserved
  <2>6. QueueBound'
    BY <1>1, <2>4 DEF QueueBound
  <2>7. CapacityTypeOK'
    BY <1>1, <1>3 DEF CapacityTypeOK
  <2> QED
    BY <2>5, <2>6, <2>7
<1>4. CASE stage[r] = "pending"
  <2>1. stage' = [stage EXCEPT ![r] = "cancelled"] /\ queue' = Without(r)
    BY <1>4 DEF Cancel
  <2>2. /\ stage' \in [Requests -> Stages]
        /\ \A x \in Requests : stage'[x] = IF x = r THEN "cancelled" ELSE stage[x]
    BY <2>1, <1>1 DEF CapacityTypeOK, Stages, Waiting
  <2>3. /\ queue' \in Seq(Requests)
        /\ {queue'[i] : i \in 1..Len(queue')} = At({"pending"}) \ {r}
        /\ \A i, k \in 1..Len(queue') : queue'[i] = queue'[k] => i = k
    BY <2>1, <1>1, <1>4, WithoutRemoves
  <2>4. CapacityTypeOK' /\ PermitsConserved' /\ QueueBound'
    <3>1. /\ stage[r] \in Waiting
          /\ stage[r] \in Granted <=> "cancelled" \in Granted
      BY <1>4 DEF Waiting, Granted
    <3> QED
      BY <3>1, <2>2, <2>3, <1>3
  <2>5. At({"pending"})' = At({"pending"}) \ {r}
    BY <2>2 DEF At
  <2>6. At({"woken", "revoked"})' = At({"woken", "revoked"})
    BY <2>2, <1>4 DEF At
  <2>7. QueueOrder'
    BY <2>3, <2>5 DEF QueueOrder
  <2>8. NoIdlePermit'
    BY <1>1, <2>5, <2>6 DEF NoIdlePermit
  <2> QED
    BY <2>4, <2>7, <2>8 DEF CapacityInv
<1>5. CASE stage[r] = "woken"
  <2>1. stage' = [stage EXCEPT ![r] = "revoked"] /\ queue' = queue
    BY <1>5 DEF Cancel
  <2>2. /\ stage' \in [Requests -> Stages]
        /\ \A x \in Requests : stage'[x] = IF x = r THEN "revoked" ELSE stage[x]
    BY <2>1, <1>1 DEF CapacityTypeOK, Stages, Waiting
  <2>3. CapacityTypeOK' /\ PermitsConserved' /\ QueueBound'
    <3>1. /\ stage[r] \in Waiting /\ queue' \in Seq(Requests)
          /\ stage[r] \in Granted <=> "revoked" \in Granted
      BY <1>1, <1>5, <2>1 DEF Waiting, Granted, CapacityTypeOK
    <3> QED
      BY <3>1, <2>2, <1>3
  <2>4. At({"pending"})' = At({"pending"})
    BY <2>2, <1>5 DEF At
  <2>5. At({"woken", "revoked"})' = At({"woken", "revoked"})
    BY <2>2, <1>5 DEF At
  <2>6. QueueOrder'
    BY <2>1, <2>4, <1>1 DEF QueueOrder
  <2>7. NoIdlePermit'
    BY <1>1, <2>4, <2>5 DEF NoIdlePermit
  <2> QED
    BY <2>3, <2>6, <2>7 DEF CapacityInv
<1> QED
  BY <1>4, <1>5 DEF Cancel

-----------------------------------------------------------------------------
(* The end of acquire: as many waiters are woken as there are permits.      *)
LEMMA AcquireEndsKeepsInv ==
  ASSUME CapacityInv, NEW r \in Requests, stage[r] \in {"woken", "revoked", "cancelled"},
         NEW s \in {"out", "held"}, NEW p \in Nat, AcquireEnds(r, s, p),
         p = permits + Bit(stage[r], Granted) - Bit(s, Granted),
         waiting' = waiting - 1,
         active' = active + Bit(s, {"held"})
  PROVE  CapacityInv'
<1>1. /\ Wakes(p) \in 0..Len(queue) /\ Wakes(p) <= p
      /\ Wakes(p) = p \/ Wakes(p) = Len(queue)
      /\ HandOn(r, s, p, Wakes(p))
  BY DEF Wakes, Least, AcquireEnds, CapacityInv, CapacityTypeOK
<1>2. Bit(stage[r], Waiting) = 1 /\ Bit(stage[r], {"held"}) = 0 /\ Bit(s, {"held"}) \in Nat
  BY DEF Bit, Waiting
<1>3. active' = active - Bit(stage[r], {"held"}) + Bit(s, {"held"})
  BY <1>2 DEF CapacityInv, CapacityTypeOK
<1> QED
  BY <1>1, <1>2, <1>3, HandOnKeepsInv

(* A body that ends: the first waiter, if any, is woken.                    *)
LEMMA LeaveKeepsInv ==
  ASSUME CapacityInv, NEW r \in Requests, Leave(r)
  PROVE  CapacityInv'
<1>1. stage[r] = "held" /\ permits \in Nat /\ active \in Nat /\ waiting \in Nat /\ Len(queue) \in Nat
  BY DEF Leave, CapacityInv, CapacityTypeOK
<1> DEFINE n == Least(1, Len(queue))
<1>2. /\ HandOn(r, "out", permits + 1, n) /\ n \in 0..Len(queue) /\ n <= permits + 1
      /\ n = Len(queue) \/ n > 0
  BY <1>1 DEF Leave, Release, Least
<1>3. /\ Bit(stage[r], Granted) = 1 /\ Bit("out", Granted) = 0
      /\ Bit(stage[r], Waiting) = 0
      /\ Bit(stage[r], {"held"}) = 1 /\ Bit("out", {"held"}) = 0
  BY <1>1 DEF Bit, Granted, Waiting
<1>4. /\ permits + 1 \in Nat
      /\ permits + 1 = permits + Bit(stage[r], Granted) - Bit("out", Granted)
  BY <1>1, <1>3
<1>5. /\ waiting' = waiting - Bit(stage[r], Waiting)
      /\ active' = active - Bit(stage[r], {"held"}) + Bit("out", {"held"})
  BY <1>1, <1>3 DEF Leave
<1> HIDE DEF n
<1> QED
  BY <1>1, <1>2, <1>4, <1>5, HandOnKeepsInv

(* A waiter that runs: with its slot, too late for it, or cancelled.        *)
LEMMA WaiterRunsKeepsInv ==
  ASSUME CapacityInv, NEW r \in Requests, Resume(r) \/ ResumeLate(r) \/ Unwind(r)
  PROVE  CapacityInv'
<1>1. permits \in Nat /\ active \in Nat /\ permits + 1 \in Nat
  BY DEF CapacityInv, CapacityTypeOK
<1>2. /\ Bit("woken", Granted) = 1 /\ Bit("revoked", Granted) = 1 /\ Bit("cancelled", Granted) = 0
      /\ Bit("held", Granted) = 1 /\ Bit("out", Granted) = 0
      /\ Bit("held", {"held"}) = 1 /\ Bit("out", {"held"}) = 0
  BY DEF Bit, Granted
<1>3. CASE Resume(r)
  <2>1. /\ stage[r] = "woken" /\ AcquireEnds(r, "held", permits)
        /\ waiting' = waiting - 1 /\ active' = active + Bit("held", {"held"})
        /\ permits = permits + Bit(stage[r], Granted) - Bit("held", Granted)
    BY <1>1, <1>2, <1>3 DEF Resume
  <2> QED
    BY <1>1, <2>1, AcquireEndsKeepsInv
<1>4. ASSUME stage[r] \in {"woken", "revoked"}, AcquireEnds(r, "out", permits + 1),
             waiting' = waiting - 1, active' = active
      PROVE  CapacityInv'
  <2>1. /\ active' = active + Bit("out", {"held"})
        /\ permits + 1 = permits + Bit(stage[r], Granted) - Bit("out", Granted)
    BY <1>1, <1>2, <1>4
  <2> QED
    BY <1>1, <1>4, <2>1, AcquireEndsKeepsInv
<1>5. CASE ResumeLate(r)
  BY <1>4, <1>5 DEF ResumeLate
<1>6. CASE Unwind(r) /\ stage[r] = "revoked"
  BY <1>4, <1>6 DEF Unwind
<1>7. CASE Unwind(r) /\ stage[r] = "cancelled"
  <2>1. /\ AcquireEnds(r, "out", permits)
        /\ waiting' = waiting - 1 /\ active' = active + Bit("out", {"held"})
        /\ permits = permits + Bit(stage[r], Granted) - Bit("out", Granted)
    BY <1>1, <1>2, <1>7 DEF Unwind
  <2> QED
    BY <1>1, <1>7, <2>1, AcquireEndsKeepsInv
<1> QED
  BY <1>3, <1>5, <1>6, <1>7 DEF Unwind

(* No slot is taken at first.                                               *)
LEMMA InitInv == CapacityInit => CapacityInv
<1> SUFFICES ASSUME CapacityInit PROVE CapacityInv
  OBVIOUS
<1>1. /\ At(Granted) = {} /\ At(Waiting) = {} /\ At({"held"}) = {} /\ At({"pending"}) = {}
  BY DEF CapacityInit, At, Granted, Waiting
<1>2. /\ Cardinality(At(Granted)) = 0 /\ Cardinality(At(Waiting)) = 0
      /\ Cardinality(At({"held"})) = 0
  <2>1. Cardinality({}) = 0
    BY FS_EmptySet
  <2> QED
    BY <1>1, <2>1, Zenon
<1>3. CapacityTypeOK
  BY CapacityAssumption DEF CapacityInit, CapacityTypeOK, Stages
<1>4. PermitsConserved /\ QueueBound
  BY <1>2, CapacityAssumption DEF CapacityInit, PermitsConserved, QueueBound
<1>5. NoIdlePermit /\ QueueOrder
  BY <1>1 DEF CapacityInit, NoIdlePermit, QueueOrder
<1> QED
  BY <1>3, <1>4, <1>5 DEF CapacityInv

(* Every step of every request keeps the invariant.                         *)
LEMMA StepInv == CapacityInv /\ [CapacityNext]_capacityVars => CapacityInv'
<1> SUFFICES ASSUME CapacityInv, [CapacityNext]_capacityVars PROVE CapacityInv'
  OBVIOUS
<1>1. CASE UNCHANGED capacityVars
  BY <1>1 DEF capacityVars, CapacityInv, CapacityTypeOK, PermitsConserved, QueueBound,
              NoIdlePermit, QueueOrder, At
<1>2. ASSUME NEW r \in Requests, Step(r)
      PROVE  CapacityInv'
  <2>1. CASE Refuse(r)
    BY <2>1, <1>1 DEF Refuse
  <2>2. CASE Admit(r)
    BY <2>2, AdmitKeepsInv
  <2>3. CASE Queue(r)
    BY <2>3, QueueKeepsInv
  <2>4. CASE Resume(r) \/ ResumeLate(r) \/ Unwind(r)
    BY <2>4, WaiterRunsKeepsInv
  <2>5. CASE Cancel(r)
    BY <2>5, CancelKeepsInv
  <2>6. CASE Leave(r)
    BY <2>6, LeaveKeepsInv
  <2> QED
    BY <1>2, <2>1, <2>2, <2>3, <2>4, <2>5, <2>6 DEF Step
<1> QED
  BY <1>1, <1>2 DEF CapacityNext

-----------------------------------------------------------------------------
(* The admission control of capacity.py keeps all its promises, whatever    *)
(* the limits and however many requests compete.                            *)
THEOREM CapacityInvariant == CapacitySpec => []CapacityInv
<1> QED
  BY InitInv, StepInv, PTL DEF CapacitySpec

(* The counters and the semaphore stay in their ranges.                     *)
THEOREM CapacityTypes == CapacitySpec => []CapacityTypeOK
<1>1. CapacityInv => CapacityTypeOK
  BY DEF CapacityInv
<1> QED
  BY <1>1, CapacityInvariant, PTL

(* slot never loses a permit and never lets in more than the limit.         *)
THEOREM PermitsAreConserved == CapacitySpec => []PermitsConserved
<1>1. CapacityInv => PermitsConserved
  BY DEF CapacityInv
<1> QED
  BY <1>1, CapacityInvariant, PTL

(* slot never lets more than MAX_QUEUE_SIZE requests wait.                  *)
THEOREM QueueIsBounded == CapacitySpec => []QueueBound
<1>1. CapacityInv => QueueBound
  BY DEF CapacityInv
<1> QED
  BY <1>1, CapacityInvariant, PTL

(* No wake-up is lost, whichever waiter is cancelled in which moment.       *)
THEOREM NoPermitLiesIdle == CapacitySpec => []NoIdlePermit
<1>1. CapacityInv => NoIdlePermit
  BY DEF CapacityInv
<1> QED
  BY <1>1, CapacityInvariant, PTL

(* The queue holds each request that waits for a permit once, and no other. *)
THEOREM QueueIsOrdered == CapacitySpec => []QueueOrder
<1>1. CapacityInv => QueueOrder
  BY DEF CapacityInv
<1> QED
  BY <1>1, CapacityInvariant, PTL

-----------------------------------------------------------------------------
(* The crawl.                                                               *)
Strikes == {"no", "inner", "queue", "outer", "outside"}
Private == {"outer", "outside"}     \* cancellations, which are not shared
Resolved == {"ok", "failed", "cancelled"}

-----------------------------------------------------------------------------
LeadTypes ==
    /\ pc \in [Requests -> Awaiting \cup Answers \cup {"new"}]
    /\ forced \in [Requests -> BOOLEAN]
    /\ leader \in [Requests -> Known]
    /\ outcome \in [Requests -> Resolved \cup {"none", "pending"}]
    /\ inflight \in Known
    /\ stop \in [Requests -> Strikes]

(* A future is pending while its request leads, and resolved when it has    *)
(* answered; what it holds tells what struck the request.                   *)
FutureKnown(r) ==
    /\ outcome[r] = "pending" <=> pc[r] \in Leading
    /\ outcome[r] \in Resolved => pc[r] \in Answers
    /\ pc[r] = "new" \/ outcome[r] = "ok" => stop[r] = "no"
    /\ outcome[r] = "failed" => stop[r] \notin Private
    /\ outcome[r] = "cancelled" => stop[r] \in Private

(* A request that is not forced leads only as the one others join, and a    *)
(* follower follows somebody who has led.                                   *)
RoleKnown(r) ==
    /\ pc[r] \in Leading /\ ~forced[r] => inflight = r
    /\ pc[r] = "follow" => leader[r] # Nobody /\ outcome[leader[r]] # "none"

LeadInv ==
    /\ LeadTypes
    /\ \A r \in Requests : FutureKnown(r) /\ RoleKnown(r)
    /\ inflight # Nobody => pc[inflight] \in Leading

LEMMA LeadInitInv == CrawlInit => LeadInv
  BY CrawlAssumption DEF CrawlInit, LeadInv, LeadTypes, FutureKnown, RoleKnown, Known, Strikes,
     Leading, Awaiting, Reading, Resolved

(* A step of one request leaves the others' futures and roles alone.        *)
OnlyMoves(r) ==
    /\ forced' = forced
    /\ \A q \in Requests \ {r} :
         pc'[q] = pc[q] /\ outcome'[q] = outcome[q] /\ stop'[q] = stop[q] /\ leader'[q] = leader[q]
    /\ outcome[r] # "none" => outcome'[r] # "none"
    /\ \/ inflight' = inflight
       \/ inflight = Nobody /\ inflight' = r
       \/ inflight = r /\ inflight' = Nobody

LEMMA MoveKeepsLead ==
  ASSUME LeadInv, NEW r \in Requests, OnlyMoves(r),
         LeadTypes', FutureKnown(r)', RoleKnown(r)', inflight' = r => pc'[r] \in Leading
  PROVE  LeadInv'
<1>1. ASSUME NEW q \in Requests \ {r}
      PROVE  FutureKnown(q)' /\ RoleKnown(q)'
  <2>1. FutureKnown(q)'
    BY DEF OnlyMoves, LeadInv, FutureKnown
  <2>2. pc[q] = "follow" => leader[q] \in Requests /\ outcome[leader[q]] # "none"
    BY DEF LeadInv, RoleKnown, LeadTypes, Known
  <2>3. pc'[q] = "follow" => leader'[q] # Nobody /\ outcome'[leader'[q]] # "none"
    BY <2>2, CrawlAssumption DEF OnlyMoves
  <2>4. pc'[q] \in Leading /\ ~forced'[q] => inflight' = q
    BY CrawlAssumption DEF OnlyMoves, LeadInv, RoleKnown
  <2> QED
    BY <2>1, <2>3, <2>4 DEF RoleKnown
<1>2. inflight' # Nobody => pc'[inflight'] \in Leading
  <2>1. ASSUME inflight' # Nobody, inflight' # r
        PROVE  pc'[inflight'] \in Leading
    <3>1. inflight' = inflight /\ inflight \in Requests \ {r} /\ pc[inflight] \in Leading
      BY <2>1 DEF OnlyMoves, LeadInv, LeadTypes, Known
    <3> QED
      BY <3>1 DEF OnlyMoves
  <2> QED
    BY <2>1
<1> QED
  BY <1>1, <1>2 DEF LeadInv

(* Request r goes to a place, with what its future, its role and what       *)
(* struck it come to.                                                       *)
Lands(r, where, result, whom, struck) ==
    /\ where \in Awaiting \cup Answers /\ pc' = [pc EXCEPT ![r] = where]
    /\ result \in Resolved \cup {"none", "pending"} /\ outcome' = [outcome EXCEPT ![r] = result]
    /\ whom \in Known /\ leader' = [leader EXCEPT ![r] = whom]
    /\ struck \in Strikes /\ stop' = [stop EXCEPT ![r] = struck]

LEMMA LandingKeepsLead ==
  ASSUME LeadInv, NEW r \in Requests, forced' = forced,
         NEW where, NEW result, NEW whom, NEW struck, Lands(r, where, result, whom, struck),
         result = "pending" <=> where \in Leading,
         result \in Resolved => where \in Answers,
         result = "ok" => struck = "no",
         result = "failed" => struck \notin Private,
         result = "cancelled" => struck \in Private,
         where = "follow" => whom \in Requests \ {r} /\ outcome[whom] # "none",
         outcome[r] # "none" => result # "none",
         \/ inflight' = inflight /\ inflight # r /\ (where \in Leading => forced[r])
         \/ inflight' = inflight /\ where \in Leading /\ (forced[r] \/ inflight = r)
         \/ inflight = Nobody /\ inflight' = r /\ where \in Leading
         \/ inflight = r /\ inflight' = Nobody /\ where \notin Leading
  PROVE  LeadInv'
<1>1. LeadTypes'
  BY CrawlAssumption DEF LeadInv, LeadTypes, Lands, Known
<1>2. FutureKnown(r)'
  BY DEF LeadInv, LeadTypes, Lands, FutureKnown, Awaiting, Answers, Reading, Leading
<1>3. RoleKnown(r)'
  BY CrawlAssumption DEF LeadInv, LeadTypes, Lands, RoleKnown, Awaiting, Answers, Reading, Leading
<1>4. OnlyMoves(r) /\ (inflight' = r => pc'[r] \in Leading)
  BY CrawlAssumption DEF LeadInv, LeadTypes, Lands, OnlyMoves
<1> QED
  BY <1>1, <1>2, <1>3, <1>4, MoveKeepsLead

LEMMA LookedKeepsLead ==
  ASSUME LeadInv, NEW r \in Requests, Looked(r)
  PROVE  LeadInv'
<1>1. /\ LeadTypes /\ stop[r] = "no" /\ pc[r] = "look"
      /\ outcome[r] = "none" /\ inflight # r /\ UNCHANGED <<forced, stop>>
  BY CrawlAssumption DEF LeadInv, LeadTypes, FutureKnown, Looked, Turn, Leading, Answers, Known
<1>2. ASSUME NEW where \in {"error", "cached"}, Goes(r, where), UNCHANGED futureVars
      PROVE  LeadInv'
  <2>1. Lands(r, where, "none", leader[r], "no")
    BY <1>1, <1>2 DEF Goes, futureVars, Lands, LeadTypes, Answers, Strikes
  <2> QED
    BY <1>1, <1>2, <2>1, LandingKeepsLead DEF futureVars, Answers, Leading, Resolved
<1>3. CASE inflight # Nobody /\ Goes(r, "follow") /\ leader' = [leader EXCEPT ![r] = inflight]
           /\ UNCHANGED <<outcome, inflight>>
  <2>1. Lands(r, "follow", "none", inflight, "no")
    BY <1>1, <1>3 DEF Goes, Lands, LeadTypes, Awaiting, Strikes
  <2>2. inflight \in Requests \ {r} /\ outcome[inflight] # "none"
    BY <1>1, <1>3 DEF LeadInv, LeadTypes, FutureKnown, Known
  <2> QED
    BY <1>1, <1>3, <2>1, <2>2, LandingKeepsLead DEF Answers, Leading, Resolved
<1>4. CASE inflight = Nobody /\ Goes(r, "stale") /\ BecomesLeader(r) /\ UNCHANGED leader
  <2>1. Lands(r, "stale", "pending", leader[r], "no")
    BY <1>1, <1>4 DEF Goes, BecomesLeader, Lands, LeadTypes, Awaiting, Reading, Strikes
  <2> QED
    BY <1>1, <1>4, <2>1, LandingKeepsLead DEF BecomesLeader, Answers, Leading, Resolved
<1> QED
  BY <1>2, <1>3, <1>4 DEF Looked

LEMMA StartKeepsLead ==
  ASSUME LeadInv, NEW r \in Requests, Start(r)
  PROVE  LeadInv'
<1>1. /\ LeadTypes /\ stop[r] = "no" /\ pc[r] = "new"
      /\ outcome[r] = "none" /\ inflight # r /\ UNCHANGED <<forced, stop, futureVars>>
  BY CrawlAssumption DEF LeadInv, LeadTypes, FutureKnown, Start, Leading, Answers, Known
<1>2. Lands(r, "look", "none", leader[r], "no")
  BY <1>1 DEF Start, Goes, futureVars, Lands, LeadTypes, Awaiting, Reading, Strikes
<1> QED
  BY <1>1, <1>2, LandingKeepsLead DEF futureVars, Leading, Resolved

LEMMA StartForcedKeepsLead ==
  ASSUME LeadInv, NEW r \in Requests, StartForced(r)
  PROVE  LeadInv'
<1>1. /\ LeadTypes /\ stop[r] = "no" /\ pc[r] = "new" /\ forced[r]
      /\ outcome[r] = "none" /\ inflight # r /\ UNCHANGED <<forced, stop, leader>>
  BY CrawlAssumption DEF LeadInv, LeadTypes, FutureKnown, StartForced, Leading, Answers, Known
<1>2. ASSUME NEW where \in {"work", "slot"}, Goes(r, where), BecomesLeader(r)
      PROVE  LeadInv'
  <2>1. Lands(r, where, "pending", leader[r], "no")
    BY <1>1, <1>2 DEF Goes, BecomesLeader, Lands, LeadTypes, Awaiting, Leading, Strikes
  <2> QED
    BY <1>1, <1>2, <2>1, LandingKeepsLead DEF BecomesLeader, Answers, Leading, Resolved
<1>3. CASE Goes(r, "error") /\ outcome' = [outcome EXCEPT ![r] = "failed"] /\ UNCHANGED inflight
  <2>1. Lands(r, "error", "failed", leader[r], "no")
    BY <1>1, <1>3 DEF Goes, Lands, LeadTypes, Answers, Resolved, Strikes
  <2> QED
    BY <1>1, <1>3, <2>1, LandingKeepsLead DEF Answers, Leading, Resolved, Private
<1> QED
  BY <1>2, <1>3 DEF StartForced

LEMMA JoinedKeepsLead ==
  ASSUME LeadInv, NEW r \in Requests, Joined(r)
  PROVE  LeadInv'
<1>1. /\ LeadTypes /\ stop[r] = "no" /\ pc[r] = "follow"
      /\ outcome[r] = "none" /\ inflight # r /\ UNCHANGED <<forced, stop, outcome, inflight>>
  BY CrawlAssumption DEF LeadInv, LeadTypes, FutureKnown, Joined, Leading, Answers, Known
<1>2. ASSUME NEW where \in {"coalesced", "error", "look"}, Goes(r, where)
      PROVE  LeadInv'
  <2>1. Lands(r, where, "none", Nobody, "no")
    BY <1>1, <1>2 DEF Joined, Goes, Lands, LeadTypes, Awaiting, Reading, Answers, Known, Strikes
  <2> QED
    BY <1>1, <1>2, <2>1, LandingKeepsLead DEF Answers, Leading, Resolved
<1> QED
  BY <1>2 DEF Joined

(* A leader that goes on leading.                                           *)
LEMMA StaysLeading ==
  ASSUME LeadInv, NEW r \in Requests, pc[r] \in Leading, NEW where \in Leading, Goes(r, where),
         UNCHANGED <<forced, futureVars, stop>>
  PROVE  LeadInv'
<1>1. LeadTypes /\ outcome[r] = "pending" /\ (forced[r] \/ inflight = r)
  BY DEF LeadInv, LeadTypes, FutureKnown, RoleKnown
<1>2. Lands(r, where, "pending", leader[r], stop[r])
  BY <1>1 DEF Goes, Lands, LeadTypes, Awaiting, futureVars
<1> QED
  BY <1>1, <1>2, LandingKeepsLead DEF futureVars, Resolved, Leading

(* A leader that answers: its future is resolved.                           *)
LEMMA ResolvingKeepsLead ==
  ASSUME LeadInv, NEW r \in Requests, pc[r] \in Leading, NEW where \in Answers, Goes(r, where),
         forced' = forced, NEW whom \in Known, leader' = [leader EXCEPT ![r] = whom],
         NEW struck \in Strikes, stop' = [stop EXCEPT ![r] = struck],
         NEW result \in Resolved, Resolves(r, result),
         result = "ok" => struck = "no",
         result = "failed" => struck \notin Private,
         result = "cancelled" => struck \in Private
  PROVE  LeadInv'
<1>1. outcome' = [outcome EXCEPT ![r] = result] /\ inflight' = IF inflight = r THEN Nobody ELSE inflight
  BY DEF Resolves, FutureOf, Owns
<1>2. Lands(r, where, result, whom, struck)
  BY <1>1 DEF Goes, Lands
<1> QED
  BY <1>1, <1>2, LandingKeepsLead DEF Answers, Leading, Resolved

(* The awaits of a leader that is not struck: it goes on or answers.        *)
LEMMA LeaderStepKeepsLead ==
  ASSUME LeadInv, NEW r \in Requests,
         \/ StaleLooked(r) \/ SlotGranted(r) \/ SlotTooLate(r)
         \/ Extracted(r) \/ Stored(r) \/ StaleStored(r)
  PROVE  LeadInv'
<1>1. /\ LeadTypes /\ pc[r] \in Leading /\ stop[r] = "no" /\ UNCHANGED <<forced, leader>>
      /\ leader' = [leader EXCEPT ![r] = leader[r]] /\ leader[r] \in Known
  <2>1. pc[r] \in Leading /\ stop[r] = "no" /\ UNCHANGED <<forced, leader>>
    BY DEF StaleLooked, SlotGranted, SlotTooLate, Extracted, Stored, StaleStored, Turn, Leading, futureVars
  <2> QED
    BY <2>1 DEF LeadInv, LeadTypes
<1>2. ASSUME NEW where \in Leading, Goes(r, where), UNCHANGED <<outcome, inflight, stop>>
      PROVE  LeadInv'
  BY <1>1, <1>2, StaysLeading DEF futureVars
<1>3. ASSUME NEW where \in Answers, Goes(r, where), NEW struck \in {"no", "inner"},
             stop' = [stop EXCEPT ![r] = struck],
             NEW result \in {"ok", "failed"}, Resolves(r, result), result = "ok" => struck = "no"
      PROVE  LeadInv'
  BY <1>1, <1>3, ResolvingKeepsLead DEF Strikes, Resolved, Private
<1>4. "error" \in Answers /\ "own" \in Answers /\ {"slot", "work", "set", "setstale"} \subseteq Leading
  BY DEF Answers, Leading
<1>5. stop' = stop => stop' = [stop EXCEPT ![r] = "no"]
  BY <1>1 DEF LeadTypes
<1>6. CASE StaleLooked(r)
  BY <1>2, <1>3, <1>4, <1>5, <1>6 DEF StaleLooked
<1>7. CASE SlotGranted(r)
  BY <1>2, <1>4, <1>7 DEF SlotGranted, futureVars
<1>8. CASE SlotTooLate(r)
  BY <1>3, <1>4, <1>8 DEF SlotTooLate
<1>9. CASE Extracted(r)
  BY <1>2, <1>3, <1>4, <1>5, <1>9 DEF Extracted
<1>10. CASE Stored(r)
  BY <1>2, <1>3, <1>4, <1>5, <1>10 DEF Stored
<1>11. CASE StaleStored(r)
  BY <1>3, <1>4, <1>5, <1>11 DEF StaleStored
<1> QED
  BY <1>6, <1>7, <1>8, <1>9, <1>10, <1>11

(* Whom a timer strikes has not answered yet.                               *)
LEMMA StrikeKeepsLead ==
  ASSUME LeadInv, NEW r \in Requests, NEW what \in Strikes \ {"no"}, Strike(r, what)
  PROVE  LeadInv'
<1>1. /\ LeadTypes /\ FutureKnown(r) /\ RoleKnown(r) /\ pc[r] \in Awaiting
      /\ stop' = [stop EXCEPT ![r] = what] /\ UNCHANGED <<pc, forced, outcome, leader, inflight>>
  BY DEF LeadInv, Strike, CanStrike, futureVars
<1>2. LeadTypes' /\ OnlyMoves(r) /\ (inflight' = r => pc'[r] \in Leading)
  BY <1>1, CrawlAssumption DEF LeadInv, LeadTypes, OnlyMoves, Known
<1>3. pc[r] \notin Answers /\ pc[r] # "new"
  BY <1>1 DEF Awaiting, Answers, Reading, Leading
<1>4. FutureKnown(r)' /\ RoleKnown(r)'
  BY <1>1, <1>3 DEF FutureKnown, RoleKnown, Resolved
<1> QED
  BY <1>2, <1>4, MoveKeepsLead

LEMMA UnwindsKeepsLead ==
  ASSUME LeadInv, NEW r \in Requests, Unwinds(r)
  PROVE  LeadInv'
<1> DEFINE where == IF stop[r] = "outside" THEN "gone" ELSE "error"
<1>1. /\ LeadTypes /\ pc[r] \in Awaiting /\ stop[r] \in Strikes \ {"no"} /\ Goes(r, where)
      /\ UNCHANGED <<forced, stop>> /\ stop' = [stop EXCEPT ![r] = stop[r]]
      /\ leader' = [leader EXCEPT ![r] = Nobody] /\ Nobody \in Known
  BY DEF LeadInv, LeadTypes, Unwinds, Strikes, Known
<1>2. where \in Answers /\ where \notin Leading
  BY DEF Answers, Leading
<1>3. CASE pc[r] \in Leading
  <2>1. Resolves(r, Verdict(r))
    BY <1>3 DEF Unwinds
  <2>2. /\ Verdict(r) \in {"failed", "cancelled"}
        /\ Verdict(r) = "failed" => stop[r] \notin Private
        /\ Verdict(r) = "cancelled" => stop[r] \in Private
    BY <1>1 DEF Verdict, Strikes, Private
  <2> HIDE DEF where
  <2> QED
    BY <1>1, <1>2, <1>3, <2>1, <2>2, ResolvingKeepsLead DEF Resolved
<1>4. CASE pc[r] \notin Leading
  <2>1. UNCHANGED <<outcome, inflight>> /\ outcome[r] = "none" /\ inflight # r
    <3>1. pc[r] \notin Answers
      BY <1>1 DEF Awaiting, Answers, Reading, Leading
    <3> QED
      BY <1>1, <1>4, <3>1, CrawlAssumption DEF Unwinds, LeadInv, LeadTypes, FutureKnown, Known
  <2>2. Lands(r, where, "none", Nobody, stop[r])
    BY <1>1, <1>2, <2>1 DEF Goes, Lands, LeadTypes
  <2> HIDE DEF where
  <2> QED
    BY <1>1, <1>2, <2>1, <2>2, LandingKeepsLead DEF Answers, Resolved
<1> QED
  BY <1>3, <1>4

(* Steps that leave requests and futures alone.                             *)
LEMMA LeadUnchanged ==
  ASSUME LeadInv, UNCHANGED <<pc, forced, futureVars, stop>>
  PROVE  LeadInv'
  BY DEF LeadInv, LeadTypes, FutureKnown, RoleKnown, futureVars

LEMMA LeadStepInv == LeadInv /\ [CrawlNext]_vars => LeadInv'
<1> SUFFICES ASSUME LeadInv, [CrawlNext]_vars PROVE LeadInv'
  OBVIOUS
<1>1. ASSUME NEW r \in Requests, Start(r) \/ StartForced(r)
      PROVE  LeadInv'
  BY <1>1, StartKeepsLead, StartForcedKeepsLead
<1>2. ASSUME NEW r \in Requests, LoopStep(r)
      PROVE  LeadInv'
  BY <1>2, LookedKeepsLead, JoinedKeepsLead, LeaderStepKeepsLead, UnwindsKeepsLead DEF LoopStep
<1>3. ASSUME NEW r \in Requests, NEW what \in {"inner", "queue", "outer", "outside"}, Strike(r, what)
      PROVE  LeadInv'
  BY <1>3, StrikeKeepsLead DEF Strikes
<1>4. CASE ThreadRuns \/ ThreadFails \/ CacheExpires \/ UNCHANGED vars
  BY <1>4, LeadUnchanged DEF ThreadRuns, ThreadFails, Called, CacheExpires, vars, crawlVars, futureVars
<1> QED
  BY <1>1, <1>2, <1>3, <1>4 DEF CrawlNext

-----------------------------------------------------------------------------
LEMMA LeadAlways == CrawlSpec => []LeadInv
  BY LeadInitInv, LeadStepInv, PTL DEF CrawlSpec

(* Requests that are not forced share one extraction in CrawlService, for   *)
(* they lead only as the one in inflight.                                   *)
THEOREM OneFetchAtATime == CrawlSpec => []OneFetch
<1>1. LeadInv => OneFetch
  <2> SUFFICES ASSUME LeadInv PROVE OneFetch
    OBVIOUS
  <2> DEFINE S == {r \in Requests : ~forced[r] /\ pc[r] \in Leading}
  <2>1. S \subseteq {inflight}
    BY DEF LeadInv, RoleKnown
  <2>2. IsFiniteSet({inflight}) /\ Cardinality({inflight}) = 1
    BY FS_Singleton
  <2>3. Cardinality(S) <= 1
    BY <2>1, <2>2, FS_Subset
  <2> QED
    BY <2>3 DEF OneFetch
<1> QED
  BY <1>1, LeadAlways, PTL

(* A future that requests of CrawlService join or follow is resolved or     *)
(* going to be, by a leader that is at work.                                *)
THEOREM FuturesAreAlive == CrawlSpec => []FutureAlive
<1>1. LeadInv => FutureAlive
  BY DEF LeadInv, LeadTypes, FutureKnown, RoleKnown, Known, Resolved, FutureAlive
<1> QED
  BY <1>1, LeadAlways, PTL

(* _joined raises a leader's failure and never its cancellation.            *)
THEOREM CancellationsStayPrivate == CrawlSpec => CancelStaysPrivate
<1>1. LeadInv /\ [CrawlNext]_vars =>
        [\A r \in Requests :
           /\ Joined(r) /\ pc'[r] = "error" => stop[leader[r]] \notin {"outer", "outside"}
           /\ Joined(r) /\ pc'[r] = "look" => stop[leader[r]] \in {"outer", "outside"}]_vars
  <2> SUFFICES ASSUME LeadInv, NEW r \in Requests, Joined(r)
               PROVE  /\ pc'[r] = "error" => stop[leader[r]] \notin Private
                      /\ pc'[r] = "look" => stop[leader[r]] \in Private
    BY DEF Private
  <2>1. LeadTypes /\ pc[r] = "follow" /\ leader[r] \in Requests /\ FutureKnown(leader[r])
    BY DEF LeadInv, LeadTypes, RoleKnown, Joined, Known
  <2>2. /\ pc'[r] = "error" => outcome[leader[r]] = "failed"
        /\ pc'[r] = "look" => outcome[leader[r]] = "cancelled"
    BY <2>1 DEF Joined, Goes, LeadTypes
  <2> QED
    BY <2>1, <2>2 DEF FutureKnown
<1> QED
  BY <1>1, LeadAlways, PTL DEF CrawlSpec, CancelStaysPrivate

-----------------------------------------------------------------------------
(* Every step of a crawl is a step of admission or leaves it alone, so what *)
(* CapacityProofs shows holds of the crawls as well.                        *)
LEMMA CrawlStepAdmits == [CrawlNext]_vars => [CapacityNext]_capacityVars
<1> SUFFICES ASSUME [CrawlNext]_vars PROVE CapacityNext \/ UNCHANGED capacityVars
  OBVIOUS
<1>1. ASSUME NEW r \in Requests, Start(r) \/ Looked(r) \/ Joined(r) \/ Stored(r) \/ StaleStored(r)
      PROVE  UNCHANGED capacityVars
  BY <1>1 DEF Start, Looked, Joined, Stored, StaleStored
<1>2. ASSUME NEW r \in Requests,
             \/ StartForced(r) \/ StaleLooked(r) \/ SlotGranted(r) \/ SlotTooLate(r) \/ Extracted(r)
             \/ Unwinds(r) \/ \E what \in {"inner", "queue", "outer", "outside"} : Strike(r, what)
      PROVE  Step(r) \/ UNCHANGED capacityVars
  BY <1>2 DEF StartForced, StaleLooked, SlotGranted, SlotTooLate, Extracted, Unwinds, Strike, Step
<1>3. CASE ThreadRuns \/ ThreadFails \/ CacheExpires \/ UNCHANGED vars
  BY <1>3 DEF ThreadRuns, ThreadFails, Called, CacheExpires, vars
<1> QED
  BY <1>1, <1>2, <1>3 DEF CrawlNext, LoopStep, CapacityNext

(* CrawlService uses its slots as the semaphore of capacity.py promises.    *)
THEOREM CrawlKeepsCapacity == CrawlSpec => CapacitySpec /\ []CapacityInv
<1>1. CrawlInit => CapacityInit
  BY DEF CrawlInit
<1>2. CrawlSpec => CapacitySpec
  BY <1>1, CrawlStepAdmits, PTL DEF CrawlSpec, CapacitySpec
<1> QED
  BY <1>2, CapacityInvariant, PTL

SlotKnown(r) ==
    /\ pc[r] = "work" <=> stage[r] = "held"
    /\ pc[r] = "slot" <=> stage[r] \in Waiting

(* A step of admission moves one request; of the others it can only wake    *)
(* some, who wait before and after.                                         *)
LEMMA OthersStay ==
  ASSUME CapacityInv, NEW r \in Requests, Step(r), NEW q \in Requests \ {r}
  PROVE  stage'[q] = stage[q] \/ (stage[q] \in Waiting /\ stage'[q] \in Waiting)
<1>1. stage \in [Requests -> Stages] /\ \A i \in 1..Len(queue) : stage[queue[i]] = "pending"
  BY DEF CapacityInv, CapacityTypeOK, QueueOrder, At
<1>2. CASE Refuse(r) \/ Admit(r) \/ Queue(r) \/ Cancel(r)
  BY <1>1, <1>2 DEF Refuse, Admit, Queue, Cancel, capacityVars
<1>3. ASSUME NEW s, NEW p, NEW n \in Nat, n <= Len(queue), HandOn(r, s, p, n)
      PROVE  stage'[q] = stage[q] \/ (stage[q] \in Waiting /\ stage'[q] \in Waiting)
  <2>1. CASE \E i \in 1..n : queue[i] = q
    <3>1. stage[q] = "pending" /\ stage'[q] = "woken"
      BY <1>1, <1>3, <2>1 DEF HandOn, CapacityInv, CapacityTypeOK
    <3> QED
      BY <3>1 DEF Waiting
  <2>2. CASE ~ \E i \in 1..n : queue[i] = q
    BY <1>3, <2>2 DEF HandOn
  <2> QED
    BY <2>1, <2>2
<1>4. permits \in Nat /\ Len(queue) \in Nat
  BY DEF CapacityInv, CapacityTypeOK
<1>5. CASE Resume(r) \/ ResumeLate(r) \/ Unwind(r)
  <2>1. permits + 1 \in Nat
    BY <1>4
  <2>2. PICK s \in {"held", "out"}, p \in Nat : AcquireEnds(r, s, p)
    BY <1>4, <1>5, <2>1, Zenon DEF Resume, ResumeLate, Unwind
  <2>3. HandOn(r, s, p, Wakes(p)) /\ Wakes(p) \in Nat /\ Wakes(p) <= Len(queue)
    BY <1>4, <2>2 DEF AcquireEnds, Wakes, Least
  <2> QED
    BY <1>3, <2>3
<1>6. CASE Leave(r)
  <2>1. HandOn(r, "out", permits + 1, Least(1, Len(queue))) /\ Least(1, Len(queue)) \in Nat
        /\ Least(1, Len(queue)) <= Len(queue)
    BY <1>4, <1>6 DEF Leave, Release, Least
  <2> QED
    BY <1>3, <2>1
<1> QED
  BY <1>2, <1>5, <1>6 DEF Step

(* What an action of admission makes of the request that takes it.          *)
LEMMA StageAfter ==
  ASSUME CapacityInv, NEW r \in Requests
  PROVE  /\ Refuse(r) => stage'[r] = "out"
         /\ Admit(r) \/ Resume(r) => stage'[r] = "held"
         /\ Queue(r) \/ Cancel(r) => stage'[r] \in Waiting
         /\ ResumeLate(r) \/ Unwind(r) \/ Leave(r) => stage'[r] = "out"
  BY DEF CapacityInv, CapacityTypeOK, Refuse, Admit, Resume, Queue, Cancel, ResumeLate, Unwind, Leave,
         Release, AcquireEnds, HandOn, Waiting, capacityVars

SlotsInv == CapacityInv /\ LeadTypes /\ \A r \in Requests : SlotKnown(r)

LEMMA MoveKeepsSlots ==
  ASSUME SlotsInv, NEW r \in Requests, Step(r) \/ UNCHANGED capacityVars,
         NEW where, Goes(r, where),
         where = "work" <=> stage'[r] = "held",
         where = "slot" <=> stage'[r] \in Waiting
  PROVE  \A q \in Requests : SlotKnown(q)'
<1>1. \A q \in Requests \ {r} : SlotKnown(q)'
  BY OthersStay DEF SlotsInv, LeadTypes, SlotKnown, Goes, Waiting, capacityVars
<1>2. SlotKnown(r)'
  BY DEF SlotsInv, LeadTypes, SlotKnown, Goes
<1> QED
  BY <1>1, <1>2

LEMMA SlotsStep ==
  ASSUME SlotsInv, [CrawlNext]_vars
  PROVE  \A q \in Requests : SlotKnown(q)'
<1>1. ASSUME NEW r \in Requests, Start(r) \/ Looked(r) \/ Joined(r) \/ Stored(r) \/ StaleStored(r)
      PROVE  \A q \in Requests : SlotKnown(q)'
  <2>1. UNCHANGED capacityVars /\ pc[r] \notin {"work", "slot"}
    BY <1>1 DEF Start, Looked, Joined, Stored, StaleStored
  <2>2. PICK where \in (Awaiting \cup Answers) \ {"work", "slot"} : Goes(r, where)
    BY <1>1 DEF Start, Looked, Joined, Stored, StaleStored, Awaiting, Answers, Reading, Leading
  <2>3. stage'[r] # "held" /\ stage'[r] \notin Waiting
    BY <2>1 DEF SlotsInv, SlotKnown, capacityVars
  <2> QED
    BY <2>1, <2>2, <2>3, MoveKeepsSlots
<1>2. ASSUME NEW r \in Requests, NEW where, Goes(r, where),
             \/ where = "work" /\ (Admit(r) \/ Resume(r))
             \/ where = "slot" /\ Queue(r)
             \/ where \notin {"work", "slot"} /\ (Refuse(r) \/ ResumeLate(r) \/ Leave(r) \/ Unwind(r))
      PROVE  \A q \in Requests : SlotKnown(q)'
  <2>1. Step(r)
    BY <1>2 DEF Step
  <2>2. /\ where = "work" <=> stage'[r] = "held"
        /\ where = "slot" <=> stage'[r] \in Waiting
    BY <1>2, StageAfter DEF SlotsInv, Waiting
  <2> QED
    BY <1>2, <2>1, <2>2, MoveKeepsSlots
<1>3. ASSUME NEW r \in Requests, StaleLooked(r), Failed
      PROVE  \A q \in Requests : SlotKnown(q)'
  <2>1. UNCHANGED capacityVars /\ pc[r] = "stale" /\ Goes(r, "error")
    BY <1>3 DEF StaleLooked
  <2>2. stage'[r] # "held" /\ stage'[r] \notin Waiting
    BY <2>1 DEF SlotsInv, SlotKnown, capacityVars
  <2> QED
    BY <2>1, <2>2, MoveKeepsSlots
<1>4. ASSUME NEW r \in Requests,
             \/ StartForced(r) \/ (StaleLooked(r) /\ ~Failed) \/ SlotGranted(r)
             \/ SlotTooLate(r) \/ Extracted(r)
      PROVE  \A q \in Requests : SlotKnown(q)'
  BY <1>2, <1>4, Zenon DEF StartForced, StaleLooked, SlotGranted, SlotTooLate, Extracted
<1>5. ASSUME NEW r \in Requests, Unwinds(r)
      PROVE  \A q \in Requests : SlotKnown(q)'
  <2>1. PICK where \in {"gone", "error"} : Goes(r, where)
    BY <1>5 DEF Unwinds
  <2>2. CASE pc[r] \in {"slot", "work"}
    <3>1. Unwind(r) \/ Leave(r)
      BY <1>5, <2>2 DEF Unwinds
    <3> QED
      BY <1>2, <2>1, <3>1
  <2>3. CASE pc[r] \notin {"slot", "work"}
    <3>1. UNCHANGED capacityVars
      BY <1>5, <2>3 DEF Unwinds
    <3>2. stage'[r] # "held" /\ stage'[r] \notin Waiting
      BY <2>3, <3>1 DEF SlotsInv, SlotKnown, capacityVars
    <3> QED
      BY <2>1, <3>1, <3>2, MoveKeepsSlots
  <2> QED
    BY <2>2, <2>3
<1>6. ASSUME NEW r \in Requests, NEW what, Strike(r, what)
      PROVE  \A q \in Requests : SlotKnown(q)'
  <2>1. pc' = pc /\ ((pc[r] = "slot" /\ Cancel(r)) \/ UNCHANGED capacityVars)
    BY <1>6 DEF Strike
  <2>2. CASE UNCHANGED capacityVars
    BY <2>1, <2>2 DEF SlotsInv, SlotKnown, capacityVars
  <2>3. CASE pc[r] = "slot" /\ Cancel(r)
    <3>1. Goes(r, "slot")
      BY <2>1, <2>3 DEF SlotsInv, LeadTypes, Goes
    <3>2. Step(r) /\ stage'[r] \in Waiting /\ stage'[r] # "held"
      BY <2>3, StageAfter DEF SlotsInv, Step, Waiting
    <3> QED
      BY <3>1, <3>2, MoveKeepsSlots
  <2> QED
    BY <2>1, <2>2, <2>3
<1>7. CASE ThreadRuns \/ ThreadFails \/ CacheExpires \/ UNCHANGED vars
  <2>1. UNCHANGED <<pc, stage>>
    BY <1>7 DEF ThreadRuns, ThreadFails, Called, CacheExpires, vars, crawlVars, capacityVars
  <2> QED
    BY <2>1 DEF SlotsInv, SlotKnown
<1> QED
  BY <1>1, <1>3, <1>4, <1>5, <1>6, <1>7 DEF CrawlNext, LoopStep

(* A request of CrawlService holds a slot while it extracts and at no other *)
(* time, and waits for one while it stands in the queue.                    *)
THEOREM SlotsAreMatched == CrawlSpec => []SlotsMatch
<1>1. CrawlInit => \A r \in Requests : SlotKnown(r)
  BY DEF CrawlInit, CapacityInit, SlotKnown, Waiting
<1>2. CapacityInv /\ LeadInv /\ (\A r \in Requests : SlotKnown(r)) /\ [CrawlNext]_vars
        => (\A r \in Requests : SlotKnown(r))'
  BY SlotsStep DEF SlotsInv, LeadInv
<1>3. (\A r \in Requests : SlotKnown(r)) => SlotsMatch
  BY DEF SlotKnown, SlotsMatch
<1> QED
  BY <1>1, <1>2, <1>3, LeadAlways, CrawlKeepsCapacity, PTL DEF CrawlSpec

-----------------------------------------------------------------------------
(* The calls to the storage thread, for NoRepeatFetch.  A request that      *)
(* awaits one has it either before the thread or behind it, once; a call    *)
(* nobody awaits was made by a request that has been struck.                *)
Asked == [who : Known, kind : {"get", "getstale", "set", "setstale"}, from : Requests]
Returned == [who : Requests, result : {"ok", "error"}, entry : Known]
Place(kind) == IF kind = "get" THEN "look" ELSE IF kind = "getstale" THEN "stale" ELSE kind

Who(s) == {s[i].who : i \in 1..Len(s)}
Once(s) == \A i, k \in 1..Len(s) : s[i].who = s[k].who /\ s[i].who # Nobody => i = k

CallKnown(c) ==
    \/ c.who = Nobody /\ stop[c.from] # "no"
    \/ c.who = c.from /\ stop[c.who] = "no" /\ pc[c.who] = Place(c.kind)

(* A lookup that missed an entry that is there now is ahead of its store.   *)
AheadOfStore(i) ==
    pc[ready[i].who] = "look" /\ ready[i].entry = Nobody /\ cache # Nobody =>
        \/ stop[cache] # "no"
        \/ pc[cache] = "set" /\ \E k \in 1..Len(ready) : i < k /\ ready[k].who = cache

CallsInv ==
    /\ calls \in Seq(Asked) /\ Once(calls)
    /\ \A i \in 1..Len(calls) : CallKnown(calls[i])

ReadyInv ==
    /\ ready \in Seq(Returned) /\ Once(ready)
    /\ \A i \in 1..Len(ready) :
         stop[ready[i].who] = "no" /\ pc[ready[i].who] \in Reading /\ AheadOfStore(i)

CallInv == cache \in Known /\ CallsInv /\ ReadyInv /\ Who(calls) \cap Who(ready) = {}

(* w is s without its entry at d.                                           *)
Lacks(w, s, d) ==
    /\ d \in 1..Len(s) /\ Len(w) = Len(s) - 1
    /\ \A k \in 1..Len(w) : w[k] = IF k < d THEN s[k] ELSE s[k + 1]

LEMMA LacksOne ==
  ASSUME NEW S, NEW s \in Seq(S), NEW w \in Seq(S), NEW d, Lacks(w, s, d),
         Once(s), s[d].who # Nobody
  PROVE  /\ Once(w) /\ Who(w) = Who(s) \ {s[d].who}
         /\ \A i \in 1..Len(w) :
              /\ i < d => i \in 1..Len(s) /\ w[i] = s[i]
              /\ ~(i < d) => i + 1 \in 1..Len(s) /\ i + 1 # d /\ w[i] = s[i + 1]
<1>1. Len(s) \in Nat /\ d \in 1..Len(s) /\ Len(w) = Len(s) - 1
  BY DEF Lacks
<1>2. ASSUME NEW i \in 1..Len(w)
      PROVE  /\ i < d => i \in 1..Len(s) /\ i # d /\ w[i] = s[i]
             /\ ~(i < d) => i + 1 \in 1..Len(s) /\ i + 1 # d /\ w[i] = s[i + 1]
  BY <1>1 DEF Lacks
<1>3. Once(w)
  BY <1>1, <1>2, SMTT(30) DEF Once
<1>4. Who(w) \subseteq Who(s) \ {s[d].who}
  <2>1. ASSUME NEW i \in 1..Len(w)
        PROVE  \E k \in 1..Len(s) : k # d /\ w[i] = s[k]
    BY <1>2, <2>1, <1>1
  <2>2. \A k \in 1..Len(s) : k # d => s[k].who # s[d].who
    BY <1>1 DEF Once
  <2> QED
    BY <2>1, <2>2 DEF Who
<1>5. ASSUME NEW i \in 1..Len(s), i # d
      PROVE  \E k \in 1..Len(w) : w[k] = s[i]
  <2>1. CASE i < d
    <3>1. i \in 1..Len(w) /\ w[i] = s[i]
      BY <1>1, <2>1 DEF Lacks
    <3> QED
      BY <3>1
  <2>2. CASE i > d
    <3>1. i - 1 \in 1..Len(w) /\ w[i - 1] = s[i]
      BY <1>1, <2>2 DEF Lacks
    <3> QED
      BY <3>1
  <2> QED
    BY <1>5, <2>1, <2>2, <1>1
<1>6. Who(s) \ {s[d].who} \subseteq Who(w)
  BY <1>5 DEF Who
<1> QED
  BY <1>2, <1>3, <1>4, <1>6

LEMMA TailLacksFirst ==
  ASSUME NEW S, NEW s \in Seq(S), s # <<>>
  PROVE  Tail(s) \in Seq(S) /\ Lacks(Tail(s), s, 1) /\ Head(s) = s[1]
  BY DEF Lacks

LEMMA WithdrawnLacksOne ==
  ASSUME NEW S, NEW s \in Seq(S), NEW r
  PROVE  /\ Withdrawn(r, s) \in Seq(S)
         /\ \/ r \notin Who(s) /\ Withdrawn(r, s) = s
            \/ \E d \in 1..Len(s) : s[d].who = r /\ Lacks(Withdrawn(r, s), s, d)
<1>1. CASE Under(r, s) = {}
  BY <1>1 DEF Under, Who, Withdrawn
<1>2. CASE Under(r, s) # {}
  <2> DEFINE d == CHOOSE i \in Under(r, s) : TRUE
             before == SubSeq(s, 1, d - 1)
             after == SubSeq(s, d + 1, Len(s))
  <2>1. d \in 1..Len(s) /\ s[d].who = r /\ Len(s) \in Nat
    BY <1>2 DEF Under
  <2>2. Withdrawn(r, s) = before \o after
    BY <1>2 DEF Withdrawn
  <2> HIDE DEF d
  <2>3. /\ before \in Seq(S) /\ Len(before) = d - 1
        /\ \A i \in 1..Len(before) : before[i] = s[i]
    BY <2>1
  <2>4. /\ after \in Seq(S) /\ Len(after) = Len(s) - d
        /\ \A i \in 1..Len(after) : after[i] = s[i + d]
    BY <2>1
  <2> HIDE DEF before, after
  <2>5. /\ before \o after \in Seq(S) /\ Len(before \o after) = Len(before) + Len(after)
        /\ \A i \in 1..Len(before) + Len(after) : (before \o after)[i] =
              IF i <= Len(before) THEN before[i] ELSE after[i - Len(before)]
    BY <2>3, <2>4, ConcatProperties, Zenon
  <2>6. Len(before \o after) = Len(s) - 1
    BY <2>1, <2>3, <2>4, <2>5
  <2>7. ASSUME NEW i \in 1..(Len(s) - 1)
        PROVE  (before \o after)[i] = IF i < d THEN s[i] ELSE s[i + 1]
    <3>1. CASE i < d
      BY <3>1, <2>1, <2>3, <2>4, <2>5
    <3>2. CASE ~(i < d)
      <4>1. i - Len(before) \in 1..Len(after) /\ (i - Len(before)) + d = i + 1
        BY <3>2, <2>1, <2>3, <2>4
      <4>2. ~(i <= Len(before)) /\ i \in 1..Len(before) + Len(after)
        BY <3>2, <2>1, <2>3, <2>4
      <4> QED
        BY <3>2, <4>1, <4>2, <2>4, <2>5
    <3> QED
      BY <3>1, <3>2
  <2>8. Lacks(before \o after, s, d)
    BY <2>1, <2>6, <2>7 DEF Lacks
  <2> QED
    BY <2>1, <2>2, <2>5, <2>8
<1> QED
  BY <1>1, <1>2

(* What a step of r may do to the other requests, and it is never unstruck. *)
OthersSame(r) ==
    /\ \A q \in Requests \ {r} : pc'[q] = pc[q] /\ stop'[q] = stop[q]
    /\ stop[r] # "no" => stop'[r] # "no"

(* The calls that are through: r takes its own, at its turn, or is struck   *)
(* and has it withdrawn.                                                    *)
LEMMA ReadyKeeps ==
  ASSUME ReadyInv, cache \in Known, cache' = cache, NEW r \in Requests, OthersSame(r),
         \/ ready' = ready /\ r \notin Who(ready)
         \/ /\ ready' \in Seq(Returned)
            /\ \E d \in 1..Len(ready) :
                 Lacks(ready', ready, d) /\ ready[d].who = r /\ (d = 1 \/ stop'[r] # "no")
  PROVE  ReadyInv' /\ Who(ready)' = Who(ready) \ {r}
<1>1. /\ ready \in Seq(Returned) /\ Len(ready) \in Nat /\ Once(ready)
      /\ \A i \in 1..Len(ready) : ready[i].who \in Requests
  <2>1. ready \in Seq(Returned) /\ Once(ready)
    BY DEF ReadyInv
  <2>2. Len(ready) \in Nat /\ \A i \in 1..Len(ready) : ready[i] \in Returned
    BY <2>1
  <2> QED
    BY <2>1, <2>2 DEF Returned
<1>2. CASE ready' = ready /\ r \notin Who(ready)
  <2>1. \A i \in 1..Len(ready) : ready[i].who # r
    BY <1>2 DEF Who
  <2>2. ASSUME NEW i \in 1..Len(ready)
        PROVE  AheadOfStore(i)'
    <3>1. ready[i].who \in Requests \ {r}
      BY <1>1, <2>1
    <3> QED
      BY <1>2, <2>1, <3>1 DEF ReadyInv, AheadOfStore, OthersSame, Known
  <2> QED
    BY <1>1, <1>2, <2>1, <2>2 DEF ReadyInv, OthersSame, Who
<1>3. ASSUME ready' \in Seq(Returned),
             NEW d \in 1..Len(ready), Lacks(ready', ready, d), ready[d].who = r,
             d = 1 \/ stop'[r] # "no"
      PROVE  ReadyInv' /\ Who(ready)' = Who(ready) \ {r}
  <2>1. ready[d].who # Nobody
    BY <1>1, CrawlAssumption
  <2>2. /\ Once(ready') /\ Who(ready') = Who(ready) \ {r}
        /\ \A i \in 1..Len(ready') :
             /\ i < d => i \in 1..Len(ready) /\ ready'[i] = ready[i]
             /\ ~(i < d) => i + 1 \in 1..Len(ready) /\ i + 1 # d /\ ready'[i] = ready[i + 1]
    BY <1>1, <1>3, <2>1, LacksOne
  <2>3. Len(ready') \in Nat /\ Len(ready') = Len(ready) - 1
    BY <1>1, <1>3 DEF Lacks
  <2>4. \A k \in 1..Len(ready) : k # d => ready[k].who \in Requests \ {r}
    BY <1>1, <1>3, <2>1 DEF Once
  <2>5. ASSUME NEW i \in 1..Len(ready')
        PROVE  /\ stop'[ready'[i].who] = "no" /\ pc'[ready'[i].who] \in Reading
               /\ AheadOfStore(i)'
    <3>1. PICK j \in 1..Len(ready) : j # d /\ ready'[i] = ready[j] /\ j = IF i < d THEN i ELSE i + 1
      BY <1>1, <1>3, <2>2, <2>3, SMTT(30)
    <3>2. ready[j].who \in Requests \ {r}
      BY <2>4, <3>1
    <3>3. stop'[ready'[i].who] = "no" /\ pc'[ready'[i].who] \in Reading
      BY <3>1, <3>2, SMTT(30) DEF ReadyInv, OthersSame
    <3>4. ASSUME pc'[ready'[i].who] = "look", ready'[i].entry = Nobody, cache # Nobody,
                 stop'[cache] = "no"
          PROVE  pc'[cache] = "set" /\ \E k \in 1..Len(ready') : i < k /\ ready'[k].who = cache
      <4>1. pc[ready[j].who] = "look" /\ ready[j].entry = Nobody /\ stop[cache] = "no"
        BY <3>1, <3>2, <3>4 DEF OthersSame, Known
      <4>2. PICK m \in 1..Len(ready) : j < m /\ ready[m].who = cache /\ pc[cache] = "set"
        BY <3>4, <4>1 DEF ReadyInv, AheadOfStore
      <4>3. m # d
        <5>1. CASE d = 1
          BY <5>1, <4>2, <1>1
        <5>2. CASE stop'[r] # "no"
          BY <5>2, <4>2, <3>4, <1>3
        <5> QED
          BY <5>1, <5>2, <1>3
      <4>4. cache \in Requests \ {r} /\ pc'[cache] = "set"
        BY <4>2, <4>3, <2>4 DEF OthersSame
      <4>5. PICK n \in 1..Len(ready') : ready'[n] = ready[m] /\ m = IF n < d THEN n ELSE n + 1
        <5>1. CASE m < d
          BY <5>1, <2>2, <2>3, <1>1
        <5>2. CASE m > d
          <6>1. m - 1 \in 1..Len(ready') /\ ~(m - 1 < d) /\ (m - 1) + 1 = m
            BY <5>2, <2>3, <1>1
          <6> QED
            BY <6>1, <2>2
        <5> QED
          BY <4>3, <5>1, <5>2, <1>1
      <4>6. i < n
        BY <3>1, <4>2, <4>3, <4>5, <1>1, <2>3
      <4> QED
        BY <4>2, <4>4, <4>5, <4>6
    <3>5. AheadOfStore(i)'
      BY <3>4 DEF AheadOfStore
    <3> QED
      BY <3>3, <3>5
  <2>6. ReadyInv'
    BY <1>3, <2>2, <2>5 DEF ReadyInv
  <2> QED
    BY <2>2, <2>6 DEF Who
<1> QED
  BY <1>2, <1>3

(* The calls to come: r makes one, hears of its own, or is struck and has   *)
(* it withdrawn or, if the thread has begun it, left to nobody.             *)
LEMMA CallsKeep ==
  ASSUME CallsInv, NEW r \in Requests, OthersSame(r),
         \/ calls' = calls /\ r \notin Who(calls)
         \/ /\ r \notin Who(calls) /\ stop'[r] = "no"
            /\ \E kind \in {"get", "getstale", "set", "setstale"} :
                 Asks(r, kind) /\ pc'[r] = Place(kind)
         \/ calls' \in Seq(Asked) /\ \E d \in 1..Len(calls) : Lacks(calls', calls, d) /\ calls[d].who = r
         \/ /\ 1 \in Under(r, calls) /\ calls' = [calls EXCEPT ![1].who = Nobody]
            /\ stop'[r] # "no"
  PROVE  /\ CallsInv'
         /\ Who(calls)' \subseteq Who(calls) \cup {r, Nobody}
         /\ ~ (\E kind : Asks(r, kind)) => r \notin Who(calls)'
<1>1. /\ calls \in Seq(Asked) /\ Len(calls) \in Nat /\ Once(calls)
      /\ \A i \in 1..Len(calls) : /\ calls[i] \in Asked /\ calls[i].who \in Known
                                  /\ calls[i].from \in Requests /\ CallKnown(calls[i])
  <2>1. calls \in Seq(Asked) /\ Once(calls) /\ \A i \in 1..Len(calls) : CallKnown(calls[i])
    BY DEF CallsInv
  <2>2. Len(calls) \in Nat /\ \A i \in 1..Len(calls) : calls[i] \in Asked
    BY <2>1
  <2> QED
    BY <2>1, <2>2 DEF Asked
<1> DEFINE KnownNext(c) == \/ c.who = Nobody /\ stop'[c.from] # "no"
                           \/ c.who = c.from /\ stop'[c.who] = "no" /\ pc'[c.who] = Place(c.kind)
<1>2. ASSUME NEW i \in 1..Len(calls), calls[i].who # r
      PROVE  KnownNext(calls[i])
  BY <1>1, <1>2 DEF CallKnown, OthersSame, Known
<1>3. /\ calls' \in Seq(Asked) /\ Once(calls') /\ \A i \in 1..Len(calls') : KnownNext(calls'[i])
      => CallsInv'
  BY DEF CallsInv, CallKnown
<1> HIDE DEF KnownNext
<1>4. CASE calls' = calls /\ r \notin Who(calls)
  <2>1. \A i \in 1..Len(calls) : calls[i].who # r
    BY <1>4 DEF Who
  <2> QED
    BY <1>1, <1>2, <1>4, <1>3, <2>1 DEF Who
<1>5. ASSUME r \notin Who(calls), stop'[r] = "no", NEW kind \in {"get", "getstale", "set", "setstale"},
             Asks(r, kind), pc'[r] = Place(kind)
      PROVE  CallsInv' /\ Who(calls)' \subseteq Who(calls) \cup {r, Nobody}
  <2> DEFINE call == [who |-> r, kind |-> kind, from |-> r]
  <2>1. call \in Asked /\ call.who = r /\ KnownNext(call) /\ \A i \in 1..Len(calls) : calls[i].who # r
    BY <1>5 DEF Asked, Known, KnownNext, Who
  <2>2. calls' = Append(calls, call)
    BY <1>5 DEF Asks
  <2> HIDE DEF call
  <2>3. /\ calls' \in Seq(Asked) /\ Len(calls') = Len(calls) + 1
        /\ \A i \in 1..Len(calls) : calls'[i] = calls[i]
        /\ calls'[Len(calls) + 1] = call
    BY <1>1, <2>1, <2>2, AppendProperties
  <2>4. \A i \in 1..Len(calls') : i \in 1..Len(calls) \/ (i = Len(calls) + 1 /\ calls'[i] = call)
    BY <1>1, <2>3
  <2>5. Once(calls')
    BY <1>1, <2>1, <2>3, <2>4 DEF Once
  <2>6. \A i \in 1..Len(calls') : KnownNext(calls'[i])
    BY <1>2, <2>1, <2>3, <2>4
  <2>7. Who(calls') \subseteq Who(calls) \cup {r}
    BY <2>1, <2>3, <2>4 DEF Who
  <2> QED
    BY <1>3, <2>3, <2>5, <2>6, <2>7 DEF Who
<1>6. ASSUME calls' \in Seq(Asked), NEW d \in 1..Len(calls), Lacks(calls', calls, d), calls[d].who = r
      PROVE  CallsInv' /\ Who(calls)' \subseteq Who(calls) /\ r \notin Who(calls)'
  <2>1. calls[d].who # Nobody
    BY <1>6, CrawlAssumption
  <2>2. /\ Once(calls') /\ Who(calls') = Who(calls) \ {r}
        /\ \A i \in 1..Len(calls') :
             /\ i < d => i \in 1..Len(calls) /\ calls'[i] = calls[i]
             /\ ~(i < d) => i + 1 \in 1..Len(calls) /\ i + 1 # d /\ calls'[i] = calls[i + 1]
    BY <1>1, <1>6, <2>1, LacksOne
  <2>3. ASSUME NEW i \in 1..Len(calls')
        PROVE  KnownNext(calls'[i])
    <3>1. PICK j \in 1..Len(calls) : j # d /\ calls'[i] = calls[j]
      BY <1>1, <1>6, <2>2
    <3>2. calls[j].who # r
      BY <1>1, <1>6, <2>1, <3>1 DEF Once
    <3> QED
      BY <1>2, <3>1, <3>2
  <2> QED
    BY <1>6, <1>3, <2>2, <2>3 DEF Who
<1>7. ASSUME 1 \in Under(r, calls), calls' = [calls EXCEPT ![1].who = Nobody], stop'[r] # "no"
      PROVE  CallsInv' /\ Who(calls)' \subseteq Who(calls) \cup {Nobody} /\ r \notin Who(calls)'
  <2>1. 1 \in 1..Len(calls) /\ calls[1].who = r /\ calls[1] \in Asked /\ calls[1].from = r
    BY <1>1, <1>7, CrawlAssumption DEF Under, CallKnown
  <2> DEFINE left == [calls[1] EXCEPT !.who = Nobody]
  <2>2. left \in Asked /\ left.who = Nobody /\ left.from = r
    BY <2>1 DEF Asked, Known
  <2>3. calls' = [calls EXCEPT ![1] = left]
    BY <1>7
  <2> HIDE DEF left
  <2>4. /\ calls' \in Seq(Asked) /\ Len(calls') = Len(calls)
        /\ \A i \in 1..Len(calls) : calls'[i] = IF i = 1 THEN left ELSE calls[i]
    BY <1>1, <2>1, <2>2, <2>3, ExceptSeq
  <2>5. \A i \in 1..Len(calls) : i # 1 => calls[i].who # r
    BY <1>1, <2>1, CrawlAssumption DEF Once
  <2>6. Once(calls')
    BY <1>1, <2>2, <2>4 DEF Once
  <2>7. ASSUME NEW i \in 1..Len(calls')
        PROVE  KnownNext(calls'[i])
    <3>1. KnownNext(left)
      BY <1>7, <2>2 DEF KnownNext
    <3>2. i = 1 => calls'[i] = left
      BY <2>1, <2>4
    <3>3. i # 1 => i \in 1..Len(calls) /\ calls'[i] = calls[i] /\ calls[i].who # r
      BY <2>4, <2>5
    <3> QED
      BY <1>2, <3>1, <3>2, <3>3
  <2>8. Who(calls') \subseteq Who(calls) \cup {Nobody} /\ r \notin Who(calls')
    BY <2>2, <2>4, <2>5, CrawlAssumption DEF Who
  <2> QED
    BY <1>3, <2>4, <2>6, <2>7, <2>8 DEF Who
<1> QED
  BY <1>4, <1>5, <1>6, <1>7 DEF Who

(* Together: where r stands with the two queues says what its step does.    *)
ReadyStep(r) ==
    \/ ready' = ready /\ r \notin Who(ready)
    \/ /\ ready' \in Seq(Returned)
       /\ \E d \in 1..Len(ready) :
            Lacks(ready', ready, d) /\ ready[d].who = r /\ (d = 1 \/ stop'[r] # "no")

CallsStep(r) ==
    \/ calls' = calls /\ r \notin Who(calls)
    \/ /\ r \notin Who(calls) /\ stop'[r] = "no"
       /\ \E kind \in {"get", "getstale", "set", "setstale"} :
            Asks(r, kind) /\ pc'[r] = Place(kind)
    \/ calls' \in Seq(Asked) /\ \E d \in 1..Len(calls) : Lacks(calls', calls, d) /\ calls[d].who = r
    \/ /\ 1 \in Under(r, calls) /\ calls' = [calls EXCEPT ![1].who = Nobody]
       /\ stop'[r] # "no"

LEMMA RequestKeepsCalls ==
  ASSUME CallInv, NEW r \in Requests, OthersSame(r), cache' = cache, ReadyStep(r), CallsStep(r)
  PROVE  CallInv'
<1>1. ReadyInv' /\ Who(ready)' = Who(ready) \ {r}
  BY ReadyKeeps DEF CallInv, ReadyStep
<1>2. CallsInv' /\ Who(calls)' \subseteq Who(calls) \cup {r, Nobody}
  BY CallsKeep DEF CallInv, CallsStep
<1>3. Nobody \notin Who(ready)
  <2>1. \A i \in 1..Len(ready) : ready[i] \in Returned
    BY DEF CallInv, ReadyInv
  <2> QED
    BY <2>1, CrawlAssumption DEF Who, Returned
<1> QED
  BY <1>1, <1>2, <1>3 DEF CallInv

(* Who does not await the storage thread has no call under way.             *)
LEMMA NoCallUnderWay ==
  ASSUME CallInv, NEW r \in Requests, pc[r] \notin Reading \/ stop[r] # "no"
  PROVE  r \notin Who(calls) /\ r \notin Who(ready)
<1>1. \A i \in 1..Len(calls) : CallKnown(calls[i]) /\ calls[i] \in Asked
  BY DEF CallInv, CallsInv
<1>2. r \notin Who(calls)
  BY <1>1, CrawlAssumption DEF Who, CallKnown, Asked, Place, Reading
<1> QED
  BY <1>2 DEF CallInv, ReadyInv, Who

(* At its turn r has no call before the thread, and takes the first answer. *)
LEMMA TurnTakesFirst ==
  ASSUME CallInv, NEW r \in Requests, Turn(r), ready' = Tail(ready)
  PROVE  r \notin Who(calls) /\ ReadyStep(r)
<1>1. ready \in Seq(Returned) /\ ready # <<>> /\ Head(ready).who = r
  BY DEF CallInv, ReadyInv, Turn
<1>2. Tail(ready) \in Seq(Returned) /\ Lacks(Tail(ready), ready, 1) /\ ready[1].who = r
  BY <1>1, TailLacksFirst
<1>3. 1 \in 1..Len(ready)
  BY <1>2 DEF Lacks
<1>4. r \in Who(ready)
  BY <1>2, <1>3 DEF Who
<1> QED
  BY <1>2, <1>3, <1>4 DEF CallInv, ReadyStep

LEMMA LoopStepKeepsCalls ==
  ASSUME CallInv, LeadInv, NEW r \in Requests, Start(r) \/ StartForced(r) \/ LoopStep(r)
  PROVE  CallInv'
<1>1. ASSUME NEW where, Goes(r, where), UNCHANGED stop
      PROVE  OthersSame(r) /\ pc'[r] = where
  BY <1>1 DEF Goes, LeadInv, LeadTypes, OthersSame
<1>2. ASSUME NEW kind \in {"get", "getstale", "set", "setstale"}, Asks(r, kind),
             r \notin Who(calls), stop'[r] = "no", pc'[r] = Place(kind)
      PROVE  CallsStep(r)
  BY <1>2 DEF CallsStep
<1>3. /\ Place("get") = "look" /\ Place("getstale") = "stale"
      /\ Place("set") = "set" /\ Place("setstale") = "setstale"
  BY DEF Place
<1>4. CASE Looked(r) \/ StaleLooked(r) \/ Stored(r) \/ StaleStored(r)
  <2>1. Turn(r) /\ ready' = Tail(ready) /\ cache' = cache /\ UNCHANGED stop /\ stop'[r] = "no"
    BY <1>4 DEF Looked, StaleLooked, Stored, StaleStored, storeVars, Turn
  <2>2. r \notin Who(calls) /\ ReadyStep(r)
    BY <2>1, TurnTakesFirst
  <2>3. OthersSame(r)
    BY <1>1, <1>4, <2>1 DEF Looked, StaleLooked, Stored, StaleStored
  <2>4. CallsStep(r)
    <3>1. calls' = calls => CallsStep(r)
      BY <2>2 DEF CallsStep
    <3>2. CASE Looked(r)
      BY <1>1, <1>2, <1>3, <2>1, <2>2, <3>1, <3>2 DEF Looked
    <3>3. CASE Stored(r)
      BY <1>1, <1>2, <1>3, <2>1, <2>2, <3>1, <3>3 DEF Stored
    <3> QED
      BY <1>4, <3>1, <3>2, <3>3 DEF StaleLooked, StaleStored
  <2> QED
    BY <2>1, <2>2, <2>3, <2>4, RequestKeepsCalls
<1>5. CASE Start(r) \/ Joined(r) \/ Extracted(r)
  <2>1. /\ ready' = ready /\ cache' = cache /\ UNCHANGED stop /\ pc[r] \notin Reading
    BY <1>5 DEF Start, Joined, Extracted, storeVars, Reading
  <2>2. r \notin Who(calls) /\ ReadyStep(r)
    BY <2>1, NoCallUnderWay DEF ReadyStep
  <2>3. OthersSame(r)
    BY <1>1, <1>5, <2>1 DEF Start, Joined, Extracted
  <2>4. calls' = calls => CallsStep(r)
    BY <2>2 DEF CallsStep
  <2>5. stop'[r] = "no"
    BY <1>5, <2>1 DEF Start, Joined, Extracted, LeadInv, FutureKnown
  <2>6. CallsStep(r)
    <3>1. CASE Start(r)
      BY <1>1, <1>2, <1>3, <2>1, <2>2, <2>5, <3>1 DEF Start
    <3>2. CASE Joined(r)
      BY <1>1, <1>2, <1>3, <2>1, <2>2, <2>4, <2>5, <3>2 DEF Joined
    <3>3. CASE Extracted(r)
      BY <1>1, <1>2, <1>3, <2>1, <2>2, <2>4, <2>5, <3>3 DEF Extracted
    <3> QED
      BY <1>5, <3>1, <3>2, <3>3
  <2> QED
    BY <2>1, <2>2, <2>3, <2>6, RequestKeepsCalls
<1>6. CASE StartForced(r) \/ SlotGranted(r) \/ SlotTooLate(r) \/ Unwinds(r)
  <2>1. UNCHANGED <<calls, ready, cache>>
    BY <1>6 DEF StartForced, SlotGranted, SlotTooLate, Unwinds, storeVars, ioVars
  <2>2. pc[r] \notin Reading \/ stop[r] # "no"
    BY <1>6 DEF StartForced, SlotGranted, SlotTooLate, Unwinds, Reading
  <2>3. OthersSame(r)
    <3>1. CASE SlotTooLate(r)
      BY <3>1 DEF SlotTooLate, Goes, OthersSame, LeadInv, LeadTypes
    <3> QED
      BY <1>1, <1>6, <3>1 DEF StartForced, SlotGranted, Unwinds
  <2> QED
    BY <2>1, <2>2, <2>3, NoCallUnderWay, RequestKeepsCalls DEF ReadyStep, CallsStep
<1> QED
  BY <1>4, <1>5, <1>6 DEF LoopStep

LEMMA StrikeKeepsCalls ==
  ASSUME CallInv, LeadInv, NEW r \in Requests, NEW what \in Strikes \ {"no"}, Strike(r, what)
  PROVE  CallInv'
<1>1. /\ pc' = pc /\ cache' = cache /\ stop' = [stop EXCEPT ![r] = what] /\ stop'[r] # "no"
      /\ OthersSame(r)
  BY DEF Strike, storeVars, OthersSame, LeadInv, LeadTypes
<1>2. CASE pc[r] \in Reading
  <2>1. Orphaned(r) /\ calls \in Seq(Asked) /\ ready \in Seq(Returned)
    BY <1>2 DEF Strike, CallInv, CallsInv, ReadyInv
  <2>2. ReadyStep(r)
    BY <1>1, <2>1, WithdrawnLacksOne DEF Orphaned, ReadyStep
  <2>3. CallsStep(r)
    BY <1>1, <2>1, WithdrawnLacksOne DEF Orphaned, CallsStep
  <2> QED
    BY <1>1, <2>2, <2>3, RequestKeepsCalls
<1>3. CASE pc[r] \notin Reading
  BY <1>1, <1>3, NoCallUnderWay, RequestKeepsCalls DEF Strike, ioVars, ReadyStep, CallsStep
<1> QED
  BY <1>2, <1>3

(* The thread does its first call, and its answer goes last.                *)
LEMMA CalledKeepsCalls ==
  ASSUME CallInv, calls # <<>>, NEW result \in {"ok", "error"}, Called(result),
         cache' = cache \/ (Head(calls).kind = "set" /\ cache' = Head(calls).from)
  PROVE  CallInv'
<1> DEFINE call == calls[1]
           answer == [who |-> call.who, result |-> result,
                      entry |-> IF call.kind = "get" THEN cache ELSE Nobody]
<1>1. /\ pc' = pc /\ stop' = stop /\ calls' = Tail(calls)
      /\ ready' = IF call.who = Nobody THEN ready ELSE Append(ready, answer)
      /\ cache' = cache \/ (call.kind = "set" /\ cache' = call.from)
  BY DEF Called, CallInv, CallsInv
<1>2. /\ calls \in Seq(Asked) /\ Once(calls) /\ ready \in Seq(Returned) /\ Once(ready)
      /\ cache \in Known /\ Who(calls) \cap Who(ready) = {}
  BY DEF CallInv, CallsInv, ReadyInv
<1>3. /\ 1 \in 1..Len(calls) /\ call \in Asked /\ CallKnown(call) /\ call.who \in Known
      /\ call.from \in Requests /\ call.kind \in {"get", "getstale", "set", "setstale"}
  <2>1. 1 \in 1..Len(calls) /\ call \in Asked
    BY <1>2
  <2> QED
    BY <2>1 DEF CallInv, CallsInv, Asked
<1> HIDE DEF call
<1>4. /\ calls' \in Seq(Asked) /\ Len(calls') = Len(calls) - 1 /\ Len(calls) \in Nat
      /\ \A i \in 1..Len(calls') : i + 1 \in 1..Len(calls) /\ calls'[i] = calls[i + 1]
  BY <1>1, <1>2
<1>5. CallsInv' /\ Who(calls') \subseteq Who(calls)
  <2>1. Once(calls')
    BY <1>2, <1>4, SMTT(30) DEF Once
  <2>2. ASSUME NEW i \in 1..Len(calls')
        PROVE  CallKnown(calls[i])'
    <3>1. CallKnown(calls[i + 1]) /\ calls'[i] = calls[i + 1]
      BY <1>4 DEF CallInv, CallsInv
    <3> QED
      BY <1>1, <3>1 DEF CallKnown
  <2>3. Who(calls') \subseteq Who(calls)
    BY <1>4 DEF Who
  <2> QED
    BY <1>4, <2>1, <2>2, <2>3 DEF CallsInv
<1>6. call.who \notin Who(calls') \/ call.who = Nobody
  <2> SUFFICES ASSUME NEW i \in 1..Len(calls'), calls'[i].who = call.who, call.who # Nobody
               PROVE  FALSE
    BY DEF Who
  <2>1. i + 1 \in 1..Len(calls) /\ calls[i + 1].who = calls[1].who /\ calls[1].who # Nobody
    BY <1>4 DEF call
  <2>2. i + 1 = 1
    BY <1>2, <1>3, <2>1 DEF Once
  <2> QED
    BY <1>4, <2>2
<1>7. CASE call.who = Nobody
  <2>1. ready' = ready /\ (cache' = cache \/ (cache' \in Requests /\ stop[cache'] # "no"))
    BY <1>1, <1>3, <1>7, CrawlAssumption DEF CallKnown, Known
  <2>2. \A i \in 1..Len(ready) : AheadOfStore(i)'
    BY <1>1, <2>1 DEF CallInv, ReadyInv, AheadOfStore
  <2> QED
    <3>1. ReadyInv'
      BY <1>1, <2>1, <2>2 DEF CallInv, ReadyInv, Once
    <3>2. Who(ready') = Who(ready) /\ cache' \in Known
      BY <1>2, <2>1 DEF Known
    <3> QED
      BY <1>2, <1>5, <3>1, <3>2 DEF CallInv, Who
<1>8. CASE call.who # Nobody
  <2>1. /\ call.who \in Requests /\ call.who = call.from /\ stop[call.who] = "no"
        /\ pc[call.who] = Place(call.kind) /\ call.who \in Who(calls)
    BY <1>3, <1>8 DEF CallKnown, Known, Who, call
  <2>2. answer \in Returned /\ answer.who = call.who
    BY <1>2, <2>1 DEF Returned, Known
  <2>3. ready' = Append(ready, answer) /\ answer.entry = IF call.kind = "get" THEN cache ELSE Nobody
    BY <1>1, <1>8
  <2> HIDE DEF answer
  <2>4. /\ ready' \in Seq(Returned) /\ Len(ready') = Len(ready) + 1 /\ Len(ready) \in Nat
        /\ \A i \in 1..Len(ready) : ready'[i] = ready[i]
        /\ ready'[Len(ready) + 1] = answer
    BY <1>2, <2>2, <2>3, AppendProperties
  <2>5. \A i \in 1..Len(ready) : ready[i].who # call.who
    BY <1>2, <2>1 DEF Who
  <2>6. \A i \in 1..Len(ready') : i \in 1..Len(ready) \/ (i = Len(ready) + 1 /\ ready'[i] = answer)
    BY <2>4
  <2>7. Once(ready')
    BY <1>2, <2>2, <2>4, <2>5, <2>6 DEF Once
  <2>8. Who(ready') \subseteq Who(ready) \cup {call.who}
    BY <2>2, <2>4, <2>6 DEF Who
  <2>9. cache' \in Known
    BY <1>1, <1>2, <1>3 DEF Known
  <2>10. ASSUME NEW i \in 1..Len(ready')
         PROVE  stop'[ready'[i].who] = "no" /\ pc'[ready'[i].who] \in Reading
    <3>1. Place(call.kind) \in Reading
      BY <1>3 DEF Place, Reading
    <3> QED
      BY <1>1, <2>1, <2>2, <2>4, <2>6, <3>1 DEF CallInv, ReadyInv
  <2>11. ASSUME NEW i \in 1..Len(ready'),
                pc'[ready'[i].who] = "look", ready'[i].entry = Nobody, cache' # Nobody, stop'[cache'] = "no"
         PROVE  pc'[cache'] = "set" /\ \E k \in 1..Len(ready') : i < k /\ ready'[k].who = cache'
    <3>1. CASE i = Len(ready) + 1
      <4>1. call.kind = "get"
        BY <1>1, <1>3, <2>1, <2>2, <2>4, <2>11, <3>1 DEF Place
      <4> QED
        BY <1>1, <2>3, <2>4, <2>11, <3>1, <4>1
    <3>2. CASE i \in 1..Len(ready) /\ cache' = cache
      <4>1. PICK k \in 1..Len(ready) : i < k /\ ready[k].who = cache /\ pc[cache] = "set"
        BY <1>1, <2>4, <2>11, <3>2 DEF CallInv, ReadyInv, AheadOfStore
      <4>2. k \in 1..Len(ready') /\ ready'[k].who = cache'
        BY <2>4, <3>2, <4>1
      <4> QED
        BY <1>1, <3>2, <4>1, <4>2
    <3>3. CASE i \in 1..Len(ready) /\ call.kind = "set" /\ cache' = call.from
      <4>1. pc'[cache'] = "set"
        BY <1>1, <2>1, <3>3 DEF Place
      <4>2. Len(ready) + 1 \in 1..Len(ready') /\ i < Len(ready) + 1
            /\ ready'[Len(ready) + 1].who = cache'
        BY <2>1, <2>2, <2>4, <3>3
      <4> QED
        BY <4>1, <4>2
    <3> QED
      BY <1>1, <2>6, <3>1, <3>2, <3>3
  <2>12. ReadyInv'
    BY <2>4, <2>7, <2>10, <2>11 DEF ReadyInv, AheadOfStore
  <2>13. Who(calls') \cap Who(ready') = {}
    BY <1>2, <1>5, <1>6, <1>8, <2>8
  <2> QED
    BY <1>5, <2>9, <2>12, <2>13 DEF CallInv, Who
<1> QED
  BY <1>7, <1>8

LEMMA CallStepInv == CallInv /\ LeadInv /\ [CrawlNext]_vars => CallInv'
<1> SUFFICES ASSUME CallInv, LeadInv, [CrawlNext]_vars PROVE CallInv'
  OBVIOUS
<1>1. ASSUME NEW r \in Requests, Start(r) \/ StartForced(r) \/ LoopStep(r)
      PROVE  CallInv'
  BY <1>1, LoopStepKeepsCalls
<1>2. ASSUME NEW r \in Requests, NEW what \in {"inner", "queue", "outer", "outside"}, Strike(r, what)
      PROVE  CallInv'
  BY <1>2, StrikeKeepsCalls DEF Strikes
<1>3. CASE ThreadRuns
  BY <1>3, CalledKeepsCalls DEF ThreadRuns
<1>4. CASE ThreadFails
  BY <1>4, CalledKeepsCalls DEF ThreadFails
<1>5. CASE UNCHANGED <<pc, stop, calls, ready>> /\ cache' \in {cache, Nobody}
  <2>1. CallsInv'
    BY <1>5 DEF CallInv, CallsInv, CallKnown
  <2>2. ReadyInv'
    BY <1>5 DEF CallInv, ReadyInv, AheadOfStore
  <2>3. Who(calls') = Who(calls) /\ Who(ready') = Who(ready) /\ cache' \in Known
    BY <1>5 DEF CallInv, Known
  <2> QED
    BY <2>1, <2>2, <2>3 DEF CallInv
<1>6. CacheExpires \/ UNCHANGED vars => UNCHANGED <<pc, stop, calls, ready>> /\ cache' \in {cache, Nobody}
  BY DEF CacheExpires, vars, crawlVars, ioVars, storeVars
<1> QED
  BY <1>1, <1>2, <1>3, <1>4, <1>5, <1>6 DEF CrawlNext

LEMMA CallAlways == CrawlSpec => []CallInv
<1>1. CrawlInit => CallInv
  BY DEF CrawlInit, CallInv, CallsInv, ReadyInv, Once, Who, Known
<1> QED
  BY <1>1, CallStepInv, LeadAlways, PTL DEF CrawlSpec

(* A result that was stored and answered is not fetched again while it is   *)
(* fresh: a lookup that missed it has returned before its store, so nobody  *)
(* has been answered with it yet.                                           *)
THEOREM NoFetchIsRepeated == CrawlSpec => NoRepeatFetch
<1>1. CallInv /\ LeadInv => \A r \in Requests :
        Looked(r) /\ pc'[r] = "stale" /\ cache # Nobody => outcome[cache] # "ok"
  <2> SUFFICES ASSUME CallInv, LeadInv, NEW r \in Requests,
                      Looked(r), pc'[r] = "stale", cache # Nobody
               PROVE  outcome[cache] # "ok"
    OBVIOUS
  <2>1. Head(ready).who = r /\ Head(ready).entry = Nobody /\ ready # <<>> /\ pc[r] = "look"
    BY DEF Looked, Turn, Goes, LeadInv, LeadTypes
  <2>2. 1 \in 1..Len(ready) /\ ready[1] = Head(ready) /\ AheadOfStore(1) /\ cache \in Requests
    BY <2>1 DEF CallInv, ReadyInv, Known
  <2>3. stop[cache] # "no" \/ pc[cache] = "set"
    BY <2>1, <2>2 DEF AheadOfStore
  <2>4. FutureKnown(cache)
    BY <2>2 DEF LeadInv
  <2> QED
    BY <2>3, <2>4 DEF FutureKnown, Leading, Resolved, Answers
<1>2. CrawlSpec => [][\A r \in Requests :
        Looked(r) /\ pc'[r] = "stale" /\ cache # Nobody => outcome[cache] # "ok"]_vars
  BY <1>1, CallAlways, LeadAlways, PTL
<1> QED
  BY <1>2 DEF NoRepeatFetch

(* The types of all of it, as the composition of MCRequests checks them.    *)
THEOREM CrawlTypes == CrawlSpec => []CrawlTypeOK
<1> DEFINE Counters == faults \in Nat /\ expiries \in Nat
<1>1. CrawlInit => Counters
  BY DEF CrawlInit
<1>2. Counters /\ [CrawlNext]_vars => Counters'
  <2> SUFFICES ASSUME Counters, [CrawlNext]_vars PROVE Counters'
    OBVIOUS
  <2>1. UNCHANGED <<faults, expiries>> \/ ThreadRuns \/ ThreadFails \/ CacheExpires
    BY ZenonT(40) DEF CrawlNext, LoopStep, Start, StartForced, Looked, Joined, StaleLooked, SlotGranted, SlotTooLate,
       Extracted, Stored, StaleStored, Unwinds, Strike, storeVars, vars, crawlVars
  <2> QED
    BY <2>1 DEF ThreadRuns, ThreadFails, Called, CacheExpires
<1>3. Counters /\ LeadInv /\ CallInv => CrawlTypeOK
  BY DEF LeadInv, LeadTypes, CallInv, CallsInv, ReadyInv, Asked, Returned, CrawlTypeOK, Strikes, Resolved
<1> QED
  BY <1>1, <1>2, <1>3, LeadAlways, CallAlways, PTL DEF CrawlSpec
=============================================================================
