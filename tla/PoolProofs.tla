---------------------------- MODULE PoolProofs ----------------------------
(***************************************************************************)
(* The worker pool for any number of calls, workers and slots.  PoolInv    *)
(* says where a worker can be: waiting in the idle queue, with one call,   *)
(* or on its way to be stopped, and it is kept by every step of a call, a  *)
(* thread or close().                                                      *)
(***************************************************************************)
EXTENDS WorkerPool, FiniteSetTheorems, SequenceTheorems, TLAPS

Tokens == Workers \cup {None}
CallSet == [kind : {"start", "exchange", "stop", "sweep"}, run : Runs \cup {None}, worker : Tokens]
Elements(s) == {s[i] : i \in 1..Len(s)}
Idle == Elements(idle)

PoolTypes ==
    /\ pc \in [Runs -> {"new"} \cup Waiting \cup Over]
    /\ slot \in [Runs -> Tokens]
    /\ reply \in [Runs -> {"none", "ok", "error"}]
    /\ doomed \in SUBSET Runs
    /\ idle \in Seq(Tokens)
    /\ slots \in SUBSET Workers
    /\ process \in [Workers -> {"unborn", "alive", "dead"}]
    /\ jobs \in [Workers -> 0..MaxJobs]
    /\ queue \in Seq(CallSet) /\ threads \in SUBSET CallSet
    /\ orphans \in SUBSET Workers
    /\ closer \in {"open", "gather", "drain", "sweep", "closed"}
    /\ deaths \in 0..MaxDeaths

(* A start is made once; its caller has no worker before it comes back.     *)
Single(s, x) == \A i, k \in 1..Len(s) : s[i] = x /\ s[k] = x => i = k

StartKnown(r) ==
    /\ Start(r) \in Calls => pc[r] \notin {"new", "get"} /\ (pc[r] = "start" => reply[r] = "none")
    /\ Start(r) \in threads => Start(r) \notin Queued
    /\ Single(queue, Start(r))

CallKnown(c) ==
    /\ c.kind = "start" => \E r \in Runs : c = Start(r)
    /\ c.kind \in {"exchange", "stop"} => c.worker # None

(* Which calls of run() hold a worker.                                      *)
HoldsWorker(r) ==
    /\ pc[r] \in {"new", "get"} => reply[r] = "none"
    /\ pc[r] = "start" => (slot[r] # None <=> reply[r] = "ok")
    /\ pc[r] = "exchange" => slot[r] # None /\ slot[r] \in slots
    /\ pc[r] \notin {"start", "exchange"} => slot[r] = None

(* A worker is nowhere, idle, used or on its way out; it is in the books as *)
(* long as it runs, and while it may get another task it is not worn out.   *)
Leaving == Stopping \cup orphans
Used(w) == \E r \in Runs : slot[r] = w

WorkerKnown(w) ==
    /\ Single(idle, w) /\ \A r, q \in Runs : slot[r] = w /\ slot[q] = w => r = q
    /\ Used(w) => w \notin Idle /\ w \notin Leaving
    /\ w \in Idle /\ closer \in {"open", "gather"} => w \notin Leaving
    /\ process[w] = "unborn" => w \notin Idle /\ w \notin Leaving /\ ~Used(w) /\ w \notin slots
    /\ process[w] = "unborn" \/ w \in Idle \/ Used(w) => jobs[w] < MaxJobs
    /\ process[w] = "alive" => w \in slots \/ w \in Leaving \/ Used(w)

(* What close() has come to: no call is left, then no start, and the        *)
(* workers that still run are those it missed.                              *)
ClosingInv ==
    /\ closer \in {"drain", "sweep", "closed"} => slots = {} /\ \A r \in Runs : pc[r] \notin Waiting
    /\ closer \in {"sweep", "closed"} =>
         /\ \A w \in Workers : process[w] = "alive" \/ w \in Leaving => w \in late
         /\ \A r \in Runs : Start(r) \notin Calls

PoolInv ==
    /\ PoolTypes
    /\ \A r \in Runs : StartKnown(r) /\ HoldsWorker(r)
    /\ \A c \in Calls : CallKnown(c)
    /\ \A w \in Workers : WorkerKnown(w)
    /\ ClosingInv

-----------------------------------------------------------------------------
(* Names are told apart: None is nobody, no call is of two kinds.           *)
LEMMA Names ==
  /\ None \notin Workers /\ None \notin Runs
  /\ \A r \in Runs : Start(r) \in CallSet /\ Start(r).kind = "start" /\ Start(r).run = r
  /\ \A r \in Runs, w \in Workers : Exchange(r, w) \in CallSet
  /\ \A r \in Runs \cup {None}, w \in Workers : Stop(r, w) \in CallSet
  /\ \A r, w : Stop(r, w).kind = "stop" /\ Stop(r, w).worker = w
  /\ \A r, w : Exchange(r, w).kind = "exchange" /\ Exchange(r, w).worker = w
  /\ Sweep \in CallSet /\ Sweep.kind = "sweep"
  BY WorkerPoolAssumption DEF Runs, Workers, Start, Exchange, Stop, Sweep, CallSet, Tokens

(* What is in a sequence, and whether once, as it grows and shrinks.        *)
LEMMA AppendKeeps ==
  ASSUME NEW S, NEW s \in Seq(S), NEW x \in S
  PROVE  /\ Append(s, x) \in Seq(S) /\ Elements(Append(s, x)) = Elements(s) \cup {x}
         /\ \A y : Single(s, y) /\ (y # x \/ y \notin Elements(s)) => Single(Append(s, x), y)
<1>1. /\ Append(s, x) \in Seq(S) /\ Len(s) \in Nat /\ Len(Append(s, x)) = Len(s) + 1
      /\ \A i \in 1..Len(s) : Append(s, x)[i] = s[i]
      /\ Append(s, x)[Len(s) + 1] = x
  BY AppendProperties
<1>2. \A i \in 1..Len(Append(s, x)) : i \in 1..Len(s) \/ i = Len(s) + 1
  BY <1>1
<1>3. Elements(Append(s, x)) = Elements(s) \cup {x}
  BY <1>1, <1>2 DEF Elements
<1>4. ASSUME NEW y, Single(s, y), y # x \/ y \notin Elements(s)
      PROVE  Single(Append(s, x), y)
  BY <1>1, <1>2, <1>4 DEF Single, Elements
<1> QED
  BY <1>1, <1>3, <1>4

LEMMA TailKeeps ==
  ASSUME NEW S, NEW s \in Seq(S), s # <<>>
  PROVE  /\ Tail(s) \in Seq(S) /\ Head(s) \in S
         /\ Elements(s) = Elements(Tail(s)) \cup {Head(s)}
         /\ \A y : Single(s, y) => /\ Single(Tail(s), y)
                                   /\ y = Head(s) => y \notin Elements(Tail(s))
<1>1. /\ Tail(s) \in Seq(S) /\ Len(s) \in Nat \ {0} /\ Len(Tail(s)) = Len(s) - 1
      /\ Head(s) = s[1] /\ 1 \in 1..Len(s) /\ Head(s) \in S
      /\ \A i \in 1..Len(Tail(s)) : i + 1 \in 1..Len(s) /\ Tail(s)[i] = s[i + 1]
  OBVIOUS
<1>2. Elements(s) = Elements(Tail(s)) \cup {Head(s)}
  <2>1. ASSUME NEW i \in 1..Len(s)
        PROVE  s[i] \in Elements(Tail(s)) \cup {Head(s)}
    <3>1. CASE i = 1
      BY <1>1, <3>1
    <3>2. CASE i # 1
      <4>1. i - 1 \in 1..Len(Tail(s)) /\ Tail(s)[i - 1] = s[i]
        BY <1>1, <3>2
      <4> QED
        BY <4>1 DEF Elements
    <3> QED
      BY <3>1, <3>2
  <2>2. Elements(Tail(s)) \cup {Head(s)} \subseteq Elements(s)
    BY <1>1 DEF Elements
  <2> QED
    BY <2>1, <2>2 DEF Elements
<1>3. ASSUME NEW y, Single(s, y)
      PROVE  Single(Tail(s), y) /\ (y = Head(s) => y \notin Elements(Tail(s)))
  <2>1. Single(Tail(s), y)
    BY <1>1, <1>3 DEF Single
  <2>2. ASSUME y = Head(s), NEW i \in 1..Len(Tail(s)), Tail(s)[i] = y
        PROVE  FALSE
    <3>1. i + 1 \in 1..Len(s) /\ s[i + 1] = y /\ s[1] = y /\ i + 1 # 1
      BY <1>1, <2>2
    <3> QED
      BY <1>1, <1>3, <3>1 DEF Single
  <2> QED
    BY <2>1, <2>2 DEF Elements
<1> QED
  BY <1>1, <1>2, <1>3

LEMMA DroppedKeeps ==
  ASSUME queue \in Seq(CallSet), NEW c
  PROVE  /\ Dropped(c) \in Seq(CallSet)
         /\ Elements(Dropped(c)) \subseteq Elements(queue)
         /\ Elements(queue) \ {c} \subseteq Elements(Dropped(c))
         /\ \A y : Single(queue, y) => Single(Dropped(c), y)
<1>1. CASE c \notin Queued
  BY <1>1 DEF Dropped, Elements
<1>2. CASE c \in Queued
  <2> DEFINE d == CHOOSE i \in 1..Len(queue) : queue[i] = c
             before == SubSeq(queue, 1, d - 1)
             after == SubSeq(queue, d + 1, Len(queue))
  <2>1. d \in 1..Len(queue) /\ queue[d] = c /\ Len(queue) \in Nat
    BY <1>2 DEF Queued
  <2>2. Dropped(c) = before \o after
    BY <1>2 DEF Dropped
  <2> HIDE DEF d
  <2>3. /\ before \in Seq(CallSet) /\ Len(before) = d - 1
        /\ \A i \in 1..Len(before) : before[i] = queue[i]
    BY <2>1
  <2>4. /\ after \in Seq(CallSet) /\ Len(after) = Len(queue) - d
        /\ \A i \in 1..Len(after) : after[i] = queue[i + d]
    BY <2>1
  <2> HIDE DEF before, after
  <2> DEFINE w == before \o after
  <2>5. /\ w \in Seq(CallSet) /\ Len(w) = Len(before) + Len(after)
        /\ \A i \in 1..Len(before) + Len(after) :
              w[i] = IF i <= Len(before) THEN before[i] ELSE after[i - Len(before)]
    BY <2>3, <2>4, ConcatProperties, Zenon
  <2> HIDE DEF w
  <2>6. Len(w) = Len(queue) - 1
    BY <2>1, <2>3, <2>4, <2>5
  <2>7. ASSUME NEW i \in 1..Len(w)
        PROVE  /\ i < d => i \in 1..Len(queue) /\ w[i] = queue[i]
               /\ ~(i < d) => i + 1 \in 1..Len(queue) /\ i + 1 # d /\ w[i] = queue[i + 1]
    <3>1. CASE i < d
      BY <3>1, <2>1, <2>3, <2>4, <2>5, <2>6
    <3>2. CASE ~(i < d)
      <4>1. i - Len(before) \in 1..Len(after) /\ (i - Len(before)) + d = i + 1
        BY <3>2, <2>1, <2>3, <2>4, <2>6
      <4>2. ~(i <= Len(before)) /\ i \in 1..Len(before) + Len(after)
        BY <3>2, <2>1, <2>3, <2>4, <2>6
      <4>3. w[i] = after[i - Len(before)]
        BY <4>2, <2>5
      <4>4. after[i - Len(before)] = queue[i + 1]
        BY <4>1, <2>4
      <4>5. i + 1 \in 1..Len(queue) /\ i + 1 # d
        BY <3>2, <2>1, <2>6
      <4> QED
        BY <3>2, <4>3, <4>4, <4>5
    <3> QED
      BY <3>1, <3>2
  <2>8. Elements(w) \subseteq Elements(queue)
    BY <2>1, <2>7 DEF Elements
  <2>9. ASSUME NEW i \in 1..Len(queue), i # d
        PROVE  \E k \in 1..Len(w) : w[k] = queue[i]
    <3>1. CASE i < d
      <4>1. i \in 1..Len(w)
        BY <2>1, <2>6, <3>1
      <4> QED
        BY <2>7, <3>1, <4>1
    <3>2. CASE i > d
      <4>1. i - 1 \in 1..Len(w) /\ ~(i - 1 < d) /\ (i - 1) + 1 = i
        BY <2>1, <2>6, <3>2
      <4> QED
        BY <2>7, <4>1
    <3> QED
      BY <2>1, <2>9, <3>1, <3>2
  <2>10. Elements(queue) \ {c} \subseteq Elements(w)
    BY <2>1, <2>9 DEF Elements
  <2>11. \A y : Single(queue, y) => Single(w, y)
    BY <2>1, <2>6, <2>7, SMTT(30) DEF Single
  <2> QED
    BY <2>2, <2>5, <2>8, <2>10, <2>11 DEF w
<1> QED
  BY <1>1, <1>2

-----------------------------------------------------------------------------
(* The queue gets the calls N and may lose the calls D, which stop nothing. *)
QueueMoves(N, D) ==
    /\ queue' \in Seq(CallSet)
    /\ Queued' \subseteq Queued \cup N /\ (Queued \ D) \cup N \subseteq Queued'
    /\ \A y : Single(queue, y) /\ (y \notin N \/ y \notin Queued) => Single(queue', y)
    /\ \A c \in D : c.kind # "stop"

LEMMA QueueStays == PoolTypes /\ queue' = queue => QueueMoves({}, {})
  BY DEF PoolTypes, QueueMoves, Queued

LEMMA QueueGets ==
  ASSUME PoolTypes, NEW c \in CallSet, queue' = Append(queue, c)
  PROVE  QueueMoves({c}, {})
<1>1. queue \in Seq(CallSet) /\ Elements(queue) = Queued /\ Elements(queue') = Queued'
  BY DEF PoolTypes, Elements, Queued
<1> QED
  BY <1>1, AppendKeeps DEF QueueMoves

LEMMA QueueDrops ==
  ASSUME PoolTypes, NEW d, d.kind # "stop", queue' = Dropped(d)
  PROVE  QueueMoves({}, {d})
<1>1. queue \in Seq(CallSet) /\ Elements(queue) = Queued /\ Elements(queue') = Queued'
  BY DEF PoolTypes, Elements, Queued
<1> QED
  BY <1>1, DroppedKeeps DEF QueueMoves

LEMMA QueueDropsAndGets ==
  ASSUME PoolTypes, NEW d, d.kind # "stop", NEW c \in CallSet, queue' = Append(Dropped(d), c)
  PROVE  QueueMoves({c}, {d})
<1>1. queue \in Seq(CallSet) /\ Elements(queue) = Queued /\ Elements(queue') = Queued'
  BY DEF PoolTypes, Elements, Queued
<1>2. /\ Dropped(d) \in Seq(CallSet)
      /\ Elements(Dropped(d)) \subseteq Queued /\ Queued \ {d} \subseteq Elements(Dropped(d))
      /\ \A y : Single(queue, y) => Single(Dropped(d), y)
  BY <1>1, DroppedKeeps
<1>3. /\ queue' \in Seq(CallSet) /\ Queued' = Elements(Dropped(d)) \cup {c}
      /\ \A y : Single(Dropped(d), y) /\ (y # c \/ y \notin Elements(Dropped(d))) => Single(queue', y)
  BY <1>1, <1>2, AppendKeeps
<1> QED
  BY <1>2, <1>3 DEF QueueMoves

LEMMA LeavingMoves ==
  ASSUME NEW N, NEW D, QueueMoves(N, D), UNCHANGED <<threads, orphans>>
  PROVE  Leaving' = Leaving \cup {c.worker : c \in {d \in N : d.kind = "stop"}}
<1>1. \A c : c.kind = "stop" => (c \in Calls' <=> c \in Calls \/ c \in N)
  BY DEF QueueMoves, Calls
<1> QED
  BY <1>1 DEF Leaving, Stopping

(* A call of run() does a step in which only the worker t changes hands.    *)
RunMoves(r, t, N) ==
    /\ UNCHANGED <<threads, process, orphans, late, closer>>
    /\ \A q \in Runs \ {r} :
         /\ pc'[q] = pc[q] /\ reply'[q] = reply[q] /\ slot'[q] = slot[q]
         /\ t = None \/ slot[q] # t
    /\ \A w \in Workers \ {t} :
         /\ w \in Idle' <=> w \in Idle
         /\ Single(idle, w) => Single(idle', w)
         /\ slot'[r] = w <=> slot[r] = w
         /\ w \in slots' <=> w \in slots
         /\ jobs'[w] = jobs[w]
    /\ \A c \in N : /\ CallKnown(c)
                    /\ c.kind = "stop" => c.worker = t
                    /\ \A q \in Runs : c = Start(q) => q = r /\ pc[r] = "get" /\ pc'[r] = "start"
    /\ pc[r] \in Waiting
    /\ pc'[r] \in {"new", "get"} => pc[r] \in {"new", "get"}
    /\ pc'[r] = "start" => reply'[r] = "none"

LEMMA RunKeeps ==
  ASSUME PoolInv, NEW r \in Runs, NEW t \in Tokens, NEW N, NEW D,
         QueueMoves(N, D), RunMoves(r, t, N),
         PoolTypes', HoldsWorker(r)', t \in Workers => WorkerKnown(t)'
  PROVE  PoolInv'
<1>1. Leaving' = Leaving \cup {c.worker : c \in {d \in N : d.kind = "stop"}}
  BY LeavingMoves DEF RunMoves
<1>2. closer \in {"open", "gather"} /\ closer' = closer
  BY DEF PoolInv, PoolTypes, ClosingInv, RunMoves
<1>3. ASSUME NEW q \in Runs
      PROVE  StartKnown(q)'
  <2>1. Start(q)' = Start(q)
    BY DEF Start
  <2>2. Calls' \subseteq Calls \cup N /\ Queued' \subseteq Queued \cup N
    BY DEF QueueMoves, Calls, RunMoves
  <2>3. CASE Start(q) \in N
    <3>1. q = r /\ pc[r] = "get" /\ pc'[r] = "start" /\ reply'[r] = "none"
      BY <2>3 DEF RunMoves
    <3>2. Start(q) \notin Calls
      BY <3>1 DEF PoolInv, StartKnown
    <3>3. Start(q) \notin threads' /\ Single(queue, Start(q)) /\ Start(q) \notin Queued
      BY <3>2 DEF Calls, RunMoves, PoolInv, StartKnown
    <3>4. Single(queue', Start(q))
      BY <3>3 DEF QueueMoves
    <3> QED
      BY <2>1, <3>1, <3>3, <3>4 DEF StartKnown, Single
  <2>4. CASE Start(q) \notin N
    <3>1. Start(q) \in Calls' => Start(q) \in Calls
      BY <2>2, <2>4
    <3>2. Start(q) \in Calls' => pc'[q] \notin {"new", "get"} /\ (pc'[q] = "start" => reply'[q] = "none")
      BY <3>1 DEF PoolInv, StartKnown, RunMoves
    <3>3. Start(q) \in threads' => Start(q) \notin Queued'
      BY <2>2, <2>4 DEF PoolInv, StartKnown, RunMoves
    <3>4. Single(queue', Start(q))
      BY <2>4 DEF PoolInv, StartKnown, QueueMoves
    <3> QED
      BY <2>1, <3>2, <3>3, <3>4 DEF StartKnown, Single
  <2> QED
    BY <2>3, <2>4
<1>4. ASSUME NEW q \in Runs \ {r}
      PROVE  HoldsWorker(q)'
  <2>1. /\ pc'[q] = pc[q] /\ reply'[q] = reply[q] /\ slot'[q] = slot[q]
        /\ t = None \/ slot[q] # t
    BY DEF RunMoves
  <2>2. slot[q] # None => slot[q] \in Workers
    BY DEF PoolInv, PoolTypes, Tokens
  <2>3. slot[q] # None /\ slot[q] \in slots => slot[q] \in slots'
    BY <2>1, <2>2 DEF RunMoves
  <2> QED
    BY <2>1, <2>3 DEF PoolInv, HoldsWorker
<1>5. \A c \in Calls' : CallKnown(c)
  BY DEF QueueMoves, Calls, RunMoves, PoolInv
<1>6. ASSUME NEW w \in Workers \ {t}
      PROVE  WorkerKnown(w)'
  <2>1. w \in Leaving' <=> w \in Leaving
    BY <1>1 DEF RunMoves
  <2>2. \A q \in Runs : slot'[q] = w <=> slot[q] = w
    BY DEF RunMoves
  <2>3. Used(w)' <=> Used(w)
    BY <2>2 DEF Used
  <2>4. /\ w \in Idle' <=> w \in Idle
        /\ Single(idle, w) => Single(idle', w)
        /\ w \in slots' <=> w \in slots
        /\ jobs'[w] = jobs[w] /\ process'[w] = process[w]
    BY DEF RunMoves
  <2>5. WorkerKnown(w) /\ Single(idle, w)
    BY DEF PoolInv, WorkerKnown
  <2>6. Single(idle, w)'
    BY <2>4, <2>5 DEF Single
  <2> QED
    BY <1>2, <2>1, <2>2, <2>3, <2>4, <2>5, <2>6 DEF WorkerKnown
<1>7. ClosingInv'
  BY <1>2 DEF ClosingInv
<1> QED
  BY <1>3, <1>4, <1>5, <1>6, <1>7 DEF PoolInv, CallKnown

-----------------------------------------------------------------------------
(* What the ends of a step come to.  The token given back is None or a      *)
(* worker that is not idle already.                                         *)
LEMMA IdleGets ==
  ASSUME PoolTypes, NEW t \in Tokens, idle' = GiveBack(t), t = None \/ t \notin Idle
  PROVE  /\ idle' \in Seq(Tokens)
         /\ \A w \in Workers \ {t} : (w \in Idle' <=> w \in Idle) /\ (Single(idle, w) => Single(idle', w))
         /\ closed => idle' = idle
         /\ ~closed => t \in Idle' /\ (Single(idle, t) /\ t # None => Single(idle', t))
<1>1. idle \in Seq(Tokens)
  BY DEF PoolTypes
<1>2. CASE closed
  BY <1>1, <1>2 DEF GiveBack, Idle
<1>3. CASE ~closed
  <2>1. idle' = Append(idle, t)
    BY <1>3 DEF GiveBack
  <2>2. /\ idle' \in Seq(Tokens) /\ Elements(idle') = Elements(idle) \cup {t}
        /\ \A y : Single(idle, y) /\ (y # t \/ y \notin Elements(idle)) => Single(idle', y)
    BY <1>1, <2>1, AppendKeeps
  <2>3. Idle' = Elements(idle')
    BY DEF Idle, Elements
  <2> QED
    BY <1>3, <2>2, <2>3 DEF Idle
<1> QED
  BY <1>2, <1>3

LEMMA Leaves ==
  ASSUME PoolTypes, NEW r \in Runs, NEW how \in Over, NEW t, Leave(r, how, t)
  PROVE  /\ pc' \in [Runs -> {"new"} \cup Waiting \cup Over] /\ pc'[r] = how
         /\ slot' \in [Runs -> Tokens] /\ slot'[r] = None
         /\ reply' \in [Runs -> {"none", "ok", "error"}] /\ doomed' \in SUBSET Runs
         /\ \A q \in Runs \ {r} : pc'[q] = pc[q] /\ reply'[q] = reply[q] /\ slot'[q] = slot[q]
         /\ HoldsWorker(r)' /\ idle' = GiveBack(t)
  BY DEF PoolTypes, Leave, Tokens, Over, HoldsWorker

LEMMA Retires ==
  ASSUME PoolTypes, NEW r \in Runs, NEW at \in {"retire", "cleanup"}, NEW w, Retire(r, w, at)
  PROVE  /\ pc' \in [Runs -> {"new"} \cup Waiting \cup Over] /\ pc'[r] = at
         /\ slot' \in [Runs -> Tokens] /\ slot'[r] = None
         /\ reply' \in [Runs -> {"none", "ok", "error"}]
         /\ slots' \in SUBSET Workers /\ slots' = slots \ {w}
         /\ \A q \in Runs \ {r} : pc'[q] = pc[q] /\ reply'[q] = reply[q] /\ slot'[q] = slot[q]
         /\ HoldsWorker(r)'
  BY DEF PoolTypes, Retire, Tokens, Waiting, HoldsWorker

(* A worker that is to be stopped, after its last call.                     *)
LEMMA StoppedIsKnown ==
  ASSUME PoolInv, NEW w \in Workers, process[w] # "unborn", process' = process,
         w \in Leaving', w \notin Idle', \A q \in Runs : slot'[q] # w
  PROVE  WorkerKnown(w)'
<1>1. Single(idle, w)'
  BY DEF Idle, Elements, Single
<1>2. ~Used(w)' /\ \A r, q \in Runs : slot'[r] = w /\ slot'[q] = w => r = q
  BY DEF Used
<1> QED
  BY <1>1, <1>2 DEF WorkerKnown

(* A worker of one call.                                                    *)
LEMMA UsedIsKnown ==
  ASSUME PoolInv, NEW w \in Workers, process' = process, process[w] # "unborn",
         w \notin Idle', w \notin Leaving', jobs'[w] < MaxJobs,
         NEW r \in Runs, \A q \in Runs : slot'[q] = w <=> q = r
  PROVE  WorkerKnown(w)'
<1>1. Single(idle, w)'
  BY DEF Idle, Elements, Single
<1>2. Used(w)'
  BY DEF Used
<1> QED
  BY <1>1, <1>2 DEF WorkerKnown

(* Hand the worker t, which nobody else has and which is not idle any more, *)
(* a task, or send it off at once.                                          *)
LEMMA HandOverKeeps ==
  ASSUME PoolInv, NEW r \in Runs, NEW t \in Workers, HandOver(r, t), pc[r] \in Waiting,
         UNCHANGED <<doomed, process, jobs, threads, orphans, late, closer, deaths>>,
         idle' \in Seq(Tokens), t \notin Idle', t \notin Leaving, process[t] # "unborn", jobs[t] < MaxJobs,
         slot[r] \in {t, None}, \A q \in Runs \ {r} : slot[q] # t,
         \A w \in Workers \ {t} : (w \in Idle' <=> w \in Idle) /\ (Single(idle, w) => Single(idle', w))
  PROVE  PoolInv'
<1>1. PoolTypes /\ t \in Tokens /\ t # None /\ None \notin Workers
  BY Names DEF PoolInv, Tokens
<1>2. CASE Retire(r, t, "cleanup") /\ queue' = Append(queue, Stop(r, t))
  <2> DEFINE N == {Stop(r, t)}
  <2>1. /\ pc' \in [Runs -> {"new"} \cup Waiting \cup Over] /\ pc'[r] = "cleanup"
        /\ slot' \in [Runs -> Tokens] /\ slot'[r] = None
        /\ reply' \in [Runs -> {"none", "ok", "error"}]
        /\ slots' \in SUBSET Workers /\ slots' = slots \ {t}
        /\ \A q \in Runs \ {r} : pc'[q] = pc[q] /\ reply'[q] = reply[q] /\ slot'[q] = slot[q]
        /\ HoldsWorker(r)'
    BY <1>1, <1>2, Retires
  <2>2. QueueMoves(N, {}) /\ Stop(r, t).kind = "stop" /\ Stop(r, t).worker = t
        /\ \A q \in Runs : Stop(r, t) # Start(q)
    BY <1>1, <1>2, QueueGets, Names
  <2>3. RunMoves(r, t, N)
    BY <1>1, <2>1, <2>2 DEF RunMoves, CallKnown
  <2>4. PoolTypes'
    BY <1>1, <2>1, <2>2 DEF PoolTypes, QueueMoves
  <2>5. t \in Leaving'
    BY <2>2, LeavingMoves
  <2>6. WorkerKnown(t)'
    BY <1>1, <2>1, <2>5, StoppedIsKnown
  <2> QED
    BY <1>1, <2>1, <2>2, <2>3, <2>4, <2>6, RunKeeps
<1>3. CASE /\ pc' = [pc EXCEPT ![r] = "exchange"] /\ slot' = [slot EXCEPT ![r] = t]
           /\ reply' = [reply EXCEPT ![r] = "none"]
           /\ queue' = Append(queue, Exchange(r, t)) /\ slots' = slots \cup {t}
  <2> DEFINE N == {Exchange(r, t)}
  <2>1. /\ pc' \in [Runs -> {"new"} \cup Waiting \cup Over] /\ pc'[r] = "exchange"
        /\ slot' \in [Runs -> Tokens] /\ slot'[r] = t
        /\ reply' \in [Runs -> {"none", "ok", "error"}] /\ slots' \in SUBSET Workers
        /\ \A q \in Runs \ {r} : pc'[q] = pc[q] /\ reply'[q] = reply[q] /\ slot'[q] = slot[q]
        /\ HoldsWorker(r)'
    BY <1>1, <1>3 DEF PoolTypes, Waiting, HoldsWorker
  <2>2. /\ QueueMoves(N, {}) /\ Exchange(r, t).kind = "exchange" /\ Exchange(r, t).worker = t
        /\ \A q \in Runs : Exchange(r, t) # Start(q)
    BY <1>1, <1>3, QueueGets, Names
  <2>3. RunMoves(r, t, N)
    BY <1>1, <1>3, <2>1, <2>2 DEF RunMoves, CallKnown
  <2>4. PoolTypes'
    BY <1>1, <2>1, <2>2 DEF PoolTypes, QueueMoves
  <2>5. t \notin Leaving'
    BY <2>2, LeavingMoves
  <2>6. WorkerKnown(t)'
    BY <1>1, <2>1, <2>5, UsedIsKnown
  <2> QED
    BY <1>1, <2>1, <2>2, <2>3, <2>4, <2>6, RunKeeps
<1> QED
  BY <1>2, <1>3 DEF HandOver

-----------------------------------------------------------------------------
(* The steps of a call.  One that only waits or leaves with empty hands:    *)
LEMMA EmptyHandedKeeps ==
  ASSUME PoolInv, NEW r \in Runs, Leave(r, "failed", None) \/ Leave(r, "done", None),
         slot[r] = None, pc[r] \in Waiting, NEW D, QueueMoves({}, D),
         UNCHANGED <<slots, process, jobs, threads, orphans, late, closer, deaths>>
  PROVE  PoolInv'
<1>1. PoolTypes /\ None \in Tokens /\ None \notin Workers
  BY Names DEF PoolInv, Tokens
<1>2. PICK how \in Over : Leave(r, how, None)
  BY DEF Over
<1>3. /\ pc' \in [Runs -> {"new"} \cup Waiting \cup Over] /\ pc'[r] \in Over
      /\ slot' \in [Runs -> Tokens] /\ slot'[r] = None
      /\ reply' \in [Runs -> {"none", "ok", "error"}] /\ doomed' \in SUBSET Runs
      /\ \A q \in Runs \ {r} : pc'[q] = pc[q] /\ reply'[q] = reply[q] /\ slot'[q] = slot[q]
      /\ HoldsWorker(r)' /\ idle' = GiveBack(None)
  BY <1>1, <1>2, Leaves
<1>4. /\ idle' \in Seq(Tokens)
      /\ \A w \in Workers \ {None} : (w \in Idle' <=> w \in Idle) /\ (Single(idle, w) => Single(idle', w))
  BY <1>1, <1>3, IdleGets
<1>5. RunMoves(r, None, {})
  BY <1>1, <1>3, <1>4 DEF RunMoves, Over
<1>6. PoolTypes'
  BY <1>1, <1>3, <1>4 DEF PoolTypes, QueueMoves
<1> QED
  BY <1>1, <1>3, <1>5, <1>6, RunKeeps

LEMMA TakeTokenKeeps ==
  ASSUME PoolInv, NEW r \in Runs, TakeToken(r)
  PROVE  PoolInv'
<1> DEFINE t == Head(idle)
<1>1. /\ PoolTypes /\ None \in Tokens /\ None \notin Workers /\ pc[r] = "get" /\ pc[r] \in Waiting
      /\ idle \in Seq(Tokens) /\ idle # <<>> /\ slot[r] = None /\ reply[r] = "none"
  BY Names DEF PoolInv, PoolTypes, HoldsWorker, TakeToken, Waiting, Tokens
<1>2. /\ idle' \in Seq(Tokens) /\ t \in Tokens /\ Idle = Idle' \cup {t}
      /\ \A y : Single(idle, y) => Single(idle', y) /\ (y = t => y \notin Idle')
  <2>1. Idle' = Elements(Tail(idle)) /\ idle' = Tail(idle)
    BY DEF Idle, Elements, TakeToken
  <2> QED
    BY <1>1, <2>1, TailKeeps DEF Idle
<1> HIDE DEF t
<1>3. \A w \in Workers \ {t} : (w \in Idle' <=> w \in Idle) /\ (Single(idle, w) => Single(idle', w))
  BY <1>2
<1>4. CASE t = None
  <2>1. /\ pc' = [pc EXCEPT ![r] = "start"] /\ queue' = Append(queue, Start(r))
        /\ UNCHANGED <<slot, reply, slots, doomed, process, jobs, threads, orphans, late, closer, deaths>>
    BY <1>4 DEF TakeToken, t
  <2>2. /\ pc' \in [Runs -> {"new"} \cup Waiting \cup Over] /\ pc'[r] = "start"
        /\ \A q \in Runs \ {r} : pc'[q] = pc[q]
    BY <1>1, <2>1 DEF PoolTypes, Waiting
  <2>3. /\ QueueMoves({Start(r)}, {}) /\ Start(r).kind = "start"
        /\ \A q \in Runs : Start(r) = Start(q) => q = r
    BY <1>1, <2>1, QueueGets, Names, SMTT(30)
  <2>4. RunMoves(r, None, {Start(r)})
    BY <1>1, <1>3, <1>4, <2>1, <2>2, <2>3 DEF RunMoves, CallKnown
  <2>5. PoolTypes' /\ HoldsWorker(r)'
    BY <1>1, <1>2, <2>1, <2>2, <2>3 DEF PoolTypes, QueueMoves, HoldsWorker
  <2> QED
    BY <1>1, <2>3, <2>4, <2>5, RunKeeps
<1>5. CASE t # None
  <2>1. t \in Workers /\ HandOver(r, t)
        /\ UNCHANGED <<doomed, process, jobs, threads, orphans, late, closer, deaths>>
    BY <1>2, <1>5 DEF TakeToken, t, Tokens
  <2>2. WorkerKnown(t) /\ t \in Idle /\ closer \in {"open", "gather"}
    BY <1>1, <1>2, <2>1 DEF PoolInv, PoolTypes, ClosingInv
  <2>3. /\ t \notin Idle' /\ t \notin Leaving /\ process[t] # "unborn" /\ jobs[t] < MaxJobs
        /\ \A q \in Runs : slot[q] # t
    BY <1>2, <2>2 DEF WorkerKnown, Used
  <2> QED
    BY <1>1, <1>2, <1>3, <2>1, <2>3, HandOverKeeps
<1> QED
  BY <1>4, <1>5

LEMMA GetInterruptedKeeps ==
  ASSUME PoolInv, NEW r \in Runs, GetInterrupted(r)
  PROVE  PoolInv'
<1>1. /\ PoolTypes /\ None \in Tokens /\ None \notin Workers /\ pc[r] = "get" /\ pc[r] \in Waiting
      /\ slot[r] = None
  BY Names DEF PoolInv, HoldsWorker, GetInterrupted, Waiting, Tokens
<1>2. /\ pc' = [pc EXCEPT ![r] = "failed"] /\ doomed' = doomed \ {r}
      /\ UNCHANGED <<slot, reply, idle, slots, jobs, queue, threads, orphans, late, process, closer, deaths>>
  BY DEF GetInterrupted, poolVars, threadVars
<1>3. /\ pc' \in [Runs -> {"new"} \cup Waiting \cup Over] /\ pc'[r] = "failed"
      /\ \A q \in Runs \ {r} : pc'[q] = pc[q]
  BY <1>1, <1>2 DEF PoolTypes, Over
<1>4. QueueMoves({}, {}) /\ Idle' = Idle
  BY <1>1, <1>2, QueueStays DEF Idle
<1>5. RunMoves(r, None, {})
  BY <1>1, <1>2, <1>3, <1>4 DEF RunMoves
<1>6. PoolTypes' /\ HoldsWorker(r)'
  BY <1>1, <1>2, <1>3 DEF PoolTypes, HoldsWorker
<1> QED
  BY <1>1, <1>4, <1>5, <1>6, RunKeeps

(* What a call's own worker is.                                             *)
LEMMA OwnWorker ==
  ASSUME PoolInv, NEW r \in Runs, slot[r] # None
  PROVE  /\ slot[r] \in Workers /\ pc[r] \in {"start", "exchange"} /\ pc[r] \in Waiting
         /\ slot[r] \notin Idle /\ slot[r] \notin Leaving /\ process[slot[r]] # "unborn"
         /\ jobs[slot[r]] < MaxJobs /\ \A q \in Runs \ {r} : slot[q] # slot[r]
         /\ Single(idle, slot[r])
<1>1. slot[r] \in Workers /\ HoldsWorker(r)
  BY DEF PoolInv, PoolTypes, Tokens
<1>2. WorkerKnown(slot[r]) /\ Used(slot[r])
  BY <1>1 DEF PoolInv, Used
<1> QED
  BY <1>1, <1>2 DEF HoldsWorker, WorkerKnown, Waiting

LEMMA StartedKeeps ==
  ASSUME PoolInv, NEW r \in Runs, Started(r)
  PROVE  PoolInv'
<1>1. /\ PoolTypes /\ pc[r] = "start" /\ pc[r] \in Waiting /\ (slot[r] # None <=> reply[r] = "ok")
      /\ UNCHANGED <<process, jobs, threads, orphans, late, closer, deaths>>
  BY DEF PoolInv, HoldsWorker, Started, Waiting
<1>2. CASE reply[r] = "ok" /\ HandOver(r, slot[r]) /\ UNCHANGED <<doomed, idle>>
  <2>1. idle' \in Seq(Tokens) /\ Idle' = Idle
    BY <1>1, <1>2 DEF PoolTypes, Idle
  <2> QED
    BY <1>1, <1>2, <2>1, OwnWorker, HandOverKeeps
<1>3. CASE reply[r] = "error" /\ Leave(r, "failed", None) /\ UNCHANGED <<slots, queue>>
  BY <1>1, <1>3, QueueStays, EmptyHandedKeeps
<1> QED
  BY <1>2, <1>3 DEF Started

(* A call sends its worker off.                                             *)
LEMMA SendOffKeeps ==
  ASSUME PoolInv, NEW r \in Runs, NEW t \in Workers, slot[r] = t, NEW q \in {r, None}, NEW D,
         QueueMoves({Stop(q, t)}, D), PoolTypes', HoldsWorker(r)',
         slot'[r] = None, slots' \cup {t} = slots \cup {t},
         pc'[r] \notin {"new", "get", "start"},
         \A p \in Runs \ {r} : pc'[p] = pc[p] /\ reply'[p] = reply[p] /\ slot'[p] = slot[p],
         \A w \in Workers \ {t} :
             (w \in Idle' <=> w \in Idle) /\ (Single(idle, w) => Single(idle', w)) /\ jobs'[w] = jobs[w],
         t \notin Idle',
         UNCHANGED <<process, threads, orphans, late, closer>>
  PROVE  PoolInv'
<1>1. /\ t \in Tokens /\ t # None /\ None \notin Workers /\ pc[r] \in Waiting
      /\ process[t] # "unborn" /\ \A p \in Runs \ {r} : slot[p] # t
  BY OwnWorker, Names DEF Tokens
<1>2. /\ Stop(q, t).kind = "stop" /\ Stop(q, t).worker = t /\ \A p \in Runs : Stop(q, t) # Start(p)
  BY Names
<1>3. RunMoves(r, t, {Stop(q, t)})
  BY <1>1, <1>2 DEF RunMoves, CallKnown
<1>4. t \in Leaving'
  BY <1>2, LeavingMoves
<1>5. WorkerKnown(t)'
  BY <1>1, <1>4, StoppedIsKnown
<1> QED
  BY <1>1, <1>3, <1>5, RunKeeps

LEMMA StartCancelledKeeps ==
  ASSUME PoolInv, NEW r \in Runs, StartCancelled(r)
  PROVE  PoolInv'
<1>1. /\ PoolTypes /\ pc[r] = "start" /\ pc[r] \in Waiting /\ (slot[r] # None <=> reply[r] = "ok")
      /\ Leave(r, "failed", None) /\ None \notin Workers /\ None \in Tokens
      /\ UNCHANGED <<slots, process, jobs, threads, orphans, late, closer, deaths>>
  BY Names DEF PoolInv, HoldsWorker, StartCancelled, Waiting, Tokens
<1>2. CASE reply[r] = "ok"
  <2>1. PICK t \in Workers : t = slot[r] /\ Stop(None, t) \in CallSet /\ t \notin Idle
    BY <1>1, <1>2, OwnWorker, Names
  <2>2. QueueMoves({Stop(None, t)}, {})
    BY <1>1, <1>2, <2>1, QueueGets DEF StartCancelled
  <2>3. /\ pc' \in [Runs -> {"new"} \cup Waiting \cup Over] /\ pc'[r] = "failed"
        /\ slot' \in [Runs -> Tokens] /\ slot'[r] = None
        /\ reply' \in [Runs -> {"none", "ok", "error"}] /\ doomed' \in SUBSET Runs
        /\ \A q \in Runs \ {r} : pc'[q] = pc[q] /\ reply'[q] = reply[q] /\ slot'[q] = slot[q]
        /\ HoldsWorker(r)' /\ idle' = GiveBack(None)
    BY <1>1, Leaves DEF Over
  <2>4. /\ idle' \in Seq(Tokens)
        /\ \A w \in Workers \ {None} : (w \in Idle' <=> w \in Idle) /\ (Single(idle, w) => Single(idle', w))
    BY <1>1, <2>3, IdleGets
  <2>5. PoolTypes'
    BY <1>1, <2>2, <2>3, <2>4 DEF PoolTypes, QueueMoves
  <2> QED
    BY <1>1, <2>1, <2>2, <2>3, <2>4, <2>5, SendOffKeeps
<1>3. CASE reply[r] # "ok"
  <2>1. QueueMoves({}, {Start(r)})
    BY <1>1, <1>3, Names, QueueDrops DEF StartCancelled
  <2> QED
    BY <1>1, <1>3, <2>1, EmptyHandedKeeps
<1> QED
  BY <1>2, <1>3

LEMMA RepliedKeeps ==
  ASSUME PoolInv, NEW r \in Runs, Replied(r)
  PROVE  PoolInv'
<1>0. PICK t : t = slot[r]
  OBVIOUS
<1>1. /\ PoolTypes /\ pc[r] = "exchange" /\ pc[r] \in Waiting /\ t # None /\ t \in slots
      /\ jobs' = [jobs EXCEPT ![t] = @ + 1] /\ UNCHANGED <<process, threads, orphans, late, closer, deaths>>
  BY <1>0 DEF PoolInv, HoldsWorker, Replied, Waiting
<1>2. /\ t \in Workers /\ t \in Tokens /\ t \notin Idle /\ t \notin Leaving /\ process[t] # "unborn"
      /\ jobs[t] < MaxJobs /\ Single(idle, t) /\ \A q \in Runs \ {r} : slot[q] # t
  BY <1>0, <1>1, OwnWorker DEF Tokens
<1>3. /\ jobs' \in [Workers -> 0..MaxJobs] /\ \A w \in Workers \ {t} : jobs'[w] = jobs[w]
      /\ jobs'[t] = jobs[t] + 1 /\ jobs[t] \in Nat
  BY <1>1, <1>2, WorkerPoolAssumption DEF PoolTypes
<1>4. CASE WornOut(t) /\ Retire(r, t, "retire") /\ queue' = Append(queue, Stop(r, t))
           /\ UNCHANGED <<doomed, idle>>
  <2>1. /\ pc' \in [Runs -> {"new"} \cup Waiting \cup Over] /\ pc'[r] = "retire"
        /\ slot' \in [Runs -> Tokens] /\ slot'[r] = None
        /\ reply' \in [Runs -> {"none", "ok", "error"}]
        /\ slots' \in SUBSET Workers /\ slots' = slots \ {t}
        /\ \A q \in Runs \ {r} : pc'[q] = pc[q] /\ reply'[q] = reply[q] /\ slot'[q] = slot[q]
        /\ HoldsWorker(r)'
    BY <1>1, <1>4, Retires
  <2>2. QueueMoves({Stop(r, t)}, {})
    BY <1>1, <1>2, <1>4, QueueGets, Names
  <2>3. PoolTypes' /\ Idle' = Idle
    BY <1>1, <1>3, <1>4, <2>1, <2>2 DEF PoolTypes, QueueMoves, Idle
  <2> QED
    BY <1>0, <1>1, <1>2, <1>3, <1>4, <2>1, <2>2, <2>3, SendOffKeeps, ZenonT(40)
<1>5. CASE ~WornOut(t) /\ Leave(r, "done", t) /\ UNCHANGED <<slots, queue>>
  <2>1. /\ pc' \in [Runs -> {"new"} \cup Waiting \cup Over] /\ pc'[r] = "done"
        /\ slot' \in [Runs -> Tokens] /\ slot'[r] = None
        /\ reply' \in [Runs -> {"none", "ok", "error"}] /\ doomed' \in SUBSET Runs
        /\ \A q \in Runs \ {r} : pc'[q] = pc[q] /\ reply'[q] = reply[q] /\ slot'[q] = slot[q]
        /\ HoldsWorker(r)' /\ idle' = GiveBack(t)
    BY <1>1, <1>5, Leaves DEF Over
  <2>2. /\ idle' \in Seq(Tokens)
        /\ \A w \in Workers \ {t} : (w \in Idle' <=> w \in Idle) /\ (Single(idle, w) => Single(idle', w))
        /\ closed => idle' = idle
        /\ ~closed => t \in Idle' /\ (Single(idle, t) /\ t # None => Single(idle', t))
    BY <1>1, <1>2, <2>1, IdleGets
  <2>3. QueueMoves({}, {}) /\ Leaving' = Leaving
    <3>1. QueueMoves({}, {})
      BY <1>1, <1>5, QueueStays
    <3>2. Leaving' = Leaving \cup {c.worker : c \in {d \in {} : d.kind = "stop"}}
      BY <1>1, <3>1, LeavingMoves
    <3>3. {c.worker : c \in {d \in {} : d.kind = "stop"}} = {}
      OBVIOUS
    <3> QED
      BY <3>1, <3>2, <3>3
  <2>4. PoolTypes'
    BY <1>1, <1>3, <1>5, <2>1, <2>2, <2>3 DEF PoolTypes, QueueMoves
  <2>5. RunMoves(r, t, {})
    BY <1>0, <1>1, <1>2, <1>3, <1>5, <2>1, <2>2, Names DEF RunMoves
  <2>6. WorkerKnown(t)'
    <3>1. ~Used(t)' /\ \A q \in Runs : slot'[q] # t
      BY <1>1, <1>2, <2>1 DEF Used
    <3>2. Single(idle, t)' /\ t \in slots' /\ process'[t] # "unborn" /\ t \notin Leaving'
      BY <1>1, <1>2, <1>5, <2>2, <2>3 DEF Single
    <3>3. jobs'[t] < MaxJobs
      BY <1>2, <1>3, <1>5, WorkerPoolAssumption DEF WornOut
    <3> QED
      BY <3>1, <3>2, <3>3 DEF WorkerKnown
  <2> QED
    BY <1>1, <1>2, <2>1, <2>3, <2>4, <2>5, <2>6, RunKeeps
<1> QED
  BY <1>0, <1>4, <1>5 DEF Replied

LEMMA ExchangeBrokenKeeps ==
  ASSUME PoolInv, NEW r \in Runs, ExchangeBroken(r)
  PROVE  PoolInv'
<1>0. PICK t : t = slot[r]
  OBVIOUS
<1>1. /\ PoolTypes /\ pc[r] = "exchange" /\ t # None /\ Retire(r, t, "cleanup") /\ doomed' = doomed \ {r}
      /\ queue' = Append(Dropped(Exchange(r, t)), Stop(r, t))
      /\ UNCHANGED <<idle, process, jobs, threads, orphans, late, closer, deaths>>
  BY <1>0 DEF PoolInv, HoldsWorker, ExchangeBroken
<1>2. t \in Workers /\ t \notin Idle
  BY <1>0, <1>1, OwnWorker
<1>3. /\ pc' \in [Runs -> {"new"} \cup Waiting \cup Over] /\ pc'[r] = "cleanup"
      /\ slot' \in [Runs -> Tokens] /\ slot'[r] = None
      /\ reply' \in [Runs -> {"none", "ok", "error"}]
      /\ slots' \in SUBSET Workers /\ slots' = slots \ {t}
      /\ \A q \in Runs \ {r} : pc'[q] = pc[q] /\ reply'[q] = reply[q] /\ slot'[q] = slot[q]
      /\ HoldsWorker(r)'
  BY <1>1, Retires
<1>4. QueueMoves({Stop(r, t)}, {Exchange(r, t)})
  BY <1>1, <1>2, QueueDropsAndGets, Names
<1>5. PoolTypes' /\ Idle' = Idle
  BY <1>1, <1>3, <1>4 DEF PoolTypes, QueueMoves, Idle
<1> QED
  BY <1>0, <1>1, <1>2, <1>3, <1>4, <1>5, SendOffKeeps

LEMMA StopWaitEndsKeeps ==
  ASSUME PoolInv, NEW r \in Runs, Stopped(r) \/ StopWaitCancelled(r)
  PROVE  PoolInv'
<1>1. /\ PoolTypes /\ pc[r] \in Waiting /\ slot[r] = None
      /\ Leave(r, "failed", None) \/ Leave(r, "done", None)
      /\ UNCHANGED <<queue, slots, process, jobs, threads, orphans, late, closer, deaths>>
  BY DEF PoolInv, HoldsWorker, Stopped, StopWaitCancelled, Waiting, threadVars
<1> QED
  BY <1>1, QueueStays, EmptyHandedKeeps

LEMMA EnterKeeps ==
  ASSUME PoolInv, NEW r \in Runs, Enter(r)
  PROVE  PoolInv'
<1>1. /\ pc' \in [Runs -> {"new"} \cup Waiting \cup Over] /\ pc[r] = "new"
      /\ pc'[r] = (IF closed THEN "failed" ELSE "get") /\ \A q \in Runs \ {r} : pc'[q] = pc[q]
      /\ UNCHANGED <<slot, reply, doomed, idle, slots, jobs, queue, threads, orphans, late, process, closer, deaths>>
  BY DEF PoolInv, PoolTypes, Enter, poolVars, threadVars, Waiting, Over
<1>2. PoolTypes'
  BY <1>1 DEF PoolInv, PoolTypes
<1>3. Calls' = Calls /\ Queued' = Queued /\ Leaving' = Leaving /\ Idle' = Idle
  BY <1>1 DEF Calls, Queued, Leaving, Stopping, Idle
<1>4. \A q \in Runs : StartKnown(q)'
  <2>1. \A q \in Runs : Start(q) \in Calls => pc'[q] \notin {"new", "get"} /\ (pc'[q] = "start" => reply'[q] = "none")
    BY <1>1 DEF PoolInv, StartKnown
  <2> QED
    BY <1>1, <1>3, <2>1 DEF PoolInv, StartKnown, Single, Start
<1>5. \A q \in Runs : HoldsWorker(q)'
  BY <1>1 DEF PoolInv, HoldsWorker
<1>6. \A w \in Workers : WorkerKnown(w)'
  BY <1>1, <1>3 DEF PoolInv, WorkerKnown, Single, Used
<1>7. ClosingInv'
  BY <1>1, <1>3 DEF PoolInv, ClosingInv, closed, Waiting, Start
<1> QED
  BY <1>2, <1>3, <1>4, <1>5, <1>6, <1>7 DEF PoolInv, CallKnown

-----------------------------------------------------------------------------
(* The steps of the threads and of the workers.  Most only end a call or a  *)
(* worker: nothing changes hands.                                           *)
QuietStep ==
    /\ UNCHANGED <<pc, slot, idle, slots, jobs, orphans, late, closer>>
    /\ Calls' \subseteq Calls
    /\ \A w \in Workers : /\ process'[w] = process[w] \/ (process[w] = "alive" /\ process'[w] = "dead")
                          /\ w \in Stopping => w \in Stopping' \/ process'[w] = "dead"
    /\ \A r \in Runs : /\ reply'[r] = reply[r] \/ pc[r] \notin {"new", "get", "start"}
                       /\ Single(queue', Start(r))
                       /\ Start(r) \in threads' => Start(r) \notin Queued'

LEMMA QuietKeeps ==
  ASSUME PoolInv, PoolTypes', QuietStep
  PROVE  PoolInv'
<1>1. \A w \in Workers : /\ w \in Leaving' => w \in Leaving
                         /\ w \in Leaving => w \in Leaving' \/ process'[w] = "dead"
  <2>1. Stopping' \subseteq Stopping
    BY DEF QuietStep, Stopping
  <2> QED
    BY <2>1 DEF QuietStep, Leaving
<1>2. \A r \in Runs : StartKnown(r)' /\ HoldsWorker(r)'
  BY DEF PoolInv, QuietStep, StartKnown, HoldsWorker, Single, Start
<1>3. \A c \in Calls' : CallKnown(c)
  BY DEF PoolInv, QuietStep
<1>4. \A w \in Workers : WorkerKnown(w)'
  <2>1. Idle' = Idle /\ \A w : (Used(w)' <=> Used(w)) /\ (Single(idle, w)' <=> Single(idle, w))
    BY DEF QuietStep, Idle, Used, Single
  <2> QED
    BY <1>1, <2>1 DEF PoolInv, QuietStep, WorkerKnown
<1>5. ClosingInv'
  BY <1>1 DEF PoolInv, QuietStep, ClosingInv, Start
<1> QED
  BY <1>2, <1>3, <1>4, <1>5 DEF PoolInv, CallKnown

(* A call that is no start, or a stop of a dead worker, ends.               *)
LEMMA AnswerKeeps ==
  ASSUME PoolInv, NEW c \in threads, c.kind # "start", NEW result \in {"ok", "error"}, Answer(c, result),
         threads' = threads \ {c}, c.kind = "stop" => process[c.worker] = "dead",
         UNCHANGED <<pc, slot, doomed, poolVars, process, queue, orphans, late, closer, deaths>>
  PROVE  PoolInv'
<1>1. c \in CallSet /\ c.run \in Runs \cup {None} /\ c.kind \in {"exchange", "stop", "sweep"}
  BY DEF PoolInv, PoolTypes, CallSet
<1>2. PoolTypes'
  BY <1>1 DEF PoolInv, PoolTypes, Answer, Awaited, poolVars
<1>3. \A r \in Runs : reply'[r] = reply[r] \/ pc[r] \notin {"new", "get", "start"}
  BY <1>1 DEF PoolInv, PoolTypes, Answer, Awaited, AwaitedAt
<1>4. Calls' \subseteq Calls /\ Calls \ {c} \subseteq Calls' /\ Queued' = Queued
  BY DEF Calls, Queued
<1>5. \A w \in Workers : w \in Stopping => w \in Stopping' \/ process'[w] = "dead"
  BY <1>4 DEF Stopping
<1> QED
  BY <1>2, <1>3, <1>4, <1>5, QuietKeeps DEF QuietStep, poolVars, PoolInv, StartKnown

LEMMA ThreadTakesKeeps ==
  ASSUME PoolInv, ThreadTakes
  PROVE  PoolInv'
<1>1. /\ queue \in Seq(CallSet) /\ queue # <<>> /\ queue' = Tail(queue) /\ threads' = threads \cup {Head(queue)}
      /\ UNCHANGED <<pc, slot, reply, doomed, idle, slots, jobs, process, orphans, late, closer, deaths>>
  BY DEF PoolInv, PoolTypes, ThreadTakes, callVars, poolVars
<1>2. Queued = Elements(queue) /\ Queued' = Elements(queue')
  BY DEF Queued, Elements
<1>3. /\ queue' \in Seq(CallSet) /\ Head(queue) \in CallSet /\ Queued = Queued' \cup {Head(queue)}
      /\ \A y : Single(queue, y) => Single(queue', y) /\ (y = Head(queue) => y \notin Queued')
  BY <1>1, <1>2, TailKeeps
<1>4. PoolTypes' /\ Calls' = Calls
  BY <1>1, <1>3 DEF PoolInv, PoolTypes, Calls
<1>5. ASSUME NEW r \in Runs
      PROVE  Single(queue', Start(r)) /\ (Start(r) \in threads' => Start(r) \notin Queued')
  BY <1>1, <1>3 DEF PoolInv, StartKnown
<1> QED
  BY <1>1, <1>4, <1>5, QuietKeeps DEF QuietStep, Stopping

LEMMA WorkerEndsKeeps ==
  ASSUME PoolInv, NEW w \in Workers, process[w] = "alive", process' = [process EXCEPT ![w] = "dead"],
         deaths' \in 0..MaxDeaths,
         UNCHANGED <<pc, slot, reply, doomed, poolVars, threadVars, closer>>
  PROVE  PoolInv'
<1>1. PoolTypes'
  BY DEF PoolInv, PoolTypes, poolVars, threadVars
<1>2. Calls' = Calls /\ Queued' = Queued /\ Stopping' = Stopping
  BY DEF Calls, Queued, Stopping, threadVars
<1> QED
  BY <1>1, <1>2, QuietKeeps DEF QuietStep, PoolInv, PoolTypes, StartKnown, poolVars, threadVars

(* A start comes back, with the new worker w for the call that waits, for   *)
(* the callback or, with close() waiting, for a stop at once.               *)
LEMMA StartRunsKeeps ==
  ASSUME PoolInv, NEW c \in threads, StartRuns(c)
  PROVE  PoolInv'
<1>1. PICK r \in Runs : c = Start(r)
  BY DEF PoolInv, CallKnown, StartRuns, Calls
<1>2. /\ c \in Calls /\ c \notin Queued /\ c.run = r /\ r # None /\ c.kind = "start"
      /\ pc[r] = "start" => reply[r] = "none" /\ slot[r] = None
      /\ closer \in {"open", "gather", "drain"} /\ (pc[r] = "start" => closer \in {"open", "gather"})
  <2>1. c \in Calls /\ c \notin Queued /\ c.run = r /\ r # None /\ c.kind = "start"
    BY <1>1, Names DEF PoolInv, StartKnown, Calls
  <2> QED
    BY <1>1, <2>1 DEF PoolInv, PoolTypes, StartKnown, HoldsWorker, ClosingInv, Waiting
<1>3. Awaited(c) <=> pc[r] = "start"
  BY <1>2 DEF Awaited, AwaitedAt
<1>4. /\ threads' = threads \ {c}
      /\ UNCHANGED <<pc, doomed, idle, slots, jobs, late, closer, deaths>>
  BY DEF StartRuns, poolVars
<1>5. ASSUME NEW N, QueueMoves(N, {}), N \subseteq {Stop(None, w) : w \in Workers},
             \A q \in Runs \ {r} : reply'[q] = reply[q]
      PROVE  /\ \A q \in Runs : StartKnown(q)'
             /\ \A d \in Calls' : CallKnown(d)
             /\ Stopping' = Stopping \cup {d.worker : d \in N}
  <2>1. /\ \A d \in N : d.kind = "stop" /\ d.worker \in Workers /\ \A q \in Runs : d # Start(q)
        /\ None \notin Workers
    BY <1>5, Names
  <2>2. Calls' \subseteq (Calls \ {c}) \cup N /\ Queued' = Queued \cup N /\ (Calls \ {c}) \cup N \subseteq Calls'
    BY <1>2, <1>4, <1>5 DEF QueueMoves, Calls
  <2>3. ASSUME NEW q \in Runs
        PROVE  StartKnown(q)'
    <3>1. Start(q)' = Start(q) /\ Start(q) \notin N
      BY <2>1 DEF Start
    <3>2. Start(q) \in Calls' => Start(q) \in Calls /\ q # r
      BY <1>1, <2>2, <3>1
    <3>3. Single(queue', Start(q))
      BY <1>5, <3>1 DEF QueueMoves, PoolInv, StartKnown
    <3>4. Start(q) \in threads' => Start(q) \notin Queued'
      BY <1>4, <2>2, <3>1 DEF PoolInv, StartKnown
    <3> QED
      BY <1>4, <1>5, <3>1, <3>2, <3>3, <3>4 DEF PoolInv, StartKnown, Single
  <2>4. \A d \in Calls' : CallKnown(d)
    BY <2>1, <2>2 DEF PoolInv, CallKnown
  <2>5. Stopping' = Stopping \cup {d.worker : d \in N}
    BY <1>2, <2>1, <2>2 DEF Stopping
  <2> QED
    BY <2>3, <2>4, <2>5
<1>6. CASE Answer(c, "error") /\ UNCHANGED <<process, slot, queue, orphans>>
  <2>1. reply' \in [Runs -> {"none", "ok", "error"}] /\ PoolTypes'
        /\ \A q \in Runs : reply'[q] = IF q = r /\ pc[r] = "start" THEN "error" ELSE reply[q]
    BY <1>2, <1>3, <1>4, <1>6 DEF PoolInv, PoolTypes, Answer
  <2>2. QueueMoves({}, {}) /\ {d.worker : d \in {}} = {}
    BY <1>6, QueueStays DEF PoolInv
  <2>3. /\ \A q \in Runs : StartKnown(q)'
        /\ \A d \in Calls' : CallKnown(d)
        /\ Stopping' = Stopping
    BY <1>5, <2>1, <2>2
  <2>4. \A q \in Runs : HoldsWorker(q)'
    BY <1>2, <1>4, <1>6, <2>1 DEF PoolInv, HoldsWorker
  <2>5. \A w \in Workers : WorkerKnown(w)'
    BY <1>4, <1>6, <2>3 DEF PoolInv, WorkerKnown, Leaving, Used, Single, Idle
  <2>6. ClosingInv'
    BY <1>2, <1>4 DEF PoolInv, ClosingInv
  <2> QED
    BY <2>1, <2>3, <2>4, <2>5, <2>6 DEF PoolInv, CallKnown
<1>7. ASSUME NEW w \in Workers, process[w] = "unborn", process' = [process EXCEPT ![w] = "alive"],
             Answer(c, "ok"),
             \/ /\ pc[r] = "start" /\ slot' = [slot EXCEPT ![r] = w] /\ UNCHANGED <<queue, orphans>>
             \/ /\ pc[r] # "start" /\ closer = "drain" /\ queue' = Append(queue, Stop(None, w))
                /\ UNCHANGED <<slot, orphans>>
             \/ /\ pc[r] # "start" /\ orphans' = orphans \cup {w} /\ UNCHANGED <<slot, queue>>
      PROVE  PoolInv'
  <2>1. /\ w \notin Idle /\ w \notin Leaving /\ \A q \in Runs : slot[q] # w
        /\ jobs[w] < MaxJobs /\ w # None
    BY <1>7, Names DEF PoolInv, WorkerKnown, Used
  <2>2. /\ reply' \in [Runs -> {"none", "ok", "error"}]
        /\ \A q \in Runs : reply'[q] = IF q = r /\ pc[r] = "start" THEN "ok" ELSE reply[q]
    BY <1>2, <1>3, <1>4, <1>7 DEF PoolInv, PoolTypes, Answer
  <2>3. /\ slot' \in [Runs -> Tokens]
        /\ \A q \in Runs : slot'[q] = IF q = r /\ pc[r] = "start" THEN w ELSE slot[q]
    BY <1>7 DEF PoolInv, PoolTypes, Tokens
  <2>4. PICK N : /\ QueueMoves(N, {}) /\ N \subseteq {Stop(None, v) : v \in Workers}
                 /\ {d.worker : d \in N} \subseteq {w}
                 /\ pc[r] # "start" => w \in orphans' \cup {d.worker : d \in N}
                 /\ pc[r] = "start" => {d.worker : d \in N} \cup orphans' = orphans
                 /\ orphans' \subseteq orphans \cup {w} /\ orphans \subseteq orphans'
    <3>1. CASE queue' = queue /\ (pc[r] # "start" => orphans' = orphans \cup {w})
                              /\ (pc[r] = "start" => orphans' = orphans)
      <4>1. QueueMoves({}, {}) /\ {d.worker : d \in {}} = {}
        BY <3>1, QueueStays DEF PoolInv
      <4> QED
        BY <3>1, <4>1
    <3>2. CASE pc[r] # "start" /\ queue' = Append(queue, Stop(None, w)) /\ orphans' = orphans
      <4>1. /\ QueueMoves({Stop(None, w)}, {}) /\ Stop(None, w).worker = w
            /\ {d.worker : d \in {Stop(None, w)}} = {w}
        BY <3>2, QueueGets, Names DEF PoolInv
      <4> QED
        BY <3>2, <4>1
    <3> QED
      BY <1>7, <3>1, <3>2
  <2>5. /\ \A q \in Runs : StartKnown(q)'
        /\ \A d \in Calls' : CallKnown(d)
        /\ Stopping' = Stopping \cup {d.worker : d \in N}
    BY <1>5, <2>2, <2>4
  <2>6. PoolTypes'
    BY <1>4, <1>7, <2>2, <2>3, <2>4 DEF PoolInv, PoolTypes, QueueMoves
  <2>7. \A q \in Runs : HoldsWorker(q)'
    BY <1>2, <1>4, <2>1, <2>2, <2>3 DEF PoolInv, HoldsWorker
  <2>8. \A v \in Workers : v # w => (v \in Leaving' <=> v \in Leaving)
    BY <2>4, <2>5 DEF Leaving
  <2>9. Idle' = Idle /\ \A v : Single(idle, v)' <=> Single(idle, v)
    BY <1>4 DEF Idle, Single
  <2>10. ASSUME NEW v \in Workers \ {w}
         PROVE  WorkerKnown(v)'
    <3>1. (\A q \in Runs : slot'[q] = v <=> slot[q] = v) /\ process'[v] = process[v]
      BY <1>2, <1>7, <2>3, Names DEF PoolInv, PoolTypes
    <3>2. Used(v)' <=> Used(v)
      BY <3>1 DEF Used
    <3> QED
      BY <1>4, <2>8, <2>9, <3>1, <3>2 DEF PoolInv, WorkerKnown
  <2>11. WorkerKnown(w)'
    <3>1. process'[w] = "alive" /\ w \notin Idle' /\ jobs'[w] < MaxJobs /\ Single(idle, w)'
      BY <1>4, <1>7, <2>1, <2>9 DEF PoolInv, PoolTypes, WorkerKnown
    <3>2. CASE pc[r] = "start"
      <4>1. Used(w)' /\ w \notin Leaving' /\ \A q \in Runs : slot'[q] = w => q = r
        BY <2>1, <2>3, <2>4, <2>5, <3>2 DEF Used, Leaving
      <4> QED
        BY <3>1, <4>1 DEF WorkerKnown
    <3>3. CASE pc[r] # "start"
      <4>1. ~Used(w)' /\ w \in Leaving' /\ \A q \in Runs : slot'[q] # w
        BY <2>1, <2>3, <2>4, <2>5, <3>3 DEF Used, Leaving
      <4> QED
        BY <3>1, <4>1 DEF WorkerKnown
    <3> QED
      BY <3>2, <3>3
  <2>12. ClosingInv'
    BY <1>2, <1>4 DEF PoolInv, ClosingInv
  <2> QED
    BY <2>5, <2>6, <2>7, <2>10, <2>11, <2>12 DEF PoolInv, CallKnown
<1> QED
  BY <1>2, <1>3, <1>6, <1>7 DEF StartRuns

-----------------------------------------------------------------------------
(* The callback and close() only add stops and look.                        *)
LEMMA OnlyStopsKeep ==
  ASSUME PoolInv, NEW N, N \subseteq {Stop(None, w) : w \in Workers}, QueueMoves(N, {}),
         UNCHANGED <<pc, slot, reply, threads>>
  PROVE  /\ \A q \in Runs : StartKnown(q)'
         /\ \A c \in Calls' : CallKnown(c)
         /\ Stopping' = Stopping \cup {c.worker : c \in N}
         /\ \A q \in Runs : Start(q) \in Calls' <=> Start(q) \in Calls
<1>1. /\ \A c \in N : c.kind = "stop" /\ c.worker \in Workers /\ \A q \in Runs : c # Start(q)
      /\ None \notin Workers
  BY Names
<1>2. Calls' = Calls \cup N /\ Queued' = Queued \cup N
  BY DEF QueueMoves, Calls
<1>3. \A q \in Runs : Start(q)' = Start(q) /\ Start(q) \notin N
  BY <1>1 DEF Start
<1>4. \A q \in Runs : Single(queue', Start(q))
  BY <1>3 DEF QueueMoves, PoolInv, StartKnown
<1>5. \A q \in Runs : StartKnown(q)'
  BY <1>2, <1>3, <1>4 DEF PoolInv, StartKnown, Single
<1>6. \A c \in Calls' : CallKnown(c)
  BY <1>1, <1>2 DEF PoolInv, CallKnown
<1>7. Stopping' = Stopping \cup {c.worker : c \in N}
  BY <1>1, <1>2 DEF Stopping
<1> QED
  BY <1>2, <1>3, <1>5, <1>6, <1>7

LEMMA DiscardStartedKeeps ==
  ASSUME PoolInv, NEW w \in Workers, DiscardStarted(w)
  PROVE  PoolInv'
<1>1. /\ w \in orphans /\ orphans' = orphans \ {w} /\ queue' = Append(queue, Stop(None, w))
      /\ UNCHANGED <<pc, slot, reply, doomed, idle, slots, jobs, process, threads, late, closer, deaths>>
  BY DEF DiscardStarted, callVars, poolVars
<1>2. QueueMoves({Stop(None, w)}, {}) /\ {c.worker : c \in {Stop(None, w)}} = {w}
  BY <1>1, QueueGets, Names DEF PoolInv
<1>3. /\ \A q \in Runs : StartKnown(q)'
      /\ \A c \in Calls' : CallKnown(c)
      /\ Stopping' = Stopping \cup {w}
      /\ \A q \in Runs : Start(q) \in Calls' <=> Start(q) \in Calls
  BY <1>1, <1>2, OnlyStopsKeep
<1>4. Leaving' = Leaving /\ Idle' = Idle
  BY <1>1, <1>3 DEF Leaving, Idle
<1>5. PoolTypes' /\ \A q \in Runs : HoldsWorker(q)'
  BY <1>1, <1>2 DEF PoolInv, PoolTypes, QueueMoves, HoldsWorker
<1>6. \A v \in Workers : WorkerKnown(v)'
  BY <1>1, <1>4 DEF PoolInv, WorkerKnown, Single, Used
<1>7. ClosingInv'
  BY <1>1, <1>3, <1>4 DEF PoolInv, ClosingInv, Start
<1> QED
  BY <1>3, <1>5, <1>6, <1>7 DEF PoolInv, CallKnown

LEMMA CloseKeeps ==
  ASSUME PoolInv, Close
  PROVE  PoolInv'
<1>1. /\ closer = "open" /\ closer' = "gather" /\ doomed' \in SUBSET Runs
      /\ UNCHANGED <<pc, slot, reply, idle, slots, jobs, process, queue, threads, orphans, late, deaths>>
  BY DEF Close, poolVars, threadVars
<1>2. PoolTypes' /\ Calls' = Calls /\ Queued' = Queued /\ Leaving' = Leaving /\ Idle' = Idle
  BY <1>1 DEF PoolInv, PoolTypes, Calls, Queued, Leaving, Stopping, Idle
<1>3. \A q \in Runs : StartKnown(q)' /\ HoldsWorker(q)'
  BY <1>1, <1>2 DEF PoolInv, StartKnown, HoldsWorker, Single, Start
<1>4. \A w \in Workers : WorkerKnown(w)'
  BY <1>1, <1>2 DEF PoolInv, WorkerKnown, Single, Used
<1> QED
  BY <1>1, <1>2, <1>3, <1>4 DEF PoolInv, CallKnown, ClosingInv

(* Every worker left in the books gets a stop.                              *)
LEMMA CloseRetiresKeeps ==
  ASSUME PoolInv, CloseRetires
  PROVE  PoolInv'
<1> DEFINE N == {Stop(None, w) : w \in slots}
<1>1. /\ closer = "gather" /\ closer' = "drain" /\ slots' = {} /\ \A r \in Runs : pc[r] \notin Waiting
      /\ UNCHANGED <<pc, slot, reply, doomed, idle, process, jobs, threads, orphans, late, deaths>>
  BY DEF CloseRetires, callVars
<1>2. PoolTypes /\ slots \in SUBSET Workers /\ Cardinality(slots) \in Nat
  <2>1. PoolTypes /\ slots \in SUBSET Workers
    BY DEF PoolInv, PoolTypes
  <2>2. IsFiniteSet(Workers)
    BY WorkerPoolAssumption, FS_Interval DEF Workers
  <2> QED
    BY <2>1, <2>2, FS_Subset, FS_CardinalityType
<1>3. PICK order \in [1..Cardinality(slots) -> slots] :
         /\ \A w \in slots : \E i \in DOMAIN order : order[i] = w
         /\ queue' = queue \o [i \in DOMAIN order |-> Stop(None, order[i])]
  BY DEF CloseRetires
<1> DEFINE n == Cardinality(slots)
           stops == [i \in 1..n |-> Stop(None, order[i])]
<1>4. /\ \A w \in Workers : Stop(None, w) \in CallSet /\ Stop(None, w).kind = "stop" /\ Stop(None, w).worker = w
      /\ N \subseteq {Stop(None, w) : w \in Workers}
  BY <1>2, Names
<1>5. stops \in Seq(CallSet) /\ Len(stops) = n /\ DOMAIN order = 1..n /\ n \in Nat
  <2>1. DOMAIN order = 1..n /\ n \in Nat /\ \A i \in 1..n : order[i] \in Workers
    BY <1>2, <1>3
  <2>2. stops \in [1..n -> CallSet]
    BY <1>4, <2>1
  <2> HIDE DEF n, stops
  <2>3. stops \in Seq(CallSet)
    BY <2>1, <2>2, SeqDef
  <2>4. Len(stops) = n
    BY <2>1, <2>2, <2>3, LenProperties
  <2> QED
    BY <2>1, <2>3, <2>4
<1>6. queue' = queue \o stops /\ queue \in Seq(CallSet) /\ Len(queue) \in Nat
  BY <1>2, <1>3, <1>5 DEF PoolTypes
<1>7. N = {stops[i] : i \in 1..n}
  BY <1>3, <1>5
<1> HIDE DEF n
<1>8. /\ queue' \in Seq(CallSet) /\ Len(queue') = Len(queue) + n
      /\ \A i \in 1..Len(queue') : queue'[i] = IF i <= Len(queue) THEN queue[i] ELSE stops[i - Len(queue)]
  BY <1>5, <1>6, ConcatProperties
<1> HIDE DEF stops
<1>9. Queued' = Queued \cup N
  <2>1. ASSUME NEW i \in 1..Len(queue')
        PROVE  queue'[i] \in Queued \cup N
    <3>1. CASE i <= Len(queue)
      BY <1>6, <1>8, <3>1 DEF Queued
    <3>2. CASE ~(i <= Len(queue))
      <4>1. i - Len(queue) \in 1..n
        BY <1>5, <1>6, <1>8, <3>2
      <4> QED
        BY <1>7, <1>8, <3>2, <4>1
    <3> QED
      BY <3>1, <3>2
  <2>2. \A i \in 1..Len(queue) : i \in 1..Len(queue') /\ queue'[i] = queue[i]
    BY <1>5, <1>6, <1>8
  <2>3. \A i \in 1..n : i + Len(queue) \in 1..Len(queue') /\ queue'[i + Len(queue)] = stops[i]
    BY <1>5, <1>6, <1>8
  <2>4. Queued' \subseteq Queued \cup N
    BY <2>1 DEF Queued
  <2>5. Queued \subseteq Queued'
    BY <2>2 DEF Queued
  <2>6. N \subseteq Queued'
    BY <1>7, <2>3 DEF Queued
  <2> QED
    BY <2>4, <2>5, <2>6
<1>10. ASSUME NEW r \in Runs
       PROVE  Single(queue', Start(r))
  <2>1. \A i \in 1..n : stops[i] # Start(r)
    BY <1>4, <1>7, Names
  <2>2. \A i \in 1..Len(queue') : queue'[i] = Start(r) => i \in 1..Len(queue) /\ queue[i] = Start(r)
    <3> SUFFICES ASSUME NEW i \in 1..Len(queue'), queue'[i] = Start(r)
                 PROVE  i \in 1..Len(queue) /\ queue[i] = Start(r)
      OBVIOUS
    <3>1. CASE i <= Len(queue)
      BY <1>6, <1>8, <3>1
    <3>2. CASE ~(i <= Len(queue))
      <4>1. i - Len(queue) \in 1..n /\ queue'[i] = stops[i - Len(queue)]
        BY <1>5, <1>6, <1>8, <3>2
      <4> QED
        BY <2>1, <4>1
    <3> QED
      BY <3>1, <3>2
  <2> QED
    BY <2>2 DEF PoolInv, StartKnown, Single
<1>11. {c.worker : c \in N} = slots /\ \A c \in N : c.kind = "stop" /\ CallKnown(c)
  BY <1>2, <1>4, Names DEF CallKnown
<1>12. Calls' = Calls \cup N
  BY <1>1, <1>9 DEF Calls
<1>13. Stopping' = Stopping \cup slots
  BY <1>11, <1>12 DEF Stopping
<1>14. \A r \in Runs : StartKnown(r)'
  <2>1. \A r \in Runs : Start(r)' = Start(r) /\ Start(r) \notin N
    BY <1>11, Names DEF Start
  <2> QED
    BY <1>1, <1>9, <1>10, <1>12, <2>1 DEF PoolInv, StartKnown, Single
<1>15. \A c \in Calls' : CallKnown(c)
  BY <1>11, <1>12 DEF PoolInv
<1>16. \A r \in Runs : slot[r] = None /\ HoldsWorker(r)'
  BY <1>1 DEF PoolInv, HoldsWorker, Waiting
<1>17. ASSUME NEW w \in Workers
       PROVE  WorkerKnown(w)'
  <2>1. ~Used(w) /\ ~Used(w)' /\ \A r \in Runs : slot'[r] # w
    BY <1>1, <1>16, Names DEF Used
  <2>2. Leaving' = Leaving \cup slots /\ Idle' = Idle
    BY <1>1, <1>13 DEF Leaving, Idle
  <2>3. process[w] = "unborn" => w \notin slots
    BY DEF PoolInv, WorkerKnown
  <2> QED
    BY <1>1, <2>1, <2>2, <2>3 DEF PoolInv, WorkerKnown, Single
<1>18. PoolTypes'
  BY <1>1, <1>2, <1>8 DEF PoolTypes
<1>19. ClosingInv'
  BY <1>1 DEF ClosingInv
<1> QED
  BY <1>14, <1>15, <1>16, <1>17, <1>18, <1>19 DEF PoolInv, CallKnown

(* With no start and no stop pending, the workers that run are orphans.     *)
LEMMA CloseSweepsKeeps ==
  ASSUME PoolInv, CloseSweeps
  PROVE  PoolInv'
<1>1. /\ closer = "drain" /\ closer' = "sweep" /\ queue' = Append(queue, Sweep) /\ late' = orphans
      /\ UNCHANGED <<pc, slot, reply, doomed, idle, slots, jobs, process, threads, orphans, deaths>>
  BY DEF CloseSweeps, callVars, poolVars
<1>2. \A c \in Calls : c.kind \notin {"start", "stop"}
  BY DEF CloseSweeps, Pending
<1>3. PoolTypes /\ Sweep.kind = "sweep" /\ (\A r \in Runs : Start(r).kind = "start" /\ Start(r) # Sweep)
      /\ None \notin Workers
  BY Names DEF PoolInv
<1>4. QueueMoves({Sweep}, {})
  BY <1>1, <1>3, QueueGets, Names
<1>5. Calls' = Calls \cup {Sweep} /\ Queued' = Queued \cup {Sweep}
  BY <1>1, <1>4 DEF QueueMoves, Calls
<1>6. Stopping = {} /\ Stopping' = {} /\ Leaving = orphans /\ Leaving' = orphans /\ Idle' = Idle
  BY <1>1, <1>2, <1>3, <1>5 DEF Stopping, Leaving, Idle
<1>7. \A r \in Runs : Start(r) \notin Calls /\ Start(r) \notin Calls' /\ Start(r)' = Start(r)
  BY <1>2, <1>3, <1>5 DEF Start
<1>8. \A r \in Runs : StartKnown(r)' /\ HoldsWorker(r)'
  BY <1>1, <1>5, <1>7 DEF PoolInv, StartKnown, HoldsWorker, Single, Calls
<1>9. \A c \in Calls' : CallKnown(c)
  BY <1>3, <1>5 DEF PoolInv, CallKnown
<1>10. \A w \in Workers : WorkerKnown(w)'
  BY <1>1, <1>6 DEF PoolInv, WorkerKnown, Single, Used
<1>11. \A w \in Workers : process[w] = "alive" => w \in orphans
  <2>1. slots = {} /\ \A r \in Runs : slot[r] \notin Workers
    BY <1>1, <1>3 DEF PoolInv, ClosingInv, HoldsWorker, Waiting
  <2> QED
    BY <1>6, <2>1 DEF PoolInv, WorkerKnown, Used
<1>12. PoolTypes'
  BY <1>1, <1>3, <1>4 DEF PoolTypes, QueueMoves
<1>13. ClosingInv'
  BY <1>1, <1>6, <1>7, <1>11 DEF PoolInv, ClosingInv
<1> QED
  BY <1>8, <1>9, <1>10, <1>12, <1>13 DEF PoolInv, CallKnown

LEMMA CloseEndsKeeps ==
  ASSUME PoolInv, CloseEnds
  PROVE  PoolInv'
<1>1. /\ closer = "sweep" /\ closer' = "closed"
      /\ UNCHANGED <<pc, slot, reply, doomed, idle, slots, jobs, process, queue, threads, orphans, late, deaths>>
  BY DEF CloseEnds, callVars, poolVars, threadVars
<1>2. PoolTypes' /\ Calls' = Calls /\ Queued' = Queued /\ Leaving' = Leaving /\ Idle' = Idle
  BY <1>1 DEF PoolInv, PoolTypes, Calls, Queued, Leaving, Stopping, Idle
<1>3. \A r \in Runs : StartKnown(r)' /\ HoldsWorker(r)' /\ Start(r)' = Start(r)
  BY <1>1, <1>2 DEF PoolInv, StartKnown, HoldsWorker, Single, Start
<1>4. \A w \in Workers : WorkerKnown(w)'
  BY <1>1, <1>2 DEF PoolInv, WorkerKnown, Single, Used
<1> QED
  BY <1>1, <1>2, <1>3, <1>4 DEF PoolInv, CallKnown, ClosingInv

-----------------------------------------------------------------------------
LEMMA InitPool == Init => PoolInv
<1> SUFFICES ASSUME Init
             PROVE  PoolInv
  OBVIOUS
<1>1. /\ Size \in Nat /\ MaxJobs \in Nat \ {0} /\ MaxDeaths \in Nat /\ None \notin Workers
      /\ \A i \in 1..Size : idle[i] = None
  BY WorkerPoolAssumption, Names DEF Init
<1>2. idle \in Seq(Tokens) /\ Len(idle) = Size
  <2>1. idle \in [1..Size -> Tokens]
    BY DEF Init, Tokens
  <2>2. idle \in Seq(Tokens)
    BY <1>1, <2>1, SeqDef
  <2>3. DOMAIN idle = 1..Size
    BY <2>1
  <2> QED
    BY <1>1, <2>2, <2>3, LenProperties
<1>3. queue \in Seq(CallSet) /\ Len(queue) = 0 /\ Queued = {} /\ Calls = {}
  BY DEF Init, Queued, Calls
<1>4. PoolTypes
  BY <1>1, <1>2, <1>3 DEF Init, PoolTypes, Tokens, Waiting
<1>5. Leaving = {} /\ Idle \subseteq {None}
  <2>1. Stopping = {}
    BY <1>3 DEF Stopping
  <2> QED
    BY <1>1, <1>2, <2>1 DEF Leaving, Idle, Elements, Init
<1>6. \A r \in Runs : StartKnown(r) /\ HoldsWorker(r)
  BY <1>3 DEF Init, StartKnown, HoldsWorker, Single
<1>7. \A w \in Workers : WorkerKnown(w)
  BY <1>1, <1>2, <1>5 DEF Init, WorkerKnown, Single, Used
<1>8. ClosingInv
  BY DEF Init, ClosingInv
<1> QED
  BY <1>3, <1>4, <1>6, <1>7, <1>8 DEF PoolInv

LEMMA StutterKeepsPool ==
  ASSUME PoolInv, UNCHANGED vars
  PROVE  PoolInv'
<1>1. UNCHANGED <<pc, slot, reply, doomed, idle, slots, jobs, process, queue, threads, orphans, late, closer, deaths>>
  BY DEF vars
<1>2. PoolTypes' /\ Calls' = Calls /\ Queued' = Queued /\ Leaving' = Leaving /\ Idle' = Idle
  BY <1>1 DEF PoolInv, PoolTypes, Calls, Queued, Leaving, Stopping, Idle
<1>3. \A r \in Runs : StartKnown(r)' /\ HoldsWorker(r)' /\ Start(r)' = Start(r)
  BY <1>1, <1>2 DEF PoolInv, StartKnown, HoldsWorker, Single, Start
<1>4. \A w \in Workers : WorkerKnown(w)'
  BY <1>1, <1>2 DEF PoolInv, WorkerKnown, Single, Used
<1> QED
  BY <1>1, <1>2, <1>3, <1>4 DEF PoolInv, CallKnown, ClosingInv

(* One case per action of the pool.                                         *)
LEMMA NextPool ==
  ASSUME PoolInv, [Next]_vars
  PROVE  PoolInv'
<1>1. ASSUME NEW r \in Runs, Enter(r) \/ Interrupted(r) \/ RunStep(r)
      PROVE  PoolInv'
  BY <1>1, EnterKeeps, GetInterruptedKeeps, StartCancelledKeeps, StopWaitEndsKeeps, TakeTokenKeeps,
     StartedKeeps, RepliedKeeps, ExchangeBrokenKeeps
     DEF Interrupted, RunStep
<1>2. ASSUME NEW c \in threads, ThreadCall(c) \/ WorkerReplies(c)
      PROVE  PoolInv'
  <2>0. c \in CallSet /\ CallKnown(c)
    BY <1>2 DEF PoolInv, PoolTypes, Calls
  <2>1. CASE StartRuns(c)
    BY <2>1, StartRunsKeeps
  <2>2. CASE ExchangeEnds(c)
    BY <2>2, AnswerKeeps DEF ExchangeEnds
  <2>3. CASE StopKills(c)
    <3>1. /\ process[c.worker] = "alive" /\ process' = [process EXCEPT ![c.worker] = "dead"] /\ c.kind = "stop"
          /\ UNCHANGED <<pc, slot, reply, doomed, poolVars, threadVars, closer, deaths>>
      BY <2>3 DEF StopKills, callVars
    <3>2. c.worker \in Workers
      BY <2>0, <3>1 DEF CallKnown, CallSet, Tokens
    <3>3. deaths' \in 0..MaxDeaths
      BY <3>1 DEF PoolInv, PoolTypes
    <3> QED
      BY <3>1, <3>2, <3>3, WorkerEndsKeeps
  <2>4. CASE CallEnds(c)
    BY <2>4, AnswerKeeps DEF CallEnds
  <2>5. CASE WorkerReplies(c)
    BY <2>5, AnswerKeeps DEF WorkerReplies
  <2> QED
    BY <1>2, <2>1, <2>2, <2>3, <2>4, <2>5 DEF ThreadCall
<1>3. ASSUME NEW w \in Workers, WorkerDies(w)
      PROVE  PoolInv'
  <2>1. deaths' \in 0..MaxDeaths
    BY <1>3, WorkerPoolAssumption DEF WorkerDies, PoolInv, PoolTypes
  <2> QED
    BY <1>3, <2>1, WorkerEndsKeeps DEF WorkerDies, callVars
<1>4. CASE ThreadTakes
  BY <1>4, ThreadTakesKeeps
<1>5. CASE Close \/ CloseStep
  BY <1>5, CloseKeeps, CloseRetiresKeeps, CloseSweepsKeeps, CloseEndsKeeps DEF CloseStep
<1>6. CASE UNCHANGED vars
  BY <1>6, StutterKeepsPool
<1>7. CASE Next
  BY <1>1, <1>2, <1>3, <1>4, <1>5, <1>7, DiscardStartedKeeps DEF Next
<1> QED
  BY <1>6, <1>7

LEMMA PoolInvariant == Spec => []PoolInv
<1>1. Init => PoolInv
  BY InitPool
<1>2. PoolInv /\ [Next]_vars => PoolInv'
  BY NextPool
<1> QED
  BY <1>1, <1>2, PTL DEF Spec

-----------------------------------------------------------------------------
(* A set whose elements are all the same has one or none.                   *)
LEMMA AtMostOne ==
  ASSUME NEW S, \A x, y \in S : x = y
  PROVE  (S = {} => Cardinality(S) = 0) /\ (S # {} => Cardinality(S) = 1)
<1>1. CASE S = {}
  BY <1>1, FS_EmptySet
<1>2. CASE S # {}
  <2>1. PICK x \in S : TRUE
    BY <1>2
  <2>2. S = {x}
    BY <2>1
  <2> QED
    BY <2>2, FS_Singleton
<1> QED
  BY <1>1, <1>2

LEMMA OneOwner == PoolInv => WorkerHasOneOwner
<1> SUFFICES ASSUME PoolInv, NEW w \in Workers,
                    NEW queued, queued = {i \in 1..Len(idle) : idle[i] = w},
                    NEW users, users = {r \in Runs : slot[r] = w}
             PROVE  /\ Cardinality(queued) + Cardinality(users) <= 1
                    /\ (queued # {} /\ ~closed) \/ users # {} => w \notin Stopping \cup orphans
  BY DEF WorkerHasOneOwner
<1>1. (queued # {} => w \in Idle) /\ (users # {} => Used(w)) /\ WorkerKnown(w)
  BY DEF Idle, Elements, Used, PoolInv
<1>2. (queued = {} => Cardinality(queued) = 0) /\ (queued # {} => Cardinality(queued) = 1)
  <2>1. \A i, k \in queued : i = k
    BY <1>1 DEF WorkerKnown, Single
  <2> QED
    BY <2>1, AtMostOne
<1>3. (users = {} => Cardinality(users) = 0) /\ (users # {} => Cardinality(users) = 1)
  <2>1. \A r, q \in users : r = q
    BY <1>1 DEF WorkerKnown
  <2> QED
    BY <2>1, AtMostOne
<1>4. queued = {} \/ users = {}
  BY <1>1 DEF WorkerKnown
<1>5. (queued # {} /\ ~closed) \/ users # {} => w \notin Stopping \cup orphans
  BY <1>1 DEF WorkerKnown, Leaving, closed
<1> QED
  <2>1. Cardinality(queued) + Cardinality(users) <= 1
    BY <1>2, <1>3, <1>4
  <2> QED
    BY <1>5, <2>1

(* Every variable keeps its type, and every queued or running call its form.*)
THEOREM PoolTypesHold == Spec => []TypeOK
<1>1. PoolInv => TypeOK
  <2> SUFFICES ASSUME PoolInv
               PROVE  TypeOK
    OBVIOUS
  <2>1. Calls \subseteq CallSet
    BY DEF PoolInv, PoolTypes, Calls, Queued
  <2> QED
    BY <2>1 DEF PoolInv, PoolTypes, TypeOK, CallSet, Tokens
<1> QED
  BY <1>1, PoolInvariant, PTL

(* However calls end, workers die and close() interleaves with the threads: *)
(* a worker has one owner and is not being stopped while it has one, every  *)
(* running one is in the books, with a call or about to be stopped, and     *)
(* after close() none is, but those it missed.                              *)
THEOREM WorkersAreAccounted == Spec => []WorkersAccounted
<1>1. PoolInv => WorkersAccounted
  <2> SUFFICES ASSUME PoolInv
               PROVE  WorkersAccounted
    OBVIOUS
  <2>1. NoWorkerForgotten
    BY DEF PoolInv, WorkerKnown, NoWorkerForgotten, Alive, Leaving, Used
  <2>2. Stopping \subseteq Workers
    <3>1. Calls \subseteq CallSet
      BY DEF PoolInv, PoolTypes, Calls, Queued
    <3>2. \A c \in Calls : c.kind = "stop" => c.worker \in Workers
      BY <3>1 DEF PoolInv, CallKnown, CallSet, Tokens
    <3> QED
      BY <3>2 DEF Stopping
  <2>3. CloseStopsWorkers
    BY <2>2 DEF PoolInv, ClosingInv, CloseStopsWorkers, Alive, Leaving
  <2> QED
    BY <2>1, <2>3, OneOwner DEF WorkersAccounted
<1> QED
  BY <1>1, PoolInvariant, PTL

-----------------------------------------------------------------------------
(* A token is in the idle queue or with a call.  A step of r moves one.     *)
Holds(r) == pc[r] \in {"start", "exchange", "retire", "cleanup"}

LEMMA OthersHold ==
  ASSUME NEW r \in Runs, \A q \in Runs \ {r} : pc'[q] = pc[q]
  PROVE  /\ IsFiniteSet(Holders) /\ Cardinality(Holders) \in Nat
         /\ (Holds(r)' <=> Holds(r)) => Cardinality(Holders') = Cardinality(Holders)
         /\ Holds(r)' /\ ~Holds(r) => Cardinality(Holders') = Cardinality(Holders) + 1
         /\ ~Holds(r)' /\ Holds(r) => Cardinality(Holders') = Cardinality(Holders) - 1
<1>1. IsFiniteSet(Holders)
  <2>1. IsFiniteSet(Runs) /\ Holders \subseteq Runs
    BY WorkerPoolAssumption, FS_Interval DEF Runs, Holders
  <2> QED
    BY <2>1, FS_Subset
<1>2. (Holds(r)' <=> Holds(r)) => Holders' = Holders
  BY DEF Holders, Holds
<1>3. Holds(r)' /\ ~Holds(r) => Holders' = Holders \cup {r} /\ r \notin Holders
  BY DEF Holders, Holds
<1>4. ~Holds(r)' /\ Holds(r) => Holders' = Holders \ {r} /\ r \in Holders
  BY DEF Holders, Holds
<1> QED
  BY <1>1, <1>2, <1>3, <1>4, FS_CardinalityType, FS_AddElement, FS_RemoveElement

LEMMA TokensMove ==
  ASSUME PoolInv, TokensConserved, [Next]_vars
  PROVE  TokensConserved'
<1> SUFFICES ASSUME ~closed'
             PROVE  Len(idle') + Cardinality(Holders') = Size
  BY DEF TokensConserved
<1>1. PoolTypes /\ Len(idle) \in Nat /\ Size \in Nat
  BY WorkerPoolAssumption DEF PoolInv, PoolTypes
<1>2. ~closed /\ Len(idle) + Cardinality(Holders) = Size
  BY DEF TokensConserved, closed, Next, vars, Enter, Interrupted, RunStep, GetInterrupted, StartCancelled,
         StopWaitCancelled, TakeToken, Started, Replied, ExchangeBroken, Stopped, ThreadTakes, ThreadCall,
         StartRuns, ExchangeEnds, StopKills, CallEnds, WorkerReplies, DiscardStarted, WorkerDies,
         Close, CloseStep, CloseRetires, CloseSweeps, CloseEnds
<1>3. CASE UNCHANGED <<pc, idle>>
  BY <1>2, <1>3 DEF Holders
<1>4. ASSUME NEW r \in Runs, Enter(r) \/ Interrupted(r) \/ RunStep(r)
      PROVE  Len(idle') + Cardinality(Holders') = Size
  <2>1. ASSUME NEW how \in Over, NEW t \in Tokens, Leave(r, how, t), Holds(r)
        PROVE  Len(idle') + Cardinality(Holders') = Size
    <3>1. idle' = Append(idle, t) /\ Len(idle') = Len(idle) + 1
      BY <1>1, <1>2, <2>1 DEF Leave, GiveBack, PoolTypes
    <3>2. ~Holds(r)' /\ \A q \in Runs \ {r} : pc'[q] = pc[q]
      BY <1>1, <2>1 DEF Leave, PoolTypes, Holds, Over
    <3> QED
      BY <1>1, <1>2, <2>1, <3>1, <3>2, OthersHold
  <2>2. ASSUME NEW at \in {"retire", "cleanup"}, NEW w, Retire(r, w, at)
        PROVE  Holds(r)' /\ \A q \in Runs \ {r} : pc'[q] = pc[q]
    BY <1>1, <2>2 DEF Retire, PoolTypes, Holds
  <2>3. ASSUME NEW w, HandOver(r, w)
        PROVE  Holds(r)' /\ \A q \in Runs \ {r} : pc'[q] = pc[q]
    <3>1. CASE Retire(r, w, "cleanup")
      BY <2>2, <3>1
    <3>2. CASE pc' = [pc EXCEPT ![r] = "exchange"]
      BY <1>1, <3>2 DEF PoolTypes, Holds
    <3> QED
      BY <2>3, <3>1, <3>2 DEF HandOver
  <2>4. CASE Enter(r)
    BY <1>1, <1>2, <2>4, OthersHold DEF Enter, poolVars, PoolTypes, Holds
  <2>5. CASE GetInterrupted(r)
    BY <1>1, <1>2, <2>5, OthersHold DEF GetInterrupted, poolVars, PoolTypes, Holds
  <2>6. CASE StartCancelled(r) \/ Stopped(r) \/ StopWaitCancelled(r)
    <3>1. Holds(r) /\ (Leave(r, "failed", None) \/ Leave(r, "done", None))
      BY <2>6 DEF StartCancelled, Stopped, StopWaitCancelled, Holds
    <3> QED
      BY <2>1, <3>1 DEF Over, Tokens
  <2>7. CASE TakeToken(r)
    <3>1. idle' = Tail(idle) /\ idle # <<>> /\ Len(idle') = Len(idle) - 1 /\ ~Holds(r)
      BY <1>1, <2>7 DEF TakeToken, PoolTypes, Holds
    <3>2. Holds(r)' /\ \A q \in Runs \ {r} : pc'[q] = pc[q]
      <4>1. CASE Head(idle) = None
        BY <1>1, <2>7, <4>1 DEF TakeToken, PoolTypes, Holds
      <4> QED
        BY <2>3, <2>7, <4>1 DEF TakeToken
    <3> QED
      BY <1>1, <1>2, <3>1, <3>2, OthersHold
  <2>8. CASE Started(r)
    <3>1. CASE Leave(r, "failed", None)
      BY <2>1, <2>8, <3>1 DEF Started, Holds, Over, Tokens
    <3>2. CASE HandOver(r, slot[r]) /\ UNCHANGED idle
      BY <1>1, <1>2, <2>3, <2>8, <3>2, OthersHold DEF Started, Holds
    <3> QED
      BY <2>8, <3>1, <3>2 DEF Started
  <2>9. CASE Replied(r)
    <3>1. CASE Leave(r, "done", slot[r])
      BY <1>1, <2>1, <2>9, <3>1 DEF Replied, Holds, Over, PoolTypes
    <3>2. CASE Retire(r, slot[r], "retire") /\ UNCHANGED idle
      BY <1>1, <1>2, <2>2, <2>9, <3>2, OthersHold DEF Replied, Holds
    <3> QED
      BY <2>9, <3>1, <3>2 DEF Replied
  <2>10. CASE ExchangeBroken(r)
    BY <1>1, <1>2, <2>2, <2>10, OthersHold DEF ExchangeBroken, Holds
  <2> QED
    BY <1>4, <2>4, <2>5, <2>6, <2>7, <2>8, <2>9, <2>10 DEF Interrupted, RunStep
<1>5. ~(\E r \in Runs : Enter(r) \/ Interrupted(r) \/ RunStep(r)) => UNCHANGED <<pc, idle>>
  BY DEF Next, vars, callVars, poolVars, ThreadTakes, ThreadCall,
         StartRuns, ExchangeEnds, StopKills, CallEnds, WorkerReplies, DiscardStarted, WorkerDies,
         Close, CloseStep, CloseRetires, CloseSweeps, CloseEnds
<1> QED
  BY <1>3, <1>4, <1>5

(* However its calls end - a reply, an error, the deadline, a cancellation  *)
(* at any of its awaits, a second one - an open pool has all its tokens.    *)
THEOREM TokensAreConserved == Spec => []TokensConserved
<1>1. Init => TokensConserved
  <2> SUFFICES ASSUME Init
               PROVE  Len(idle) + Cardinality(Holders) = Size
    BY DEF TokensConserved
  <2>1. idle \in Seq(Tokens) /\ DOMAIN idle = 1..Size /\ Size \in Nat
    BY WorkerPoolAssumption, InitPool DEF Init, PoolInv, PoolTypes
  <2>2. Len(idle) = Size
    BY <2>1, LenProperties
  <2>3. Holders = {}
    BY DEF Init, Holders
  <2> QED
    BY <2>1, <2>2, <2>3, FS_EmptySet
<1>2. PoolInv /\ TokensConserved /\ [Next]_vars => TokensConserved'
  BY TokensMove
<1> QED
  BY <1>1, <1>2, PoolInvariant, PTL DEF Spec
=============================================================================
