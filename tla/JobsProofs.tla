----------------------------- MODULE JobsProofs -----------------------------
(***************************************************************************)
(* The job runner for any jobs, URLs, limits, faults and crashes.  JobsInv *)
(* relates where a job stands, the calls it has in the storage queue and   *)
(* the rows that are stored.                                               *)
(***************************************************************************)
EXTENDS Jobs, FiniteSetTheorems, SequenceTheorems, TLAPS

Statuses == UNFINISHED \cup Final \cup {"none"}
RecordSet == [status : Statuses, done : Seqs, deadline : Nat]
SaveCalls == [kind : {"save"}, job : Jobs, who : Waiters \cup {Nobody}, keep : Nat]
RowCalls == [kind : {"row"}, job : Jobs, who : Urls \cup {Nobody}, seq : Seqs, url : Urls, keep : Nat]
SettleCalls == [kind : {"settle"}, job : Jobs, who : {Main, Nobody}, rec : RecordSet, until : Nat, at : Nat]
GetCalls == [kind : {"get"}, job : Jobs, who : {Main, Nobody}]
CallSet == SaveCalls \cup RowCalls \cup SettleCalls \cup GetCalls
Queued == {calls[i] : i \in 1..Len(calls)}

JobTypes ==
    /\ proc \in {"up", "closing", "closed", "down"}
    /\ tasks \in SUBSET Jobs
    /\ pc \in [Jobs -> Unended \cup {"new", "refused", "end", "gone", "reading", "marking"}]
    /\ memory \in [Jobs -> RecordSet]
    /\ item \in [Jobs -> [Urls -> {"none", "queued", "crawl", "lock", "write", "save",
                                  "done", "failed", "cancelled"}]]
    /\ slots \in [Jobs -> SUBSET Urls]
    /\ io \in [Jobs -> [Waiters -> {"idle", "pending", "ok", "error"}]]
    /\ calls \in Seq(CallSet)
    /\ records \in [Jobs -> [status : Statuses, done : Seqs, deadline : Nat, expire : Nat]]
    /\ rows \in [Jobs -> [Seqs -> [url : Urls \cup {Nobody}, expire : Nat]]]
    /\ closing \in [left : SUBSET Jobs, got : RecordSet]
    /\ now \in Nat /\ phase \in [Jobs -> {"open", "settling", "settled", "cut"}]
    /\ faults \in Nat /\ crashes \in Nat

(* Where a job stands.                                                      *)
Quiet(j) == \A u \in Urls : Ended(j, u)
JobKnown(j) ==
    /\ j \in tasks <=> pc[j] \in Unended
    /\ pc[j] \in {"new", "submit", "created", "run", "refused", "gone"} => \A u \in Urls : item[j][u] = "none"
    /\ pc[j] = "batch" => \A u \in Urls : item[j][u] # "none"
    /\ pc[j] \in {"stopping", "settle"} => Quiet(j)
    /\ pc[j] \in {"end", "reading", "marking"} => Quiet(j) \/ \A u \in Urls : item[j][u] = "none"
    /\ io[j][Main] # "idle" => pc[j] \in {"submit", "run", "settle", "reading", "marking"}
    /\ \A u \in Urls : io[j][u] # "idle" => item[j][u] \in {"write", "save"}
    /\ \A u, v \in Urls : item[j][u] = "write" /\ item[j][v] = "write" => u = v
    /\ Cardinality(slots[j]) <= Concurrency
    /\ now < memory[j].deadline =>
           \A u \in Urls : item[j][u] \in {"crawl", "lock", "write", "save"} => u \in slots[j]

(* What a call in the queue belongs to.                                     *)
CallKnown(c) ==
    LET j == c.job
    IN /\ pc[j] \notin {"new", "gone"}
       /\ c.who # Nobody => io[j][c.who] = "pending"
       /\ c.kind = "save" => /\ c.who = Main => pc[j] \in {"submit", "run"}
                             /\ c.who \in Urls => item[j][c.who] = "save"
       /\ c.kind = "row" => /\ c.seq = memory[j].done
                            /\ \A n \in Present(j) : rows[j][n].url # c.url
                            /\ c.who = Nobody => Quiet(j)
                            /\ c.who # Nobody => c.who = c.url /\ item[j][c.url] = "write"
       /\ c.kind = "settle" => /\ pc[j] \in {"settle", "end", "reading", "marking"}
                               /\ c.who = Main => pc[j] \in {"settle", "marking"}
       /\ c.kind = "get" /\ c.who = Main => pc[j] = "reading"

(* Calls c and later d of one job: nobody awaits two, no two rows are       *)
(* written, and nothing but a read follows a settle.                        *)
InOrder(c, d) ==
    c.job = d.job => /\ c.who = d.who => c.who = Nobody
                     /\ ~(c.kind = "row" /\ d.kind = "row")
                     /\ c.kind = "settle" => d.kind = "get"
QueueKnown == \A i, k \in 1..Len(calls) : i < k => InOrder(calls[i], calls[k])

(* The rows of a job that can still be told: those counted, and perhaps one *)
(* that landed and was not counted yet, or never will be.                   *)
RowLanded(j) == \E u \in Urls : item[j][u] = "write" /\ io[j][u] = "ok"
NoRowQueued(j) == \A c \in Queued : c.job = j => c.kind # "row"
RowsKnown(j) ==
    /\ \E k \in Nat : Present(j) = 0..(k - 1)
    /\ pc[j] # "gone" =>
         \/ Present(j) = 0..(memory[j].done - 1)
         \/ Present(j) = 0..memory[j].done /\ NoRowQueued(j) /\ (Quiet(j) \/ RowLanded(j))
    /\ \A n \in Present(j) :
         /\ rows[j][n].url \in Urls
         /\ pc[j] # "gone" =>
              LET u == rows[j][n].url
              IN /\ item[j][u] \in {"write", "save", "done", "failed", "cancelled"}
                 /\ item[j][u] = "write" => io[j][u] = "ok" /\ n = memory[j].done
    /\ \A m, n \in Present(j) : rows[j][m].url = rows[j][n].url => m = n
    /\ \A u \in Urls :
         /\ item[j][u] \in {"save", "done"} => \E n \in Present(j) : rows[j][n].url = u
         /\ item[j][u] = "write" /\ io[j][u] = "ok" =>
              memory[j].done \in Present(j) /\ rows[j][memory[j].done].url = u

(* close() works alone, one call at a time.                                 *)
AtClose == {"reading", "marking"}
CloseKnown ==
    /\ proc = "closing" => tasks \subseteq closing.left
    /\ proc # "closing" => closing.left = {}
    /\ \A j \in Jobs : pc[j] = "submit" => proc = "up"
    /\ \A j \in closing.left : pc[j] \notin {"new", "gone", "refused"}
    /\ \A j \in Jobs : pc[j] \in AtClose =>
         /\ proc = "closing" /\ tasks = {} /\ j \in closing.left
         /\ \A k \in Jobs : pc[k] \in AtClose => k = j
         /\ io[j][Main] # "idle"
         /\ io[j][Main] # "pending" => calls = <<>>
         /\ \A i \in 1..Len(calls) : calls[i].who # Nobody => i = Len(calls)

JobsInv ==
    /\ JobTypes
    /\ \A j \in Jobs : JobKnown(j) /\ RowsKnown(j)
    /\ \A c \in Queued : CallKnown(c)
    /\ QueueKnown
    /\ CloseKnown
    /\ IsFiniteSet(tasks) /\ Cardinality(tasks) <= MaxActive

-----------------------------------------------------------------------------
LEMMA Constants ==
  /\ Total \in Nat /\ Total # 0 /\ Seqs \subseteq Nat /\ 0 \in Seqs /\ Main \in Waiters /\ Main # Nobody
  /\ Nobody \notin Urls /\ Main \notin Urls /\ Urls \subseteq Waiters /\ Waiters = Urls \cup {Main}
  /\ Ttl \in Nat \ {0} /\ Timeout \in Nat /\ Slack \in Nat /\ MaxActive \in Nat \ {0} /\ Concurrency \in Nat \ {0}
<1>1. Total \in Nat /\ Total # 0
  BY JobsAssumption, FS_CardinalityType, FS_EmptySet DEF Total
<1> QED
  BY <1>1, JobsAssumption DEF Seqs, Waiters, Main

LEMMA CallParts ==
  ASSUME NEW c \in CallSet
  PROVE  /\ c.job \in Jobs /\ c.who \in Waiters \cup {Nobody} /\ c.kind \in {"save", "row", "settle", "get"}
         /\ c.kind = "save" => c.keep \in Nat
         /\ c.kind = "row" => c.seq \in Seqs /\ c.url \in Urls /\ c.keep \in Nat /\ c.who \in Urls \cup {Nobody}
         /\ c.kind = "settle" => c.rec \in RecordSet /\ c.until \in Nat /\ c.at \in Nat /\ c.who \in {Main, Nobody}
         /\ c.kind = "get" => c.who \in {Main, Nobody}
  BY Constants DEF CallSet, SaveCalls, RowCalls, SettleCalls, GetCalls

LEMMA CallJob == \A c \in CallSet : c.job \in Jobs
  BY DEF CallSet, SaveCalls, RowCalls, SettleCalls, GetCalls

LEMMA Orphans ==
  ASSUME NEW c \in CallSet
  PROVE  LET d == [c EXCEPT !.who = Nobody]
         IN /\ d \in CallSet /\ d.job = c.job /\ d.who = Nobody /\ d.kind = c.kind
            /\ c.kind = "save" => d.keep = c.keep
            /\ c.kind = "row" => d.seq = c.seq /\ d.url = c.url /\ d.keep = c.keep
            /\ c.kind = "settle" => d.rec = c.rec /\ d.until = c.until /\ d.at = c.at
  BY DEF CallSet, SaveCalls, RowCalls, SettleCalls, GetCalls

(* A call joins the queue, leaves it, or is orphaned in it.                 *)
LEMMA QueueGets ==
  ASSUME calls \in Seq(CallSet), NEW c \in CallSet, calls' = Append(calls, c)
  PROVE  /\ calls' \in Seq(CallSet) /\ Len(calls) \in Nat /\ Len(calls') = Len(calls) + 1
         /\ \A i \in 1..Len(calls) : calls'[i] = calls[i]
         /\ calls'[Len(calls) + 1] = c
         /\ Queued' = Queued \cup {c}
         /\ QueueKnown /\ (\A d \in Queued : InOrder(d, c)) => QueueKnown'
<1>1. /\ calls' \in Seq(CallSet) /\ Len(calls) \in Nat /\ Len(calls') = Len(calls) + 1
      /\ \A i \in 1..Len(calls) : calls'[i] = calls[i]
      /\ calls'[Len(calls) + 1] = c
  BY AppendProperties
<1>2. \A i \in 1..Len(calls') : i \in 1..Len(calls) \/ i = Len(calls) + 1
  BY <1>1
<1>3. Queued' = Queued \cup {c}
  BY <1>1, <1>2 DEF Queued
<1>4. ASSUME QueueKnown, \A d \in Queued : InOrder(d, c)
      PROVE  QueueKnown'
  <2> SUFFICES ASSUME NEW i \in 1..Len(calls'), NEW k \in 1..Len(calls'), i < k
               PROVE  InOrder(calls'[i], calls'[k])
    BY DEF QueueKnown
  <2>1. i \in 1..Len(calls) /\ calls'[i] = calls[i] /\ calls[i] \in Queued
    BY <1>1 DEF Queued
  <2> QED
    BY <1>1, <1>2, <1>4, <2>1 DEF QueueKnown
<1> QED
  BY <1>1, <1>3, <1>4

LEMMA QueueLoses ==
  ASSUME calls \in Seq(CallSet), NEW i \in 1..Len(calls), calls' = AfterCall(i)
  PROVE  /\ calls' \in Seq(CallSet) /\ Len(calls) \in Nat /\ Len(calls') = Len(calls) - 1
         /\ \A k \in 1..Len(calls') : k + 1 \in 1..Len(calls) /\ calls'[k] = IF k < i THEN calls[k] ELSE calls[k + 1]
         /\ \A c \in Queued' : \E k \in 1..Len(calls) : k # i /\ c = calls[k]
         /\ \A k \in 1..Len(calls) : k # i => calls[k] \in Queued'
         /\ Queued' \subseteq Queued
         /\ QueueKnown => QueueKnown'
<1> DEFINE before == SubSeq(calls, 1, i - 1)
           after == SubSeq(calls, i + 1, Len(calls))
<1>1. Len(calls) \in Nat /\ i \in Nat /\ i >= 1 /\ i <= Len(calls)
  OBVIOUS
<1>2. /\ before \in Seq(CallSet) /\ Len(before) = i - 1
      /\ \A k \in 1..Len(before) : before[k] = calls[k]
  BY <1>1
<1>3. /\ after \in Seq(CallSet) /\ Len(after) = Len(calls) - i
      /\ \A k \in 1..Len(after) : after[k] = calls[k + i]
  BY <1>1
<1>4. calls' = before \o after
  BY DEF AfterCall
<1> HIDE DEF before, after
<1>5. /\ calls' \in Seq(CallSet) /\ Len(calls') = Len(before) + Len(after)
      /\ \A k \in 1..Len(before) + Len(after) :
            calls'[k] = IF k <= Len(before) THEN before[k] ELSE after[k - Len(before)]
  <2> DEFINE w == before \o after
  <2>1. /\ w \in Seq(CallSet) /\ Len(w) = Len(before) + Len(after)
        /\ \A k \in 1..Len(before) + Len(after) :
              w[k] = IF k <= Len(before) THEN before[k] ELSE after[k - Len(before)]
    BY <1>2, <1>3, ConcatProperties, Zenon
  <2>2. calls' = w
    BY <1>4
  <2> HIDE DEF w
  <2> QED
    BY <2>1, <2>2
<1>6. Len(calls') = Len(calls) - 1
  BY <1>1, <1>2, <1>3, <1>5
<1>7. ASSUME NEW k \in 1..Len(calls')
      PROVE  k + 1 \in 1..Len(calls) /\ calls'[k] = IF k < i THEN calls[k] ELSE calls[k + 1]
  <2>1. k \in 1..Len(before) + Len(after) /\ k + 1 \in 1..Len(calls)
    BY <1>1, <1>2, <1>3, <1>6
  <2>2. CASE k < i
    <3>1. k <= Len(before) /\ k \in 1..Len(before)
      BY <1>1, <1>2, <2>1, <2>2
    <3> QED
      BY <1>2, <1>5, <2>1, <2>2, <3>1
  <2>3. CASE ~(k < i)
    <3>1. ~(k <= Len(before)) /\ k - Len(before) \in 1..Len(after) /\ (k - Len(before)) + i = k + 1
      BY <1>1, <1>2, <1>3, <1>6, <2>3
    <3>2. calls'[k] = after[k - Len(before)]
      BY <1>5, <2>1, <3>1
    <3>3. after[k - Len(before)] = calls[k + 1]
      BY <1>3, <3>1
    <3> QED
      BY <2>1, <2>3, <3>2, <3>3
  <2> QED
    BY <2>2, <2>3
<1>8. ASSUME NEW k \in 1..Len(calls), k # i
      PROVE  calls[k] \in Queued'
  <2>1. CASE k < i
    <3>1. k \in 1..Len(calls') /\ calls'[k] = calls[k]
      BY <1>1, <1>6, <1>7, <2>1
    <3> QED
      BY <3>1 DEF Queued
  <2>2. CASE ~(k < i)
    <3>1. k - 1 \in 1..Len(calls') /\ ~(k - 1 < i) /\ (k - 1) + 1 = k
      BY <1>1, <1>6, <1>8, <2>2
    <3>2. calls'[k - 1] = calls[k]
      BY <1>7, <3>1
    <3> QED
      BY <3>1, <3>2 DEF Queued
  <2> QED
    BY <2>1, <2>2
<1>9. ASSUME NEW c \in Queued'
      PROVE  \E k \in 1..Len(calls) : k # i /\ c = calls[k]
  <2>1. PICK k \in 1..Len(calls') : c = calls'[k]
    BY DEF Queued
  <2>2. CASE k < i
    <3>1. k \in 1..Len(calls) /\ k # i /\ c = calls[k]
      BY <1>1, <1>6, <1>7, <2>1, <2>2
    <3> QED
      BY <3>1
  <2>3. CASE ~(k < i)
    <3>1. k + 1 \in 1..Len(calls) /\ k + 1 # i /\ c = calls[k + 1]
      BY <1>1, <1>6, <1>7, <2>1, <2>3
    <3> QED
      BY <3>1
  <2> QED
    BY <2>2, <2>3
<1>10. Queued' \subseteq Queued
  BY <1>9 DEF Queued
<1>11. ASSUME QueueKnown
       PROVE  QueueKnown'
  <2> SUFFICES ASSUME NEW a \in 1..Len(calls'), NEW b \in 1..Len(calls'), a < b
               PROVE  InOrder(calls'[a], calls'[b])
    BY DEF QueueKnown
  <2>1. PICK x \in 1..Len(calls) : calls'[a] = calls[x] /\ x = IF a < i THEN a ELSE a + 1
    BY <1>1, <1>6, <1>7
  <2>2. PICK y \in 1..Len(calls) : calls'[b] = calls[y] /\ y = IF b < i THEN b ELSE b + 1
    BY <1>1, <1>6, <1>7
  <2>3. x < y
    BY <1>1, <2>1, <2>2
  <2> QED
    BY <1>11, <2>1, <2>2, <2>3 DEF QueueKnown
<1> QED
  BY <1>1, <1>5, <1>6, <1>7, <1>8, <1>9, <1>10, <1>11

(* The tasks W of the jobs J stop awaiting.                                 *)
LEMMA QueueOrphans ==
  ASSUME calls \in Seq(CallSet), NEW J, NEW W, J \subseteq Jobs, Nobody \notin W,
         calls' = [i \in 1..Len(calls) |->
                     IF calls[i].job \in J /\ calls[i].who \in W
                     THEN [calls[i] EXCEPT !.who = Nobody] ELSE calls[i]]
  PROVE  /\ calls' \in Seq(CallSet) /\ Len(calls') = Len(calls) /\ Len(calls) \in Nat
         /\ \A i \in 1..Len(calls) : calls'[i] = IF calls[i].job \in J /\ calls[i].who \in W
                                                 THEN [calls[i] EXCEPT !.who = Nobody] ELSE calls[i]
         /\ \A c \in Queued' : \E d \in Queued :
              IF d.job \in J /\ d.who \in W THEN c = [d EXCEPT !.who = Nobody] ELSE c = d
         /\ QueueKnown => QueueKnown'
<1>1. Len(calls) \in Nat /\ \A i \in 1..Len(calls) : calls[i] \in CallSet
  OBVIOUS
<1>2. calls' \in [1..Len(calls) -> CallSet]
  BY <1>1, Orphans
<1>3. calls' \in Seq(CallSet)
  BY <1>1, <1>2, SeqDef
<1>4. Len(calls') = Len(calls)
  BY <1>1, <1>2, <1>3, LenProperties
<1>5. \A i \in 1..Len(calls) : calls'[i] = IF calls[i].job \in J /\ calls[i].who \in W
                                           THEN [calls[i] EXCEPT !.who = Nobody] ELSE calls[i]
  OBVIOUS
<1>6. \A c \in Queued' : \E d \in Queued :
         IF d.job \in J /\ d.who \in W THEN c = [d EXCEPT !.who = Nobody] ELSE c = d
  BY <1>4, <1>5, SMTT(30) DEF Queued
<1>7. ASSUME QueueKnown
      PROVE  QueueKnown'
  <2> SUFFICES ASSUME NEW i \in 1..Len(calls'), NEW k \in 1..Len(calls'), i < k
               PROVE  InOrder(calls'[i], calls'[k])
    BY DEF QueueKnown
  <2>1. InOrder(calls[i], calls[k]) /\ calls[i] \in CallSet /\ calls[k] \in CallSet
    BY <1>1, <1>4, <1>7 DEF QueueKnown
  <2>2. \A x \in {i, k} : /\ calls'[x].job = calls[x].job /\ calls'[x].kind = calls[x].kind
                          /\ calls'[x].who \in {calls[x].who, Nobody}
                          /\ calls[x].who = Nobody => calls'[x].who = Nobody
                          /\ calls'[x].who # Nobody => calls[x].who = calls'[x].who
    BY <1>1, <1>4, <1>5, Orphans
  <2> QED
    BY <2>1, <2>2 DEF InOrder
<1> QED
  BY <1>1, <1>3, <1>4, <1>5, <1>6, <1>7

-----------------------------------------------------------------------------
LEMMA QueuedCalls ==
  ASSUME JobsInv
  PROVE  \A d \in Queued : CallKnown(d) /\ d \in CallSet
<1>1. calls \in Seq(CallSet)
  BY DEF JobsInv, JobTypes
<1>2. \A d \in Queued : d \in CallSet
  BY <1>1 DEF Queued
<1> QED
  BY <1>2 DEF JobsInv

(* A step of one job leaves what is known of the others alone.              *)
OnlyJob(j) ==
    /\ \A k \in Jobs \ {j} :
         /\ pc'[k] = pc[k] /\ memory'[k] = memory[k] /\ item'[k] = item[k] /\ slots'[k] = slots[k]
         /\ io'[k] = io[k] /\ rows'[k] = rows[k] /\ records'[k] = records[k] /\ phase'[k] = phase[k]
         /\ k \in tasks' <=> k \in tasks
    /\ now' = now
    /\ \A c \in Queued' : c.job # j => c \in Queued

LEMMA OneJobMoves ==
  ASSUME JobsInv, NEW j \in Jobs, OnlyJob(j), JobTypes', QueueKnown', JobKnown(j)', RowsKnown(j)',
         (\A c \in Queued : c.job = j => CallKnown(c))',
         CloseKnown', IsFiniteSet(tasks') /\ Cardinality(tasks') <= MaxActive
  PROVE  JobsInv'
<1>1. ASSUME NEW k \in Jobs, k # j
      PROVE  JobKnown(k)'
  <2>1. JobKnown(k)
    BY DEF JobsInv
  <2> QED
    BY <1>1, <2>1 DEF OnlyJob, JobKnown, Quiet, Ended
<1>2. ASSUME NEW k \in Jobs, k # j
      PROVE  RowsKnown(k)'
  <2>1. RowsKnown(k)
    BY DEF JobsInv
  <2>2. /\ Present(k)' = Present(k) /\ (NoRowQueued(k) => NoRowQueued(k)')
        /\ Quiet(k)' = Quiet(k) /\ RowLanded(k)' = RowLanded(k)
    BY <1>2 DEF OnlyJob, Present, NoRowQueued, Quiet, Ended, RowLanded
  <2>3. pc'[k] = pc[k] /\ memory'[k] = memory[k] /\ item'[k] = item[k] /\ io'[k] = io[k] /\ rows'[k] = rows[k]
    BY <1>2 DEF OnlyJob
  <2> QED
    BY <2>1, <2>2, <2>3 DEF RowsKnown
<1>3. ASSUME NEW c \in Queued', c.job # j
      PROVE  CallKnown(c)'
  <2>1. c \in Queued /\ CallKnown(c) /\ c.job \in Jobs \ {j}
    <3>1. c \in Queued /\ CallKnown(c)
      BY <1>3 DEF OnlyJob, JobsInv
    <3>2. c \in CallSet
      BY <3>1, QueuedCalls
    <3>3. c.job \in Jobs
      BY <3>2, CallJob
    <3> QED
      BY <1>3, <3>1, <3>3
  <2>2. Present(c.job)' = Present(c.job) /\ Quiet(c.job)' = Quiet(c.job)
    BY <2>1 DEF OnlyJob, Present, Quiet, Ended
  <2> QED
    BY <2>1, <2>2 DEF OnlyJob, CallKnown
<1> QED
  BY <1>1, <1>2, <1>3 DEF JobsInv

(* While a task is at work, close() waits for it.                           *)
LEMMA TaskMoves ==
  ASSUME JobsInv, NEW j \in Jobs, pc[j] \in Unended, OnlyJob(j), JobTypes', QueueKnown', JobKnown(j)', RowsKnown(j)',
         (\A c \in Queued : c.job = j => CallKnown(c))',
         tasks' \subseteq tasks, proc' = proc, closing' = closing,
         pc'[j] \notin AtClose \cup {"new", "gone", "submit"}, pc'[j] = "refused" => pc[j] = "submit"
  PROVE  JobsInv'
<1>1. IsFiniteSet(tasks') /\ Cardinality(tasks') <= MaxActive
  <2>1. IsFiniteSet(tasks) /\ Cardinality(tasks) <= MaxActive
    BY DEF JobsInv
  <2> QED
    BY <2>1, Constants, FS_Subset, FS_CardinalityType
<1>2. CloseKnown'
  <2>1. CloseKnown /\ j \in tasks /\ closing.left \subseteq Jobs
    BY DEF JobsInv, JobKnown, JobTypes
  <2>2. \A k \in Jobs : pc[k] \notin AtClose /\ pc'[k] \notin AtClose
    BY <2>1 DEF CloseKnown, OnlyJob
  <2>3. pc[j] = "submit" => closing.left = {}
    BY <2>1 DEF CloseKnown
  <2>4. \A k \in Jobs : pc'[k] = "submit" => pc[k] = "submit"
    BY DEF OnlyJob
  <2>5. \A k \in closing.left : pc'[k] \notin {"new", "gone", "refused"}
    BY <2>1, <2>3 DEF CloseKnown, OnlyJob
  <2> QED
    BY <2>1, <2>2, <2>4, <2>5 DEF CloseKnown
<1> QED
  BY <1>1, <1>2, OneJobMoves

(* The calls the tasks make.                                                *)
LEMMA CallsMade ==
  ASSUME JobTypes, NEW j \in Jobs
  PROVE  /\ \A w \in Waiters, r \in RecordSet :
              SaveCall(j, w, r) \in CallSet /\ SaveCall(j, w, r).job = j /\ SaveCall(j, w, r).who = w
              /\ SaveCall(j, w, r).kind = "save"
         /\ \A u \in Urls, n \in Seqs :
              RowCall(j, u, n) \in CallSet /\ RowCall(j, u, n).job = j /\ RowCall(j, u, n).who = u
              /\ RowCall(j, u, n).kind = "row" /\ RowCall(j, u, n).seq = n /\ RowCall(j, u, n).url = u
         /\ \A r \in RecordSet :
              SettleCall(j, r) \in CallSet /\ SettleCall(j, r).job = j /\ SettleCall(j, r).who = Main
              /\ SettleCall(j, r).kind = "settle" /\ SettleCall(j, r).rec = r /\ SettleCall(j, r).at = 0
              /\ SettleCall(j, r).until = now + Keep(r)
         /\ GetCall(j) \in CallSet /\ GetCall(j).job = j /\ GetCall(j).who = Main /\ GetCall(j).kind = "get"
<1>1. \A r \in RecordSet : Keep(r) \in Nat
  BY Constants DEF JobTypes, RecordSet, Keep, Monus
<1>2. memory[j] \in RecordSet /\ now \in Nat
  BY DEF JobTypes
<1> QED
  BY <1>1, <1>2, Constants
  DEF SaveCall, RowCall, SettleCall, GetCall, CallSet, SaveCalls, RowCalls, SettleCalls, GetCalls

(* A task that awaits nothing puts a call into the queue.                   *)
LEMMA Awaits ==
  ASSUME JobsInv, NEW j \in Jobs, NEW w \in Waiters, NEW c \in CallSet, c.job = j, c.who = w,
         io[j][w] # "pending", Await(j, w, c)
  PROVE  /\ io' \in [Jobs -> [Waiters -> {"idle", "pending", "ok", "error"}]]
         /\ \A k \in Jobs \ {j} : io'[k] = io[k]
         /\ \A v \in Waiters \ {w} : io'[j][v] = io[j][v]
         /\ io'[j][w] = "pending"
         /\ calls' \in Seq(CallSet) /\ Queued' = Queued \cup {c}
         /\ \A d \in Queued : d.job = j => d.who # w
         /\ (\A d \in Queued : d.job = j => ~(d.kind = "row" /\ c.kind = "row") /\ (d.kind = "settle" => c.kind = "get"))
               => QueueKnown'
<1>1. io' = [io EXCEPT ![j][w] = "pending"] /\ calls' = Append(calls, c)
  BY DEF Await
<1>2. io \in [Jobs -> [Waiters -> {"idle", "pending", "ok", "error"}]] /\ calls \in Seq(CallSet)
  BY DEF JobsInv, JobTypes
<1>3. w # Nobody
  BY JobsAssumption DEF Waiters
<1>4. \A d \in Queued : d.job = j => d.who # w
  BY <1>3 DEF JobsInv, CallKnown
<1>5. calls' \in Seq(CallSet) /\ Queued' = Queued \cup {c}
      /\ (QueueKnown /\ (\A d \in Queued : InOrder(d, c)) => QueueKnown')
  BY <1>1, <1>2, QueueGets
<1>6. ASSUME \A d \in Queued : d.job = j => ~(d.kind = "row" /\ c.kind = "row") /\ (d.kind = "settle" => c.kind = "get")
      PROVE  QueueKnown'
  BY <1>4, <1>5, <1>6 DEF InOrder, JobsInv
<1>7. /\ io' \in [Jobs -> [Waiters -> {"idle", "pending", "ok", "error"}]]
      /\ \A k \in Jobs \ {j} : io'[k] = io[k]
      /\ \A v \in Waiters \ {w} : io'[j][v] = io[j][v]
      /\ io'[j][w] = "pending"
  BY <1>1, <1>2
<1> QED
  BY <1>4, <1>5, <1>6, <1>7

(* A task takes the answer it awaited.                                      *)
LEMMA Drops ==
  ASSUME JobsInv, NEW j \in Jobs, NEW w \in Waiters, io[j][w] \in {"ok", "error"}, Drop(j, w)
  PROVE  /\ io' \in [Jobs -> [Waiters -> {"idle", "pending", "ok", "error"}]]
         /\ \A k \in Jobs \ {j} : io'[k] = io[k]
         /\ \A v \in Waiters \ {w} : io'[j][v] = io[j][v]
         /\ io'[j][w] = "idle"
         /\ calls' = calls /\ Queued' = Queued /\ QueueKnown'
         /\ \A d \in Queued : d.job = j => d.who # w
<1>1. io' = [io EXCEPT ![j][w] = "idle"] /\ calls' = calls
  BY DEF Drop
<1>2. io \in [Jobs -> [Waiters -> {"idle", "pending", "ok", "error"}]] /\ QueueKnown
  BY DEF JobsInv, JobTypes
<1>3. w # Nobody
  BY JobsAssumption DEF Waiters
<1>4. \A d \in Queued : d.job = j => d.who # w
  BY <1>3 DEF JobsInv, CallKnown
<1>5. Queued' = Queued /\ QueueKnown'
  BY <1>1, <1>2 DEF Queued, QueueKnown
<1> QED
  BY <1>1, <1>2, <1>4, <1>5

(* A URL is at work only while its batch runs.                              *)
LEMMA OnlyInBatch ==
  ASSUME JobsInv, NEW j \in Jobs, NEW u \in Urls, item[j][u] \in {"queued", "crawl", "lock", "write", "save"}
  PROVE  pc[j] = "batch" /\ ~Quiet(j)
<1>1. JobKnown(j) /\ pc[j] \in Unended \cup {"new", "refused", "end", "gone", "reading", "marking"}
  BY DEF JobsInv, JobTypes
<1>2. ~Quiet(j) /\ ~(\A v \in Urls : item[j][v] = "none")
  BY DEF Quiet, Ended
<1> QED
  BY <1>1, <1>2 DEF JobKnown, Unended

(* Tasks W of job j stop awaiting.                                          *)
LEMMA Cancels ==
  ASSUME JobsInv, NEW j \in Jobs, NEW W, Nobody \notin W, calls' = Orphaned(j, W)
  PROVE  /\ calls' \in Seq(CallSet) /\ QueueKnown'
         /\ \A c \in Queued' : \E d \in Queued :
              /\ CallKnown(d) /\ c \in CallSet /\ d \in CallSet
              /\ c.job = d.job /\ c.kind = d.kind
              /\ c.who = IF d.job = j /\ d.who \in W THEN Nobody ELSE d.who
              /\ c.kind = "row" => c.seq = d.seq /\ c.url = d.url
              /\ c.job # j => c = d
         /\ NoRowQueued(j) => NoRowQueued(j)'
<1>1. calls \in Seq(CallSet) /\ QueueKnown
  BY DEF JobsInv, JobTypes
<1> DEFINE J == {j}
<1>2. calls' = [i \in 1..Len(calls) |->
                  IF calls[i].job \in J /\ calls[i].who \in W
                  THEN [calls[i] EXCEPT !.who = Nobody] ELSE calls[i]]
  BY DEF Orphaned
<1>3. /\ calls' \in Seq(CallSet) /\ QueueKnown'
      /\ \A c \in Queued' : \E d \in Queued :
           IF d.job \in J /\ d.who \in W THEN c = [d EXCEPT !.who = Nobody] ELSE c = d
  <2>1. J \subseteq Jobs
    OBVIOUS
  <2> HIDE DEF J
  <2> QED
    BY <1>1, <1>2, <2>1, QueueOrphans
<1>4. ASSUME NEW c \in Queued'
      PROVE  \E d \in Queued :
              /\ CallKnown(d) /\ c \in CallSet /\ d \in CallSet
              /\ c.job = d.job /\ c.kind = d.kind
              /\ c.who = IF d.job = j /\ d.who \in W THEN Nobody ELSE d.who
              /\ c.kind = "row" => c.seq = d.seq /\ c.url = d.url
              /\ c.job # j => c = d
  <2>1. PICK d \in Queued : IF d.job \in J /\ d.who \in W THEN c = [d EXCEPT !.who = Nobody] ELSE c = d
    BY <1>3, <1>4
  <2>2. d \in CallSet /\ CallKnown(d)
    BY QueuedCalls
  <2>3. CASE d.job \in J /\ d.who \in W
    <3>1. c = [d EXCEPT !.who = Nobody]
      BY <2>1, <2>3
    <3>2. /\ c \in CallSet /\ c.job = d.job /\ c.who = Nobody /\ c.kind = d.kind
          /\ c.kind = "row" => c.seq = d.seq /\ c.url = d.url
      BY <2>2, <3>1, Orphans
    <3> QED
      BY <2>2, <2>3, <3>2
  <2>4. CASE ~(d.job \in J /\ d.who \in W)
    BY <2>1, <2>2, <2>4
  <2> QED
    BY <2>3, <2>4
<1>5. NoRowQueued(j) => NoRowQueued(j)'
  <2>1. \A c \in Queued' : \E d \in Queued : c.job = d.job /\ c.kind = d.kind
    BY <1>4
  <2> QED
    BY <2>1 DEF NoRowQueued
<1> QED
  BY <1>3, <1>4, <1>5

(* A step that neither stores nor counts a row, while URLs without a row    *)
(* move towards one.                                                        *)
Early == {"none", "queued", "crawl", "lock"}
RowUntouched(j, u) ==
    \/ /\ item'[j][u] = item[j][u]
       /\ item[j][u] = "write" => (io'[j][u] = "ok" <=> io[j][u] = "ok")
    \/ item[j][u] \in Early /\ item'[j][u] \in Early

LEMMA RowsHold ==
  ASSUME JobsInv, NEW j \in Jobs, pc[j] # "gone", memory'[j].done = memory[j].done,
         Present(j)' = Present(j), \A n \in Present(j) : rows'[j][n].url = rows[j][n].url,
         \A u \in Urls : RowUntouched(j, u),
         NoRowQueued(j) => NoRowQueued(j)'
  PROVE  RowsKnown(j)'
<1>1. RowsKnown(j)
  BY DEF JobsInv
<1>2. \A u \in Urls : item[j][u] \notin Early => item'[j][u] = item[j][u]
  BY DEF RowUntouched
<1>3. \A u \in Urls : item'[j][u] \notin Early => item'[j][u] = item[j][u]
  BY DEF RowUntouched
<1>4. \A u \in Urls : item[j][u] = "write" => (io'[j][u] = "ok" <=> io[j][u] = "ok")
  BY DEF RowUntouched, Early
<1>5. Quiet(j) => Quiet(j)'
  BY <1>2 DEF Quiet, Ended, Early
<1>6. RowLanded(j) => RowLanded(j)'
  BY <1>2, <1>4 DEF RowLanded, Early
<1>7. \/ Present(j) = 0..(memory[j].done - 1)
      \/ Present(j) = 0..memory[j].done /\ NoRowQueued(j)' /\ (Quiet(j)' \/ RowLanded(j)')
  BY <1>1, <1>5, <1>6 DEF RowsKnown
<1>8. \A n \in Present(j) :
        LET u == rows[j][n].url
        IN /\ u \in Urls /\ item'[j][u] \in {"write", "save", "done", "failed", "cancelled"}
           /\ item'[j][u] = "write" => io'[j][u] = "ok" /\ n = memory[j].done
  BY <1>1, <1>2, <1>4 DEF RowsKnown, Early
<1>9. \A u \in Urls :
         /\ item'[j][u] \in {"save", "done"} => \E n \in Present(j) : rows[j][n].url = u
         /\ item'[j][u] = "write" /\ io'[j][u] = "ok" =>
              memory[j].done \in Present(j) /\ rows[j][memory[j].done].url = u
  BY <1>1, <1>3, <1>4 DEF RowsKnown, Early
<1>10. /\ \E k \in Nat : Present(j) = 0..(k - 1)
       /\ \A m, n \in Present(j) : rows[j][m].url = rows[j][n].url => m = n
  BY <1>1 DEF RowsKnown
<1>11. \A n \in Present(j)' :
         LET u == rows'[j][n].url
         IN /\ u \in Urls /\ item'[j][u] \in {"write", "save", "done", "failed", "cancelled"}
            /\ item'[j][u] = "write" => io'[j][u] = "ok" /\ n = memory'[j].done
  BY <1>8
<1>12. \A u \in Urls :
         /\ item'[j][u] \in {"save", "done"} => \E n \in Present(j)' : rows'[j][n].url = u
         /\ item'[j][u] = "write" /\ io'[j][u] = "ok" =>
              memory'[j].done \in Present(j)' /\ rows'[j][memory'[j].done].url = u
  BY <1>9
<1>13. /\ \E k \in Nat : Present(j)' = 0..(k - 1)
       /\ \A m, n \in Present(j)' : rows'[j][m].url = rows'[j][n].url => m = n
  BY <1>10
<1>14. \/ Present(j)' = 0..(memory'[j].done - 1)
       \/ Present(j)' = 0..memory'[j].done /\ NoRowQueued(j)' /\ (Quiet(j)' \/ RowLanded(j)')
  BY <1>7
<1> QED
  BY <1>11, <1>12, <1>13, <1>14 DEF RowsKnown

LEMMA RowsStay ==
  ASSUME JobsInv, NEW j \in Jobs, pc[j] # "gone", rows' = rows, memory'[j].done = memory[j].done,
         \A u \in Urls : RowUntouched(j, u),
         NoRowQueued(j) => NoRowQueued(j)'
  PROVE  RowsKnown(j)'
<1>1. Present(j)' = Present(j) /\ \A n \in Present(j) : rows'[j][n].url = rows[j][n].url
  BY DEF Present
<1> QED
  BY <1>1, RowsHold

LEMMA SubmitKeeps ==
  ASSUME JobsInv, NEW j \in Jobs, Submit(j)
  PROVE  JobsInv'
<1> DEFINE record == [status |-> "queued", done |-> 0, deadline |-> now + Timeout]
<1>1. /\ proc = "up" /\ pc[j] = "new" /\ Cardinality(tasks) < MaxActive
      /\ tasks' = tasks \cup {j} /\ memory' = [memory EXCEPT ![j] = record]
      /\ Await(j, Main, SaveCall(j, Main, record)) /\ pc' = [pc EXCEPT ![j] = "submit"]
      /\ UNCHANGED <<proc, item, slots, closing, reader, now, records, rows, phase, faults, crashes>>
  BY DEF Submit, Room, batchVars, worldVars
<1>2. JobTypes /\ JobKnown(j) /\ RowsKnown(j) /\ CloseKnown /\ IsFiniteSet(tasks) /\ now \in Nat
  BY DEF JobsInv, JobTypes
<1>3. record \in RecordSet /\ record.deadline >= now
  BY <1>2, Constants DEF RecordSet, Statuses, UNFINISHED
<1>4. PICK c \in CallSet : c = SaveCall(j, Main, record) /\ c.job = j /\ c.who = Main /\ c.kind = "save"
  <2>1. SaveCall(j, Main, record) \in CallSet /\ SaveCall(j, Main, record).job = j
        /\ SaveCall(j, Main, record).who = Main /\ SaveCall(j, Main, record).kind = "save"
    BY <1>2, <1>3, CallsMade, Constants
  <2> QED
    BY <2>1
<1> HIDE DEF record
<1>5. io[j][Main] = "idle" /\ \A u \in Urls : io[j][u] = "idle" /\ item[j][u] = "none"
  BY <1>1, <1>2 DEF JobKnown, JobTypes
<1>6. \A d \in Queued : d.job # j
  BY <1>1 DEF JobsInv, CallKnown
<1>7. /\ io' \in [Jobs -> [Waiters -> {"idle", "pending", "ok", "error"}]]
      /\ \A k \in Jobs \ {j} : io'[k] = io[k]
      /\ \A v \in Waiters \ {Main} : io'[j][v] = io[j][v]
      /\ io'[j][Main] = "pending"
      /\ calls' \in Seq(CallSet) /\ Queued' = Queued \cup {c} /\ QueueKnown'
  <2>1. Await(j, Main, c) /\ Main \in Waiters
    BY <1>1, <1>4, Constants
  <2> QED
    BY <1>4, <1>5, <1>6, <2>1, Awaits
<1>8. OnlyJob(j)
  BY <1>1, <1>2, <1>4, <1>7 DEF OnlyJob, JobTypes
<1>9. JobTypes'
  <2>1. memory' \in [Jobs -> RecordSet] /\ tasks' \in SUBSET Jobs
        /\ pc' \in [Jobs -> Unended \cup {"new", "refused", "end", "gone", "reading", "marking"}]
    BY <1>1, <1>2, <1>3 DEF JobTypes, Unended
  <2> QED
    BY <1>1, <1>2, <1>7, <2>1 DEF JobTypes
<1>10. JobKnown(j)'
  <2>1. pc'[j] = "submit" /\ memory'[j] = record /\ item'[j] = item[j] /\ slots' = slots /\ j \in tasks'
    BY <1>1, <1>2 DEF JobTypes
  <2> QED
    BY <1>1, <1>2, <1>5, <1>7, <2>1, Constants DEF JobKnown, Unended
<1>11. RowsKnown(j)'
  <2>1. Present(j) = {}
    BY <1>1, <1>2, <1>5 DEF RowsKnown
  <2>2. Present(j)' = {} /\ memory'[j].done = 0 /\ item'[j] = item[j]
    BY <1>1, <1>2, <2>1 DEF Present, JobTypes, record
  <2>3. 0..(0 - 1) = {}
    OBVIOUS
  <2>4. Present(j)' = 0..(memory'[j].done - 1)
    BY <2>2, <2>3
  <2> QED
    BY <1>5, <2>2, <2>4 DEF RowsKnown
<1>12. (\A d \in Queued : d.job = j => CallKnown(d))'
  BY <1>1, <1>2, <1>4, <1>6, <1>7, Constants DEF CallKnown, JobTypes
<1>13. IsFiniteSet(tasks') /\ Cardinality(tasks') <= MaxActive
  <2>1. j \notin tasks
    BY <1>1, <1>2 DEF JobKnown, Unended
  <2>2. IsFiniteSet(tasks') /\ Cardinality(tasks') = Cardinality(tasks) + 1
    BY <1>1, <1>2, <2>1, FS_AddElement
  <2>3. Cardinality(tasks) \in Nat
    BY <1>2, FS_CardinalityType
  <2> QED
    BY <1>1, <2>2, <2>3, Constants
<1>14. CloseKnown'
  <2>1. \A k \in Jobs : pc'[k] \notin AtClose
    BY <1>1, <1>2 DEF CloseKnown, JobTypes, AtClose
  <2> QED
    BY <1>1, <1>2, <2>1 DEF CloseKnown, JobTypes
<1> QED
  BY <1>8, <1>9, <1>10, <1>11, <1>12, <1>13, <1>14, <1>7, OneJobMoves

LEMMA SubmittedKeeps ==
  ASSUME JobsInv, NEW j \in Jobs, Submitted(j)
  PROVE  JobsInv'
<1>1. /\ pc[j] = "submit" /\ io[j][Main] \in {"ok", "error"} /\ Drop(j, Main)
      /\ \/ pc' = [pc EXCEPT ![j] = "created"] /\ tasks' = tasks
         \/ pc' = [pc EXCEPT ![j] = "refused"] /\ tasks' = tasks \ {j}
      /\ UNCHANGED <<proc, memory, item, slots, closing, reader, now, records, rows, phase, faults, crashes>>
  BY DEF Submitted, batchVars, worldVars
<1>2. JobTypes /\ JobKnown(j) /\ RowsKnown(j) /\ CloseKnown
  BY DEF JobsInv
<1>3. /\ io' \in [Jobs -> [Waiters -> {"idle", "pending", "ok", "error"}]]
      /\ \A k \in Jobs \ {j} : io'[k] = io[k]
      /\ \A v \in Waiters \ {Main} : io'[j][v] = io[j][v]
      /\ io'[j][Main] = "idle"
      /\ calls' = calls /\ Queued' = Queued /\ QueueKnown'
      /\ \A d \in Queued : d.job = j => d.who # Main
  BY <1>1, Drops, Constants
<1>4. /\ pc'[j] \in {"created", "refused"} /\ (j \in tasks' <=> pc'[j] = "created")
      /\ \A k \in Jobs \ {j} : pc'[k] = pc[k] /\ (k \in tasks' <=> k \in tasks)
      /\ pc' \in [Jobs -> Unended \cup {"new", "refused", "end", "gone", "reading", "marking"}]
      /\ tasks' \subseteq tasks
  BY <1>1, <1>2, ZenonT(40) DEF JobTypes, JobKnown, Unended
<1>5. OnlyJob(j)
  BY <1>1, <1>3, <1>4 DEF OnlyJob
<1>6. JobTypes'
  BY <1>1, <1>2, <1>3, <1>4 DEF JobTypes
<1>7. \A u \in Urls : io[j][u] = "idle" /\ item[j][u] = "none"
  BY <1>1, <1>2, Constants DEF JobKnown, JobTypes
<1>8. JobKnown(j)'
  BY <1>1, <1>2, <1>3, <1>4, <1>7, Constants DEF JobKnown, Unended
<1>9. RowsKnown(j)'
  <2>1. NoRowQueued(j)' = NoRowQueued(j)
    BY <1>3 DEF NoRowQueued
  <2>2. /\ pc[j] # "gone" /\ rows' = rows /\ memory'[j].done = memory[j].done
        /\ \A u \in Urls : RowUntouched(j, u)
    BY <1>1, <1>3, Constants DEF RowUntouched
  <2> QED
    BY <2>1, <2>2, RowsStay
<1>10. (\A d \in Queued : d.job = j => CallKnown(d))'
  <2> SUFFICES ASSUME NEW d \in Queued, d.job = j
               PROVE  CallKnown(d)'
    BY <1>3
  <2>1. CallKnown(d) /\ d \in CallSet
    BY <1>2 DEF JobsInv, JobTypes, Queued
  <2>2. d.who = Nobody
    BY <1>1, <1>3, <1>7, <2>1, CallParts, Constants DEF CallKnown
  <2>3. Present(j)' = Present(j) /\ Quiet(j)' = Quiet(j)
    BY <1>1 DEF Present, Quiet, Ended
  <2> QED
    BY <1>1, <1>4, <2>1, <2>2, <2>3, Constants DEF CallKnown
<1> QED
  BY <1>1, <1>3, <1>4, <1>5, <1>6, <1>8, <1>9, <1>10, TaskMoves DEF Unended, AtClose

LEMMA SubmitCancelledKeeps ==
  ASSUME JobsInv, NEW j \in Jobs, SubmitCancelled(j)
  PROVE  JobsInv'
<1>1. /\ pc[j] = "submit" /\ pc' = [pc EXCEPT ![j] = "refused"] /\ tasks' = tasks \ {j}
      /\ io' = [io EXCEPT ![j][Main] = "idle"] /\ calls' = Orphaned(j, {Main})
      /\ UNCHANGED <<proc, memory, item, slots, closing, reader, now, records, rows, phase, faults, crashes>>
  BY DEF SubmitCancelled, batchVars, worldVars
<1>2. JobTypes /\ JobKnown(j) /\ RowsKnown(j) /\ Nobody \notin {Main}
  BY Constants DEF JobsInv
<1>3. /\ calls' \in Seq(CallSet) /\ QueueKnown'
      /\ \A c \in Queued' : \E d \in Queued :
           /\ CallKnown(d) /\ c \in CallSet /\ d \in CallSet
           /\ c.job = d.job /\ c.kind = d.kind
           /\ c.who = IF d.job = j /\ d.who \in {Main} THEN Nobody ELSE d.who
           /\ c.kind = "row" => c.seq = d.seq /\ c.url = d.url
           /\ c.job # j => c = d
      /\ NoRowQueued(j) => NoRowQueued(j)'
  BY <1>1, <1>2, Cancels
<1>4. /\ pc'[j] = "refused" /\ j \notin tasks'
      /\ \A k \in Jobs \ {j} : pc'[k] = pc[k] /\ io'[k] = io[k] /\ (k \in tasks' <=> k \in tasks)
      /\ pc' \in [Jobs -> Unended \cup {"new", "refused", "end", "gone", "reading", "marking"}]
      /\ io' \in [Jobs -> [Waiters -> {"idle", "pending", "ok", "error"}]]
      /\ io'[j][Main] = "idle" /\ \A u \in Urls : io'[j][u] = io[j][u]
      /\ tasks' \subseteq tasks
  BY <1>1, <1>2, Constants, ZenonT(40) DEF JobTypes
<1>5. OnlyJob(j)
  BY <1>1, <1>3, <1>4 DEF OnlyJob
<1>6. JobTypes'
  BY <1>1, <1>2, <1>3, <1>4 DEF JobTypes
<1>7. \A u \in Urls : io[j][u] = "idle" /\ item[j][u] = "none"
  BY <1>1, <1>2, Constants DEF JobKnown, JobTypes
<1>8. JobKnown(j)'
  BY <1>1, <1>2, <1>4, <1>7, Constants DEF JobKnown, Unended
<1>9. RowsKnown(j)'
  <2>1. /\ pc[j] # "gone" /\ rows' = rows /\ memory'[j].done = memory[j].done
        /\ \A u \in Urls : RowUntouched(j, u)
    BY <1>1, <1>4 DEF RowUntouched
  <2> QED
    BY <1>3, <2>1, RowsStay
<1>10. (\A c \in Queued : c.job = j => CallKnown(c))'
  <2> SUFFICES ASSUME NEW c \in Queued', c.job = j
               PROVE  CallKnown(c)'
    OBVIOUS
  <2>1. PICK d \in Queued :
           /\ CallKnown(d) /\ c \in CallSet /\ d \in CallSet
           /\ c.job = d.job /\ c.kind = d.kind
           /\ c.who = IF d.job = j /\ d.who \in {Main} THEN Nobody ELSE d.who
           /\ c.kind = "row" => c.seq = d.seq /\ c.url = d.url
    BY <1>3
  <2>2. c.who = Nobody
    BY <1>7, <2>1, CallParts, Constants DEF CallKnown
  <2>3. Present(j)' = Present(j) /\ Quiet(j)' = Quiet(j)
    BY <1>1 DEF Present, Quiet, Ended
  <2>4. c.kind # "settle"
    BY <1>1, <2>1 DEF CallKnown
  <2>5. c.kind = "row" => Quiet(j) /\ c.seq = memory[j].done /\ \A n \in Present(j) : rows[j][n].url # c.url
    BY <1>1, <1>7, <2>1, CallParts, Constants DEF CallKnown
  <2> QED
    BY <1>1, <1>4, <2>2, <2>3, <2>4, <2>5, Constants DEF CallKnown
<1> QED
  BY <1>1, <1>3, <1>4, <1>5, <1>6, <1>8, <1>9, <1>10, TaskMoves DEF Unended, AtClose

LEMMA RunKeeps ==
  ASSUME JobsInv, NEW j \in Jobs, Run(j)
  PROVE  JobsInv'
<1>1. /\ pc[j] = "created" /\ memory' = [memory EXCEPT ![j].status = "running"]
      /\ Await(j, Main, SaveCall(j, Main, memory'[j])) /\ pc' = [pc EXCEPT ![j] = "run"]
      /\ UNCHANGED <<proc, tasks, item, slots, closing, reader, now, records, rows, phase, faults, crashes>>
  BY DEF Run, batchVars, worldVars
<1>2. JobTypes /\ JobKnown(j)
  BY DEF JobsInv
<1>3. /\ memory' \in [Jobs -> RecordSet] /\ memory'[j] \in RecordSet
      /\ memory'[j].done = memory[j].done /\ memory'[j].deadline = memory[j].deadline
      /\ \A k \in Jobs \ {j} : memory'[k] = memory[k]
  BY <1>1, <1>2, ZenonT(40) DEF JobTypes, RecordSet, Statuses, UNFINISHED
<1>4. PICK c \in CallSet : c = SaveCall(j, Main, memory'[j]) /\ c.job = j /\ c.who = Main /\ c.kind = "save"
  <2>1. SaveCall(j, Main, memory'[j]) \in CallSet /\ SaveCall(j, Main, memory'[j]).job = j
        /\ SaveCall(j, Main, memory'[j]).who = Main /\ SaveCall(j, Main, memory'[j]).kind = "save"
    BY <1>2, <1>3, CallsMade, Constants
  <2> QED
    BY <2>1
<1>5. io[j][Main] = "idle" /\ \A u \in Urls : io[j][u] = "idle" /\ item[j][u] = "none"
  BY <1>1, <1>2, Constants DEF JobKnown, JobTypes
<1>6. \A d \in Queued : d.job = j => d.kind # "settle"
  BY <1>1 DEF JobsInv, CallKnown
<1>7. /\ io' \in [Jobs -> [Waiters -> {"idle", "pending", "ok", "error"}]]
      /\ \A k \in Jobs \ {j} : io'[k] = io[k]
      /\ \A v \in Waiters \ {Main} : io'[j][v] = io[j][v]
      /\ io'[j][Main] = "pending"
      /\ calls' \in Seq(CallSet) /\ Queued' = Queued \cup {c} /\ QueueKnown'
      /\ \A d \in Queued : d.job = j => d.who # Main
  <2>1. Await(j, Main, c) /\ Main \in Waiters
    BY <1>1, <1>4, Constants
  <2> QED
    BY <1>4, <1>5, <1>6, <2>1, Awaits
<1>8. /\ pc'[j] = "run" /\ \A k \in Jobs \ {j} : pc'[k] = pc[k]
      /\ pc' \in [Jobs -> Unended \cup {"new", "refused", "end", "gone", "reading", "marking"}]
  BY <1>1, <1>2 DEF JobTypes, Unended
<1>9. OnlyJob(j)
  BY <1>1, <1>3, <1>4, <1>7, <1>8 DEF OnlyJob
<1>10. JobTypes'
  BY <1>1, <1>2, <1>3, <1>7, <1>8 DEF JobTypes
<1>11. JobKnown(j)'
  BY <1>1, <1>2, <1>3, <1>5, <1>7, <1>8, Constants DEF JobKnown, Unended
<1>12. RowsKnown(j)'
  <2>1. NoRowQueued(j) => NoRowQueued(j)'
    BY <1>4, <1>7 DEF NoRowQueued
  <2>2. /\ pc[j] # "gone" /\ rows' = rows /\ memory'[j].done = memory[j].done
        /\ \A u \in Urls : RowUntouched(j, u)
    BY <1>1, <1>3, <1>7, Constants DEF RowUntouched
  <2> QED
    BY <2>1, <2>2, RowsStay
<1>13. (\A d \in Queued : d.job = j => CallKnown(d))'
  <2>1. ASSUME NEW d \in Queued, d.job = j
        PROVE  CallKnown(d)'
    <3>1. CallKnown(d) /\ d \in CallSet
      BY <1>2 DEF JobsInv, JobTypes, Queued
    <3>2. d.who = Nobody
      BY <1>5, <1>7, <2>1, <3>1, CallParts, Constants DEF CallKnown
    <3>3. Present(j)' = Present(j) /\ Quiet(j)' = Quiet(j)
      BY <1>1 DEF Present, Quiet, Ended
    <3> QED
      BY <1>1, <1>3, <1>6, <1>8, <2>1, <3>1, <3>2, <3>3, Constants DEF CallKnown
  <2>2. CallKnown(c)'
    BY <1>4, <1>7, <1>8, Constants DEF CallKnown
  <2> QED
    BY <1>7, <2>1, <2>2
<1> QED
  BY <1>1, <1>7, <1>8, <1>9, <1>10, <1>11, <1>12, <1>13, TaskMoves DEF Unended, AtClose

LEMMA RunningKeeps ==
  ASSUME JobsInv, NEW j \in Jobs, Running(j)
  PROVE  JobsInv'
<1>1. /\ pc[j] = "run" /\ io[j][Main] \in {"ok", "error"} /\ Drop(j, Main)
      /\ \/ /\ pc' = [pc EXCEPT ![j] = "batch"] /\ tasks' = tasks
            /\ item' = [item EXCEPT ![j] = [u \in Urls |-> "queued"]]
         \/ pc' = [pc EXCEPT ![j] = "end"] /\ tasks' = tasks \ {j} /\ item' = item
      /\ UNCHANGED <<proc, memory, slots, closing, reader, now, records, rows, phase, faults, crashes>>
  BY DEF Running, batchVars, worldVars
<1>2. JobTypes /\ JobKnown(j)
  BY DEF JobsInv
<1>3. /\ io' \in [Jobs -> [Waiters -> {"idle", "pending", "ok", "error"}]]
      /\ \A k \in Jobs \ {j} : io'[k] = io[k]
      /\ \A v \in Waiters \ {Main} : io'[j][v] = io[j][v]
      /\ io'[j][Main] = "idle"
      /\ calls' = calls /\ Queued' = Queued /\ QueueKnown'
      /\ \A d \in Queued : d.job = j => d.who # Main
  BY <1>1, Drops, Constants
<1>4. /\ \A k \in Jobs \ {j} : pc'[k] = pc[k] /\ (k \in tasks' <=> k \in tasks)
      /\ pc' \in [Jobs -> Unended \cup {"new", "refused", "end", "gone", "reading", "marking"}]
      /\ tasks' \subseteq tasks
      /\ pc'[j] \in {"batch", "end"} /\ (j \in tasks' <=> pc'[j] = "batch")
  BY <1>1, <1>2, ZenonT(40) DEF JobTypes, JobKnown, Unended
<1>5. \A u \in Urls : io[j][u] = "idle" /\ item[j][u] = "none" /\ io'[j][u] = "idle"
  BY <1>1, <1>2, <1>3, Constants DEF JobKnown, JobTypes
<1>6. /\ item' \in [Jobs -> [Urls -> {"none", "queued", "crawl", "lock", "write", "save",
                                      "done", "failed", "cancelled"}]]
      /\ \A k \in Jobs \ {j} : item'[k] = item[k]
      /\ pc'[j] = "batch" => \A u \in Urls : item'[j][u] = "queued"
      /\ pc'[j] = "end" => \A u \in Urls : item'[j][u] = "none"
  <2>1. CASE pc' = [pc EXCEPT ![j] = "batch"] /\ item' = [item EXCEPT ![j] = [u \in Urls |-> "queued"]]
    <3>1. pc'[j] = "batch" /\ item'[j] = [u \in Urls |-> "queued"]
      BY <1>2, <2>1 DEF JobTypes
    <3> QED
      BY <1>2, <2>1, <3>1 DEF JobTypes
  <2>2. CASE pc' = [pc EXCEPT ![j] = "end"] /\ item' = item
    <3>1. pc'[j] = "end"
      BY <1>2, <2>2 DEF JobTypes
    <3> QED
      BY <1>2, <1>5, <2>2, <3>1 DEF JobTypes
  <2> QED
    BY <1>1, <2>1, <2>2
<1>7. OnlyJob(j)
  BY <1>1, <1>3, <1>4, <1>6 DEF OnlyJob
<1>8. JobTypes'
  BY <1>1, <1>2, <1>3, <1>4, <1>6 DEF JobTypes
<1>9. JobKnown(j)'
  <2>1. \A u \in Urls : item'[j][u] \in {"none", "queued"}
    BY <1>4, <1>6
  <2> QED
    BY <1>1, <1>2, <1>3, <1>4, <1>5, <1>6, <2>1, Constants DEF JobKnown, Unended
<1>10. RowsKnown(j)'
  <2>1. NoRowQueued(j)' = NoRowQueued(j)
    BY <1>3 DEF NoRowQueued
  <2>2. /\ pc[j] # "gone" /\ rows' = rows /\ memory'[j].done = memory[j].done
        /\ \A u \in Urls : RowUntouched(j, u)
    BY <1>1, <1>4, <1>5, <1>6 DEF RowUntouched, Early
  <2> QED
    BY <2>1, <2>2, RowsStay
<1>11. (\A d \in Queued : d.job = j => CallKnown(d))'
  <2> SUFFICES ASSUME NEW d \in Queued, d.job = j
               PROVE  CallKnown(d)'
    BY <1>3
  <2>1. CallKnown(d) /\ d \in CallSet
    BY <1>2 DEF JobsInv, JobTypes, Queued
  <2>2. d.who = Nobody
    BY <1>3, <1>5, <2>1, CallParts, Constants DEF CallKnown
  <2>3. ~Quiet(j)
    BY <1>5, JobsAssumption DEF Quiet, Ended
  <2>4. d.kind \notin {"settle", "row"}
    BY <1>1, <2>1, <2>2, <2>3 DEF CallKnown
  <2> QED
    BY <1>4, <2>1, <2>2, <2>4, Constants DEF CallKnown
<1> QED
  BY <1>1, <1>3, <1>4, <1>7, <1>8, <1>9, <1>10, <1>11, TaskMoves DEF Unended, AtClose

(* A URL moves towards its row without awaiting anything.                   *)
LEMMA ItemAdvances ==
  ASSUME JobsInv, NEW j \in Jobs, NEW u \in Urls, NEW a \in {"crawl", "lock"},
         item[j][u] \in {"queued", "crawl"}, item' = [item EXCEPT ![j][u] = a],
         UNCHANGED <<proc, tasks, pc, memory, io, calls, closing, reader, now, records, rows, phase, faults, crashes>>,
         slots' \in [Jobs -> SUBSET Urls], \A k \in Jobs \ {j} : slots'[k] = slots[k],
         slots[j] \subseteq slots'[j], Cardinality(slots'[j]) <= Concurrency,
         now < memory[j].deadline => u \in slots'[j]
  PROVE  JobsInv'
<1>1. JobTypes /\ JobKnown(j)
  BY DEF JobsInv
<1>2. pc[j] = "batch" /\ ~Quiet(j)
  BY <1>1, OnlyInBatch
<1>3. /\ \A k \in Jobs \ {j} : item'[k] = item[k]
      /\ item'[j][u] = a /\ \A v \in Urls \ {u} : item'[j][v] = item[j][v]
      /\ item' \in [Jobs -> [Urls -> {"none", "queued", "crawl", "lock", "write", "save",
                                      "done", "failed", "cancelled"}]]
  BY <1>1 DEF JobTypes
<1>4. Queued' = Queued /\ QueueKnown' /\ OnlyJob(j)
  BY <1>3 DEF Queued, QueueKnown, JobsInv, OnlyJob
<1>5. JobTypes'
  BY <1>1, <1>3 DEF JobTypes
<1>6. JobKnown(j)'
  <2>1. io[j][Main] = "idle" /\ io[j][u] = "idle"
    BY <1>1, <1>2, Constants DEF JobKnown, JobTypes
  <2>2. \A v \in Urls : item'[j][v] = "write" => v # u /\ item[j][v] = "write"
    BY <1>3
  <2>3. now < memory[j].deadline =>
          \A v \in Urls : item'[j][v] \in {"crawl", "lock", "write", "save"} => v \in slots'[j]
    BY <1>1, <1>3 DEF JobKnown
  <2> QED
    BY <1>1, <1>2, <1>3, <2>1, <2>2, <2>3 DEF JobKnown, Unended
<1>7. RowsKnown(j)'
  <2>1. NoRowQueued(j)' = NoRowQueued(j)
    BY <1>4 DEF NoRowQueued
  <2>2. \A v \in Urls : RowUntouched(j, v)
    BY <1>3 DEF RowUntouched, Early
  <2> QED
    BY <1>2, <2>1, <2>2, RowsStay
<1>8. (\A d \in Queued : d.job = j => CallKnown(d))'
  <2> SUFFICES ASSUME NEW d \in Queued, d.job = j
               PROVE  CallKnown(d)'
    BY <1>4
  <2>1. CallKnown(d) /\ d \in CallSet
    BY <1>1 DEF JobsInv, JobTypes, Queued
  <2>2. Present(j)' = Present(j)
    BY DEF Present
  <2> QED
    BY <1>2, <1>3, <2>1, <2>2, CallParts DEF CallKnown
<1> QED
  BY <1>2, <1>4, <1>5, <1>6, <1>7, <1>8, TaskMoves DEF Unended, AtClose

LEMMA AcquireKeeps ==
  ASSUME JobsInv, NEW j \in Jobs, NEW u \in Urls, Acquire(j, u)
  PROVE  JobsInv'
<1>1. /\ item[j][u] = "queued" /\ Cardinality(slots[j]) < Concurrency
      /\ item' = [item EXCEPT ![j][u] = "crawl"] /\ slots' = [slots EXCEPT ![j] = @ \cup {u}]
      /\ UNCHANGED <<proc, tasks, pc, memory, io, calls, closing, reader, now, records, rows, phase, faults, crashes>>
  BY DEF Acquire, ioVars, worldVars
<1>2. slots \in [Jobs -> SUBSET Urls] /\ IsFiniteSet(slots[j])
  BY JobsAssumption, FS_Subset DEF JobsInv, JobTypes
<1>3. /\ slots' \in [Jobs -> SUBSET Urls] /\ \A k \in Jobs \ {j} : slots'[k] = slots[k]
      /\ slots'[j] = slots[j] \cup {u}
  BY <1>1, <1>2
<1>4. Cardinality(slots'[j]) <= Concurrency
  <2> DEFINE S == slots[j]
  <2>1. Cardinality(S) \in Nat /\ Cardinality(S) < Concurrency
    BY <1>1, <1>2, FS_CardinalityType
  <2>2. IsFiniteSet(S)
    BY <1>2
  <2> HIDE DEF S
  <2>3. Cardinality(S \cup {u}) = Cardinality(S) \/ Cardinality(S \cup {u}) = Cardinality(S) + 1
    BY <2>2, FS_AddElement
  <2>4. Cardinality(S \cup {u}) <= Concurrency
    BY <2>1, <2>3, Constants
  <2> QED
    BY <1>3, <2>4 DEF S
<1> QED
  BY <1>1, <1>3, <1>4, ItemAdvances

LEMMA CrawlEndsKeeps ==
  ASSUME JobsInv, NEW j \in Jobs, NEW u \in Urls, CrawlEnds(j, u)
  PROVE  JobsInv'
<1>1. /\ item[j][u] = "crawl" /\ item' = [item EXCEPT ![j][u] = "lock"]
      /\ UNCHANGED <<proc, tasks, pc, memory, slots, io, calls, closing, reader, now, records, rows, phase, faults, crashes>>
  BY DEF CrawlEnds, ioVars, worldVars
<1>2. JobKnown(j) /\ slots \in [Jobs -> SUBSET Urls]
  BY DEF JobsInv, JobTypes
<1>3. Cardinality(slots[j]) <= Concurrency /\ (now < memory[j].deadline => u \in slots[j])
  BY <1>1, <1>2 DEF JobKnown
<1> QED
  BY <1>1, <1>2, <1>3, ItemAdvances

LEMMA QueueExpiresKeeps ==
  ASSUME JobsInv, NEW j \in Jobs, NEW u \in Urls, QueueExpires(j, u)
  PROVE  JobsInv'
<1>1. /\ item[j][u] = "queued" /\ now >= memory[j].deadline /\ item' = [item EXCEPT ![j][u] = "lock"]
      /\ UNCHANGED <<proc, tasks, pc, memory, slots, io, calls, closing, reader, now, records, rows, phase, faults, crashes>>
  BY DEF QueueExpires, ioVars, worldVars
<1>2. JobKnown(j) /\ slots \in [Jobs -> SUBSET Urls] /\ now \in Nat /\ memory[j].deadline \in Nat
  BY DEF JobsInv, JobTypes, RecordSet
<1>3. Cardinality(slots[j]) <= Concurrency /\ (now < memory[j].deadline => u \in slots[j])
  BY <1>1, <1>2 DEF JobKnown
<1> QED
  BY <1>1, <1>2, <1>3, ItemAdvances

(* The lock in deliver: a row is written when no other is on its way.       *)
LEMMA WriteRowKeeps ==
  ASSUME JobsInv, NEW j \in Jobs, NEW u \in Urls, WriteRow(j, u)
  PROVE  JobsInv'
<1>1. /\ item[j][u] = "lock" /\ LockFree(j) /\ item' = [item EXCEPT ![j][u] = "write"]
      /\ Await(j, u, RowCall(j, u, memory[j].done))
      /\ UNCHANGED <<proc, tasks, pc, memory, slots, closing, reader, now, records, rows, phase, faults, crashes>>
  BY DEF WriteRow, worldVars
<1>2. JobTypes /\ JobKnown(j) /\ RowsKnown(j) /\ memory[j].done \in Seqs
  BY DEF JobsInv, JobTypes, RecordSet
<1>3. pc[j] = "batch" /\ ~Quiet(j) /\ ~RowLanded(j)
  BY <1>1, <1>2, ZenonT(40) DEF JobKnown, Quiet, Ended, JobTypes, Unended, LockFree, RowLanded
<1>4. io[j][Main] = "idle" /\ io[j][u] = "idle"
  BY <1>1, <1>2, <1>3, Constants DEF JobKnown, JobTypes
<1>5. /\ \A k \in Jobs \ {j} : item'[k] = item[k]
      /\ item'[j][u] = "write" /\ \A v \in Urls \ {u} : item'[j][v] = item[j][v] /\ item[j][v] # "write"
      /\ item' \in [Jobs -> [Urls -> {"none", "queued", "crawl", "lock", "write", "save",
                                      "done", "failed", "cancelled"}]]
  BY <1>1, <1>2 DEF JobTypes, LockFree
<1>6. PICK c \in CallSet : /\ c = RowCall(j, u, memory[j].done) /\ c.job = j /\ c.who = u /\ c.kind = "row"
                           /\ c.seq = memory[j].done /\ c.url = u
  <2> DEFINE n == memory[j].done
  <2>1. n \in Seqs
    BY <1>2
  <2> HIDE DEF n
  <2>2. RowCall(j, u, n) \in CallSet /\ RowCall(j, u, n).job = j /\ RowCall(j, u, n).who = u
        /\ RowCall(j, u, n).kind = "row" /\ RowCall(j, u, n).seq = n /\ RowCall(j, u, n).url = u
    BY <1>2, <2>1, CallsMade
  <2> QED
    BY <2>2 DEF n
<1>7. ASSUME NEW d \in Queued, d.job = j
      PROVE  d.kind \notin {"row", "settle"} /\ CallKnown(d) /\ d \in CallSet
  <2>1. CallKnown(d) /\ d \in CallSet
    BY <1>2 DEF JobsInv, JobTypes, Queued
  <2>2. d.kind # "row"
    BY <1>1, <1>3, <1>7, <2>1, CallParts DEF CallKnown, LockFree
  <2> QED
    BY <1>3, <1>7, <2>1, <2>2 DEF CallKnown
<1>8. /\ io' \in [Jobs -> [Waiters -> {"idle", "pending", "ok", "error"}]]
      /\ \A k \in Jobs \ {j} : io'[k] = io[k]
      /\ \A v \in Waiters \ {u} : io'[j][v] = io[j][v]
      /\ io'[j][u] = "pending"
      /\ calls' \in Seq(CallSet) /\ Queued' = Queued \cup {c} /\ QueueKnown'
      /\ \A d \in Queued : d.job = j => d.who # u
  <2>1. Await(j, u, c) /\ u \in Waiters
    BY <1>1, <1>6, Constants
  <2> QED
    BY <1>4, <1>6, <1>7, <2>1, Awaits
<1>9. OnlyJob(j)
  BY <1>1, <1>5, <1>6, <1>8 DEF OnlyJob
<1>10. JobTypes'
  BY <1>1, <1>2, <1>5, <1>8 DEF JobTypes
<1>11. JobKnown(j)'
  <2>1. now < memory[j].deadline =>
          \A v \in Urls : item'[j][v] \in {"crawl", "lock", "write", "save"} => v \in slots[j]
    BY <1>1, <1>2, <1>5 DEF JobKnown
  <2>2. \A v, w \in Urls : item'[j][v] = "write" /\ item'[j][w] = "write" => v = w
    BY <1>5
  <2>3. \A v \in Urls : io'[j][v] # "idle" => item'[j][v] \in {"write", "save"}
    BY <1>2, <1>5, <1>8, Constants DEF JobKnown
  <2>4. io'[j][Main] = "idle"
    <3>1. u # Main /\ Main \in Waiters
      BY Constants
    <3> QED
      BY <1>4, <1>8, <3>1
  <2>5. \A v \in Urls : item'[j][v] # "none"
    BY <1>2, <1>3, <1>5 DEF JobKnown
  <2>6. /\ pc'[j] = "batch" /\ tasks' = tasks /\ slots' = slots
        /\ memory' = memory /\ now' = now
    BY <1>1, <1>3
  <2>7. j \in tasks' /\ Cardinality(slots'[j]) <= Concurrency
    BY <1>2, <1>3, <2>6 DEF JobKnown, Unended
  <2> QED
    BY <2>1, <2>2, <2>3, <2>4, <2>5, <2>6, <2>7 DEF JobKnown, Unended
<1>12. RowsKnown(j)'
  <2>1. Present(j)' = Present(j) /\ Present(j) = 0..(memory[j].done - 1)
    BY <1>1, <1>2, <1>3 DEF RowsKnown, Present
  <2>2. \A n \in Present(j) : /\ rows[j][n].url \in Urls \ {u}
                              /\ item'[j][rows[j][n].url] = item[j][rows[j][n].url]
                              /\ io'[j][rows[j][n].url] = io[j][rows[j][n].url]
    BY <1>1, <1>2, <1>3, <1>5, <1>8, Constants DEF RowsKnown
  <2>3. ASSUME NEW v \in Urls
        PROVE  /\ item'[j][v] \in {"save", "done"} => \E n \in Present(j) : rows[j][n].url = v
               /\ ~(item'[j][v] = "write" /\ io'[j][v] = "ok")
    BY <1>2, <1>5, <1>8, Constants DEF RowsKnown
  <2> QED
    BY <1>1, <1>2, <1>3, <2>1, <2>2, <2>3 DEF RowsKnown
<1>13. (\A d \in Queued : d.job = j => CallKnown(d))'
  <2>1. ASSUME NEW d \in Queued, d.job = j
        PROVE  CallKnown(d)'
    <3>1. CallKnown(d) /\ d \in CallSet /\ d.kind \notin {"row", "settle"} /\ d.who # u
      BY <1>7, <1>8, <2>1
    <3> QED
      BY <1>1, <1>5, <1>8, <2>1, <3>1, CallParts DEF CallKnown
  <2>2. CallKnown(c)'
    <3>1. \A n \in Present(j) : rows[j][n].url # u
      BY <1>1, <1>2, <1>3 DEF RowsKnown
    <3>2. Present(j)' = Present(j)
      BY <1>1 DEF Present
    <3> QED
      BY <1>1, <1>3, <1>5, <1>6, <1>8, <3>1, <3>2, Constants DEF CallKnown
  <2> QED
    BY <1>8, <2>1, <2>2
<1> QED
  BY <1>1, <1>3, <1>8, <1>9, <1>10, <1>11, <1>12, <1>13, TaskMoves DEF Unended, AtClose

(* No two rows of a job show the same URL, so there is a number for each.   *)
LEMMA RowsFit ==
  ASSUME JobsInv, NEW j \in Jobs, pc[j] # "gone", NEW n \in Nat, Present(j) = 0..n
  PROVE  n + 1 \in Seqs
<1>1. RowsKnown(j) /\ IsFiniteSet(Urls) /\ Total \in Nat
  BY JobsAssumption, Constants DEF JobsInv
<1>2. SUFFICES ASSUME Total < n + 1 PROVE FALSE
  BY <1>1 DEF Seqs
<1> DEFINE S == 0..n
           f == [m \in S |-> rows[j][m].url]
<1>3. IsFiniteSet(S) /\ Cardinality(S) = n + 1
  BY FS_Interval
<1>4. f \in [S -> Urls] /\ \A x, y \in S : f[x] = f[y] => x = y
  BY <1>1 DEF RowsKnown
<1>5. Cardinality(Urls) < Cardinality(S)
  BY <1>2, <1>3 DEF Total
<1> HIDE DEF S, f
<1> QED
  BY <1>1, <1>3, <1>4, <1>5, FS_PigeonHole

(* The storage call of a row has answered: the row is counted or its URL    *)
(* has failed.                                                              *)
RowAnswer(j, u, a) ==
    /\ item[j][u] = "write" /\ io[j][u] \in {"ok", "error"} /\ item' = [item EXCEPT ![j][u] = a]
    /\ a = "failed" => io[j][u] = "error" /\ memory' = memory
    /\ a # "failed" => io[j][u] = "ok" /\ memory' = [memory EXCEPT ![j] = Counted(@)]
    /\ io' \in [Jobs -> [Waiters -> {"idle", "pending", "ok", "error"}]]
    /\ \A k \in Jobs \ {j} : io'[k] = io[k]
    /\ \A v \in Waiters \ {u} : io'[j][v] = io[j][v]
    /\ a = "save" => io'[j][u] = "pending" /\ slots' = slots
    /\ a # "save" => io'[j][u] = "idle" /\ slots' = [slots EXCEPT ![j] = @ \ {u}]
    /\ calls' \in Seq(CallSet) /\ QueueKnown'
    /\ \A c \in Queued' : c \in Queued \/ (c.job = j /\ c.kind = "save" /\ c.who = u /\ a = "save")
    /\ \A d \in Queued : d.job = j => d.who # u
    /\ UNCHANGED <<proc, tasks, pc, closing, reader, now, records, rows, phase, faults, crashes>>

LEMMA RowAnswered ==
  ASSUME JobsInv, NEW j \in Jobs, NEW u \in Urls, NEW a \in {"failed", "done", "save"}, RowAnswer(j, u, a)
  PROVE  JobsInv'
<1> USE DEF RowAnswer
<1>1. JobTypes /\ JobKnown(j) /\ RowsKnown(j) /\ memory[j] \in RecordSet
  BY DEF JobsInv, JobTypes
<1>2. pc[j] = "batch" /\ ~Quiet(j)
  BY <1>1, OnlyInBatch
<1>3. /\ \A k \in Jobs \ {j} : item'[k] = item[k]
      /\ item'[j][u] = a /\ \A v \in Urls \ {u} : item'[j][v] = item[j][v] /\ item[j][v] # "write"
      /\ item' \in [Jobs -> [Urls -> {"none", "queued", "crawl", "lock", "write", "save",
                                      "done", "failed", "cancelled"}]]
  BY <1>1 DEF JobTypes, JobKnown
<1>4. a # "failed" => Present(j) = 0..memory[j].done /\ rows[j][memory[j].done].url = u
  <2> SUFFICES ASSUME a # "failed"
               PROVE  Present(j) = 0..memory[j].done /\ rows[j][memory[j].done].url = u
    OBVIOUS
  <2>1. memory[j].done \in Present(j) /\ rows[j][memory[j].done].url = u
    BY <1>1 DEF RowsKnown
  <2>2. memory[j].done \in Nat
    BY <1>1, Constants DEF RecordSet
  <2> QED
    BY <1>1, <1>2, <2>1, <2>2 DEF RowsKnown
<1>5. a # "failed" => memory[j].done + 1 \in Seqs
  BY <1>1, <1>2, <1>4, RowsFit, Constants DEF RecordSet
<1>6. /\ memory' \in [Jobs -> RecordSet] /\ \A k \in Jobs \ {j} : memory'[k] = memory[k]
      /\ memory'[j].deadline = memory[j].deadline
      /\ memory'[j].done = IF a = "failed" THEN memory[j].done ELSE memory[j].done + 1
  <2>1. CASE a = "failed"
    BY <1>1, <2>1 DEF JobTypes
  <2>2. CASE a # "failed"
    <3>1. memory' = [memory EXCEPT ![j] = Counted(memory[j])] /\ Counted(memory[j]) \in RecordSet
          /\ Counted(memory[j]).deadline = memory[j].deadline /\ Counted(memory[j]).done = memory[j].done + 1
      BY <1>1, <1>5, <2>2 DEF Counted, RecordSet
    <3> QED
      BY <1>1, <2>2, <3>1 DEF JobTypes
  <2> QED
    BY <2>1, <2>2
<1>7. /\ slots' \in [Jobs -> SUBSET Urls] /\ \A k \in Jobs \ {j} : slots'[k] = slots[k]
      /\ slots'[j] = IF a = "save" THEN slots[j] ELSE slots[j] \ {u}
  <2>1. slots \in [Jobs -> SUBSET Urls]
    BY <1>1 DEF JobTypes
  <2>2. CASE slots' = slots /\ a = "save"
    BY <2>1, <2>2
  <2>3. CASE slots' = [slots EXCEPT ![j] = @ \ {u}] /\ a # "save"
    BY <2>1, <2>3
  <2> QED
    BY <2>2, <2>3
<1>8. OnlyJob(j)
  BY <1>3, <1>6, <1>7 DEF OnlyJob
<1>9. JobTypes'
  BY <1>1, <1>3, <1>6, <1>7 DEF JobTypes
<1>10. JobKnown(j)'
  <2>1. Cardinality(slots'[j]) <= Concurrency
    <3>1. IsFiniteSet(slots[j]) /\ slots'[j] \subseteq slots[j] /\ Cardinality(slots[j]) <= Concurrency
      BY <1>1, <1>7, JobsAssumption, FS_Subset DEF JobTypes, JobKnown
    <3>2. Cardinality(slots'[j]) <= Cardinality(slots[j]) /\ Cardinality(slots'[j]) \in Nat
          /\ Cardinality(slots[j]) \in Nat
      BY <3>1, FS_Subset, FS_CardinalityType
    <3> QED
      BY <3>1, <3>2, Constants
  <2>2. now < memory[j].deadline =>
          \A v \in Urls : item'[j][v] \in {"crawl", "lock", "write", "save"} => v \in slots'[j]
    BY <1>1, <1>3, <1>7 DEF JobKnown
  <2>3. \A v \in Urls : io'[j][v] # "idle" => item'[j][v] \in {"write", "save"}
    BY <1>1, <1>3, Constants DEF JobKnown
  <2>4. io'[j][Main] = "idle" /\ \A v \in Urls : item'[j][v] # "none" /\ item'[j][v] # "write"
    <3>1. io[j][Main] = "idle"
      BY <1>1, <1>2 DEF JobKnown
    <3>2. io'[j][Main] = "idle"
      BY <3>1, Constants
    <3> QED
      BY <1>1, <1>2, <1>3, <3>2 DEF JobKnown
  <2> QED
    BY <1>1, <1>2, <1>6, <2>1, <2>2, <2>3, <2>4 DEF JobKnown, Unended
<1>11. NoRowQueued(j)
  <2> SUFFICES ASSUME NEW d \in Queued, d.job = j, d.kind = "row" PROVE FALSE
    BY DEF NoRowQueued
  <2>1. CallKnown(d) /\ d \in CallSet
    BY QueuedCalls
  <2> QED
    BY <1>2, <1>3, <2>1, CallParts DEF CallKnown
<1>12. RowsKnown(j)'
  <2>1. Present(j)' = Present(j) /\ Present(j) = 0..(memory'[j].done - 1)
    <3>1. Present(j)' = Present(j)
      BY DEF Present
    <3>2. CASE a = "failed"
      <4>1. ~RowLanded(j)
        BY <1>3, <3>2 DEF RowLanded
      <4> QED
        BY <1>1, <1>2, <1>6, <3>1, <3>2, <4>1 DEF RowsKnown
    <3>3. CASE a # "failed"
      <4>1. memory[j].done \in Nat /\ (memory[j].done + 1) - 1 = memory[j].done
        BY <1>1, Constants DEF RecordSet
      <4> QED
        BY <1>4, <1>6, <3>1, <3>3, <4>1
    <3> QED
      BY <3>2, <3>3
  <2>2. \A n \in Present(j) : /\ rows[j][n].url \in Urls
                              /\ item'[j][rows[j][n].url] \in {"save", "done", "failed", "cancelled"}
    BY <1>1, <1>2, <1>3 DEF RowsKnown
  <2>3. \A v \in Urls : item'[j][v] \in {"save", "done"} => \E n \in Present(j) : rows[j][n].url = v
    <3>1. a # "failed" => memory[j].done \in Present(j)
      BY <1>1, <1>4, Constants DEF RecordSet
    <3> QED
      BY <1>1, <1>3, <1>4, <3>1 DEF RowsKnown
  <2>4. \A v \in Urls : item'[j][v] # "write"
    BY <1>3
  <2> QED
    BY <1>1, <2>1, <2>2, <2>3, <2>4 DEF RowsKnown
<1>13. (\A d \in Queued : d.job = j => CallKnown(d))'
  <2> SUFFICES ASSUME NEW c \in Queued', c.job = j
               PROVE  CallKnown(c)'
    OBVIOUS
  <2>1. CASE c \in Queued
    <3>1. CallKnown(c) /\ c \in CallSet /\ c.kind # "row" /\ c.who # u
      BY <1>11, <2>1, QueuedCalls DEF NoRowQueued
    <3> QED
      BY <1>2, <1>3, <3>1, CallParts DEF CallKnown
  <2>2. CASE c.job = j /\ c.kind = "save" /\ c.who = u /\ a = "save"
    BY <1>2, <1>3, <2>2, Constants DEF CallKnown
  <2> QED
    BY <2>1, <2>2
<1> QED
  BY <1>2, <1>8, <1>9, <1>10, <1>12, <1>13, TaskMoves DEF Unended, AtClose

LEMMA RowWrittenKeeps ==
  ASSUME JobsInv, NEW j \in Jobs, NEW u \in Urls, RowWritten(j, u)
  PROVE  JobsInv'
<1>1. /\ item[j][u] = "write" /\ io[j][u] \in {"ok", "error"}
      /\ UNCHANGED <<proc, tasks, pc, closing, reader, now, records, rows, phase, faults, crashes>>
  BY DEF RowWritten, worldVars
<1>2. JobTypes /\ memory[j] \in RecordSet /\ u \in Waiters /\ u # Nobody
  BY Constants DEF JobsInv, JobTypes
<1>3. CASE Drop(j, u) /\ Release(j, u)
           /\ \/ io[j][u] = "error" /\ item' = [item EXCEPT ![j][u] = "failed"] /\ memory' = memory
              \/ /\ io[j][u] = "ok" /\ item' = [item EXCEPT ![j][u] = "done"]
                 /\ memory' = [memory EXCEPT ![j] = Counted(@)]
  <2>1. /\ io' \in [Jobs -> [Waiters -> {"idle", "pending", "ok", "error"}]]
        /\ \A k \in Jobs \ {j} : io'[k] = io[k]
        /\ \A v \in Waiters \ {u} : io'[j][v] = io[j][v]
        /\ io'[j][u] = "idle"
        /\ calls' = calls /\ Queued' = Queued /\ QueueKnown'
        /\ \A d \in Queued : d.job = j => d.who # u
    BY <1>1, <1>2, <1>3, Drops
  <2>2. calls' \in Seq(CallSet) /\ slots' = [slots EXCEPT ![j] = @ \ {u}]
    BY <1>2, <1>3, <2>1 DEF JobTypes, Release
  <2>3. CASE io[j][u] = "error" /\ item' = [item EXCEPT ![j][u] = "failed"] /\ memory' = memory
    <3>1. RowAnswer(j, u, "failed")
      BY <1>1, <2>1, <2>2, <2>3 DEF RowAnswer
    <3> QED
      BY <3>1, RowAnswered
  <2>4. CASE /\ io[j][u] = "ok" /\ item' = [item EXCEPT ![j][u] = "done"]
             /\ memory' = [memory EXCEPT ![j] = Counted(@)]
    <3>1. RowAnswer(j, u, "done")
      BY <1>1, <2>1, <2>2, <2>4 DEF RowAnswer
    <3> QED
      BY <3>1, RowAnswered
  <2> QED
    BY <1>3, <2>3, <2>4
<1>4. CASE /\ io[j][u] = "ok" /\ item' = [item EXCEPT ![j][u] = "save"]
           /\ memory' = [memory EXCEPT ![j] = Counted(@)]
           /\ Await(j, u, SaveCall(j, u, memory'[j])) /\ slots' = slots
  <2>1. memory'[j] = Counted(memory[j])
    BY <1>2, <1>4 DEF JobTypes
  <2>2. Counted(memory[j]) \in RecordSet
    <3>1. JobKnown(j) /\ RowsKnown(j) /\ memory[j].done \in Nat
      BY <1>2, Constants DEF JobsInv, RecordSet
    <3>2. pc[j] = "batch"
      BY <1>1, <1>2, <3>1 DEF JobKnown, Quiet, Ended, JobTypes, Unended
    <3>3. memory[j].done \in Present(j)
      BY <1>1, <1>4, <3>1 DEF RowsKnown
    <3>4. Present(j) = 0..memory[j].done
      BY <3>1, <3>2, <3>3 DEF RowsKnown
    <3>5. memory[j].done + 1 \in Seqs
      BY <3>1, <3>2, <3>4, RowsFit
    <3> QED
      BY <1>2, <3>5 DEF Counted, RecordSet
  <2>3. PICK c \in CallSet : c = SaveCall(j, u, memory'[j]) /\ c.job = j /\ c.who = u /\ c.kind = "save"
    <3> DEFINE r == Counted(memory[j])
    <3>1. r \in RecordSet /\ memory'[j] = r
      BY <2>1, <2>2
    <3> HIDE DEF r
    <3>2. SaveCall(j, u, r) \in CallSet /\ SaveCall(j, u, r).job = j /\ SaveCall(j, u, r).who = u
          /\ SaveCall(j, u, r).kind = "save"
      BY <1>2, <3>1, CallsMade
    <3> QED
      BY <3>1, <3>2
  <2>4. \A d \in Queued : d.job = j => d.kind \notin {"row", "settle"}
    <3> SUFFICES ASSUME NEW d \in Queued, d.job = j, d.kind \in {"row", "settle"} PROVE FALSE
      OBVIOUS
    <3>1. CallKnown(d) /\ d \in CallSet /\ JobKnown(j)
      BY QueuedCalls DEF JobsInv
    <3>2. pc[j] = "batch" /\ ~Quiet(j)
      BY <1>1, OnlyInBatch
    <3>3. d.kind = "row" => d.who = u
      BY <1>1, <3>1, <3>2, CallParts DEF CallKnown, JobKnown
    <3> QED
      BY <1>1, <1>2, <3>1, <3>2, <3>3 DEF CallKnown
  <2>5. /\ io' \in [Jobs -> [Waiters -> {"idle", "pending", "ok", "error"}]]
        /\ \A k \in Jobs \ {j} : io'[k] = io[k]
        /\ \A v \in Waiters \ {u} : io'[j][v] = io[j][v]
        /\ io'[j][u] = "pending"
        /\ calls' \in Seq(CallSet) /\ Queued' = Queued \cup {c} /\ QueueKnown'
        /\ \A d \in Queued : d.job = j => d.who # u
    <3>1. Await(j, u, c) /\ io[j][u] # "pending"
      BY <1>1, <1>4, <2>3
    <3> QED
      BY <1>2, <2>3, <2>4, <3>1, Awaits
  <2>6. RowAnswer(j, u, "save")
    BY <1>1, <1>4, <2>3, <2>5 DEF RowAnswer
  <2> QED
    BY <2>6, RowAnswered
<1> QED
  BY <1>1, <1>3, <1>4 DEF RowWritten

LEMMA ProgressSavedKeeps ==
  ASSUME JobsInv, NEW j \in Jobs, NEW u \in Urls, ProgressSaved(j, u)
  PROVE  JobsInv'
<1>1. /\ item[j][u] = "save" /\ io[j][u] \in {"ok", "error"} /\ item' = [item EXCEPT ![j][u] = "done"]
      /\ Drop(j, u) /\ slots' = [slots EXCEPT ![j] = @ \ {u}]
      /\ UNCHANGED <<proc, tasks, pc, memory, closing, reader, now, records, rows, phase, faults, crashes>>
  BY DEF ProgressSaved, Release, worldVars
<1>2. JobTypes /\ JobKnown(j) /\ RowsKnown(j) /\ u \in Waiters
  BY Constants DEF JobsInv
<1>3. pc[j] = "batch" /\ ~Quiet(j)
  BY <1>1, <1>2 DEF JobKnown, Quiet, Ended, JobTypes, Unended
<1>4. /\ \A k \in Jobs \ {j} : item'[k] = item[k]
      /\ item'[j][u] = "done" /\ \A v \in Urls \ {u} : item'[j][v] = item[j][v]
      /\ item' \in [Jobs -> [Urls -> {"none", "queued", "crawl", "lock", "write", "save",
                                      "done", "failed", "cancelled"}]]
  BY <1>1, <1>2 DEF JobTypes
<1>5. /\ io' \in [Jobs -> [Waiters -> {"idle", "pending", "ok", "error"}]]
      /\ \A k \in Jobs \ {j} : io'[k] = io[k]
      /\ \A v \in Waiters \ {u} : io'[j][v] = io[j][v]
      /\ io'[j][u] = "idle"
      /\ calls' = calls /\ Queued' = Queued /\ QueueKnown'
      /\ \A d \in Queued : d.job = j => d.who # u
  BY <1>1, <1>2, Drops
<1>6. /\ slots' \in [Jobs -> SUBSET Urls] /\ \A k \in Jobs \ {j} : slots'[k] = slots[k]
      /\ slots'[j] = slots[j] \ {u}
  BY <1>1, <1>2 DEF JobTypes
<1>7. OnlyJob(j)
  BY <1>1, <1>4, <1>5, <1>6 DEF OnlyJob
<1>8. JobTypes'
  BY <1>1, <1>2, <1>4, <1>5, <1>6 DEF JobTypes
<1>9. JobKnown(j)'
  <2>1. Cardinality(slots'[j]) <= Concurrency
    <3>1. IsFiniteSet(slots[j]) /\ slots'[j] \subseteq slots[j] /\ Cardinality(slots[j]) <= Concurrency
      BY <1>2, <1>6, JobsAssumption, FS_Subset DEF JobTypes, JobKnown
    <3>2. Cardinality(slots'[j]) <= Cardinality(slots[j]) /\ Cardinality(slots'[j]) \in Nat
          /\ Cardinality(slots[j]) \in Nat
      BY <3>1, FS_Subset, FS_CardinalityType
    <3> QED
      BY <3>1, <3>2, Constants
  <2>2. now < memory[j].deadline =>
          \A v \in Urls : item'[j][v] \in {"crawl", "lock", "write", "save"} => v \in slots'[j]
    BY <1>2, <1>4, <1>6 DEF JobKnown
  <2>3. \A v \in Urls : io'[j][v] # "idle" => item'[j][v] \in {"write", "save"}
    BY <1>2, <1>4, <1>5, Constants DEF JobKnown
  <2>4. io'[j][Main] = "idle" /\ \A v \in Urls : item'[j][v] # "none"
    <3>1. io[j][Main] = "idle"
      BY <1>2, <1>3 DEF JobKnown
    <3>2. io'[j][Main] = "idle"
      BY <1>5, <3>1, Constants
    <3> QED
      BY <1>2, <1>3, <1>4, <3>2 DEF JobKnown
  <2>5. \A v \in Urls : item'[j][v] = "write" => item[j][v] = "write"
    BY <1>4
  <2> QED
    BY <1>1, <1>2, <1>3, <2>1, <2>2, <2>3, <2>4, <2>5 DEF JobKnown, Unended
<1>10. RowsKnown(j)'
  <2>1. Present(j)' = Present(j) /\ NoRowQueued(j)' = NoRowQueued(j)
    BY <1>1, <1>5 DEF Present, NoRowQueued
  <2>2. RowLanded(j) => RowLanded(j)'
    BY <1>1, <1>4, <1>5, Constants DEF RowLanded
  <2>3. \A n \in Present(j) :
          LET v == rows[j][n].url
          IN /\ v \in Urls /\ item'[j][v] \in {"write", "save", "done", "failed", "cancelled"}
             /\ item'[j][v] = "write" => io'[j][v] = "ok" /\ n = memory[j].done
    BY <1>2, <1>3, <1>4, <1>5, Constants DEF RowsKnown
  <2>4. \A v \in Urls : item'[j][v] \in {"save", "done"} => \E n \in Present(j) : rows[j][n].url = v
    BY <1>1, <1>2, <1>4 DEF RowsKnown
  <2>5. \A v \in Urls : item'[j][v] = "write" /\ io'[j][v] = "ok" =>
              memory[j].done \in Present(j) /\ rows[j][memory[j].done].url = v
    BY <1>2, <1>4, <1>5, Constants DEF RowsKnown
  <2> QED
    BY <1>1, <1>2, <1>3, <2>1, <2>2, <2>3, <2>4, <2>5 DEF RowsKnown
<1>11. (\A d \in Queued : d.job = j => CallKnown(d))'
  <2> SUFFICES ASSUME NEW d \in Queued, d.job = j
               PROVE  CallKnown(d)'
    BY <1>5
  <2>1. CallKnown(d) /\ d \in CallSet /\ d.who # u
    BY <1>5, QueuedCalls
  <2>2. Present(j)' = Present(j)
    BY <1>1 DEF Present
  <2> QED
    BY <1>1, <1>3, <1>4, <1>5, <2>1, <2>2, CallParts DEF CallKnown
<1> QED
  BY <1>1, <1>3, <1>5, <1>7, <1>8, <1>9, <1>10, <1>11, TaskMoves DEF Unended, AtClose

LEMMA GroupAbortsKeeps ==
  ASSUME JobsInv, NEW j \in Jobs, GroupAborts(j)
  PROVE  JobsInv'
<1>1. /\ pc[j] = "batch" /\ calls' = Orphaned(j, Waiters) /\ slots' = [slots EXCEPT ![j] = {}]
      /\ item' = [item EXCEPT ![j] = [u \in Urls |-> IF Ended(j, u) THEN @[u] ELSE "cancelled"]]
      /\ io' = [io EXCEPT ![j] = [w \in Waiters |-> "idle"]]
      /\ UNCHANGED <<proc, tasks, pc, memory, closing, reader, now, records, rows, phase, faults, crashes>>
  BY DEF GroupAborts, CancelItems, worldVars
<1>2. JobTypes /\ JobKnown(j) /\ RowsKnown(j) /\ Nobody \notin Waiters
  BY Constants DEF JobsInv
<1>3. /\ calls' \in Seq(CallSet) /\ QueueKnown'
      /\ \A c \in Queued' : \E d \in Queued :
           /\ CallKnown(d) /\ c \in CallSet /\ d \in CallSet
           /\ c.job = d.job /\ c.kind = d.kind
           /\ c.who = IF d.job = j /\ d.who \in Waiters THEN Nobody ELSE d.who
           /\ c.kind = "row" => c.seq = d.seq /\ c.url = d.url
           /\ c.job # j => c = d
      /\ NoRowQueued(j) => NoRowQueued(j)'
  BY <1>1, <1>2, Cancels
<1>4. /\ \A k \in Jobs \ {j} : item'[k] = item[k] /\ slots'[k] = slots[k] /\ io'[k] = io[k]
      /\ \A u \in Urls : item'[j][u] = IF Ended(j, u) THEN item[j][u] ELSE "cancelled"
      /\ \A w \in Waiters : io'[j][w] = "idle"
      /\ slots'[j] = {}
  BY <1>1, <1>2 DEF JobTypes
<1>5. /\ io' \in [Jobs -> [Waiters -> {"idle", "pending", "ok", "error"}]]
      /\ item' \in [Jobs -> [Urls -> {"none", "queued", "crawl", "lock", "write", "save",
                                      "done", "failed", "cancelled"}]]
      /\ slots' \in [Jobs -> SUBSET Urls]
  BY <1>1, <1>2 DEF JobTypes
<1>6. Quiet(j)' /\ \A u \in Urls : item'[j][u] \in {"done", "failed", "cancelled"}
  BY <1>4 DEF Quiet, Ended
<1>7. OnlyJob(j)
  BY <1>1, <1>3, <1>4 DEF OnlyJob
<1>8. JobTypes'
  BY <1>1, <1>2, <1>3, <1>5, SMTT(30) DEF JobTypes
<1>9. JobKnown(j)'
  <2>1. Cardinality(slots'[j]) <= Concurrency
    BY <1>4, FS_EmptySet, Constants
  <2> QED
    BY <1>1, <1>2, <1>4, <1>6, <2>1, Constants DEF JobKnown, Unended
<1>10. RowsKnown(j)'
  <2>1. Present(j)' = Present(j)
    BY <1>1 DEF Present
  <2>2. \A u \in Urls : item'[j][u] \in {"save", "done"} => item[j][u] = "done"
    BY <1>4 DEF Ended
  <2> QED
    BY <1>1, <1>2, <1>3, <1>6, <2>1, <2>2 DEF RowsKnown
<1>11. (\A c \in Queued : c.job = j => CallKnown(c))'
  <2> SUFFICES ASSUME NEW c \in Queued', c.job = j
               PROVE  CallKnown(c)'
    OBVIOUS
  <2>1. PICK d \in Queued :
           /\ CallKnown(d) /\ c \in CallSet /\ d \in CallSet
           /\ c.job = d.job /\ c.kind = d.kind
           /\ c.who = IF d.job = j /\ d.who \in Waiters THEN Nobody ELSE d.who
           /\ c.kind = "row" => c.seq = d.seq /\ c.url = d.url
    BY <1>3
  <2>2. c.who = Nobody
    BY <2>1, CallParts
  <2>3. Present(j)' = Present(j) /\ pc[j] \notin {"new", "gone", "settle", "end", "reading", "marking"}
    BY <1>1 DEF Present
  <2>4. c.kind # "settle"
    BY <2>1, <2>3 DEF CallKnown
  <2>5. c.kind = "row" => c.seq = memory[j].done /\ \A n \in Present(j) : rows[j][n].url # c.url
    BY <2>1 DEF CallKnown
  <2> QED
    BY <1>1, <1>6, <2>2, <2>3, <2>4, <2>5, Constants DEF CallKnown
<1> QED
  BY <1>1, <1>3, <1>7, <1>8, <1>9, <1>10, <1>11, TaskMoves DEF Unended, AtClose

(* The last call of a job that ran to its end: the queue holds at most one  *)
(* call of it that nobody awaits, and that one is being worked on.          *)
LEMMA BatchEndsKeeps ==
  ASSUME JobsInv, NEW j \in Jobs, BatchEnds(j)
  PROVE  JobsInv'
<1>1. PICK outcome \in Final :
         /\ pc[j] \in {"batch", "stopping"} /\ Quiet(j)
         /\ memory' = [memory EXCEPT ![j].status = outcome]
         /\ Await(j, Main, SettleCall(j, memory'[j])) /\ Phase(j, "settling")
         /\ pc' = [pc EXCEPT ![j] = "settle"]
         /\ UNCHANGED <<proc, tasks, item, slots, closing, reader, now, records, rows, faults, crashes>>
  BY DEF BatchEnds, batchVars, BatchOver, Quiet, Final
<1>2. JobTypes /\ JobKnown(j)
  BY DEF JobsInv
<1>3. /\ memory' \in [Jobs -> RecordSet] /\ memory'[j] \in RecordSet
      /\ memory'[j].done = memory[j].done /\ memory'[j].deadline = memory[j].deadline
      /\ \A k \in Jobs \ {j} : memory'[k] = memory[k]
  BY ZenonT(40), <1>1, <1>2 DEF JobTypes, RecordSet, Statuses, Final
<1>4. PICK c \in CallSet : /\ c = SettleCall(j, memory'[j]) /\ c.job = j /\ c.who = Main /\ c.kind = "settle"
  <2>1. PICK q \in RecordSet : q = memory'[j]
    BY <1>3
  <2>2. SettleCall(j, q) \in CallSet /\ SettleCall(j, q).job = j /\ SettleCall(j, q).who = Main
        /\ SettleCall(j, q).kind = "settle"
    BY <1>2, CallsMade
  <2> QED
    BY <2>1, <2>2
<1>5. io[j][Main] = "idle" /\ \A u \in Urls : io[j][u] = "idle"
  BY <1>1, <1>2, Constants DEF JobKnown, JobTypes, Quiet, Ended
<1>6. \A d \in Queued : d.job = j => d.kind # "settle"
  BY <1>1, QueuedCalls DEF CallKnown
<1>7. /\ io' \in [Jobs -> [Waiters -> {"idle", "pending", "ok", "error"}]]
      /\ \A k \in Jobs \ {j} : io'[k] = io[k]
      /\ \A v \in Waiters \ {Main} : io'[j][v] = io[j][v]
      /\ io'[j][Main] = "pending"
      /\ calls' \in Seq(CallSet) /\ Queued' = Queued \cup {c} /\ QueueKnown'
      /\ \A d \in Queued : d.job = j => d.who # Main
  <2>1. Await(j, Main, c) /\ Main \in Waiters
    BY <1>1, <1>4, Constants
  <2> QED
    BY <1>4, <1>5, <1>6, <2>1, Awaits
<1>8. /\ pc'[j] = "settle" /\ \A k \in Jobs \ {j} : pc'[k] = pc[k]
      /\ pc' \in [Jobs -> Unended \cup {"new", "refused", "end", "gone", "reading", "marking"}]
      /\ phase' \in [Jobs -> {"open", "settling", "settled", "cut"}]
      /\ \A k \in Jobs \ {j} : phase'[k] = phase[k]
  BY <1>1, <1>2 DEF JobTypes, Unended, Phase
<1>9. OnlyJob(j)
  BY <1>1, <1>3, <1>4, <1>7, <1>8 DEF OnlyJob
<1>10. JobTypes'
  BY <1>1, <1>2, <1>3, <1>7, <1>8 DEF JobTypes
<1>11. Quiet(j)' /\ Present(j)' = Present(j)
  BY <1>1 DEF Quiet, Ended, Present
<1>12. JobKnown(j)'
  BY <1>1, <1>2, <1>3, <1>5, <1>7, <1>8, <1>11, Constants DEF JobKnown, Unended
<1>13. RowsKnown(j)'
  <2>1. NoRowQueued(j) => NoRowQueued(j)'
    BY <1>4, <1>7 DEF NoRowQueued
  <2>2. /\ pc[j] # "gone" /\ rows' = rows /\ memory'[j].done = memory[j].done
        /\ \A u \in Urls : RowUntouched(j, u)
    BY <1>1, <1>3, <1>7, Constants DEF RowUntouched
  <2> QED
    BY <2>1, <2>2, RowsStay
<1>14. (\A d \in Queued : d.job = j => CallKnown(d))'
  <2>1. ASSUME NEW d \in Queued, d.job = j
        PROVE  CallKnown(d)'
    <3>1. CallKnown(d) /\ d \in CallSet /\ d.kind # "settle"
      BY <1>6, <2>1, QueuedCalls
    <3>2. d.who = Nobody
      BY <1>5, <1>7, <2>1, <3>1, CallParts, Constants DEF CallKnown
    <3> QED
      BY <1>1, <1>3, <1>8, <1>11, <2>1, <3>1, <3>2, Constants DEF CallKnown
  <2>2. CallKnown(c)'
    BY <1>4, <1>7, <1>8, Constants DEF CallKnown
  <2> QED
    BY <1>7, <2>1, <2>2
<1> QED
  BY <1>1, <1>7, <1>8, <1>9, <1>10, <1>12, <1>13, <1>14, TaskMoves DEF Unended, AtClose

(* The task of a job ends with its batch.                                   *)
TaskEnds(j) ==
    /\ pc[j] \in {"settle", "stopping"} /\ pc' = [pc EXCEPT ![j] = "end"] /\ tasks' = tasks \ {j}
    /\ io' \in [Jobs -> [Waiters -> {"idle", "pending", "ok", "error"}]]
    /\ \A k \in Jobs \ {j} : io'[k] = io[k]
    /\ \A v \in Waiters \ {Main} : io'[j][v] = io[j][v]
    /\ io'[j][Main] = "idle" /\ calls' = calls
    /\ UNCHANGED <<proc, memory, item, slots, closing, reader, now, records, rows, phase, faults, crashes>>

LEMMA TaskEndsKeeps ==
  ASSUME JobsInv, NEW j \in Jobs, TaskEnds(j), \A d \in Queued : d.job = j => d.who # Main
  PROVE  JobsInv'
<1> USE DEF TaskEnds
<1>1. JobTypes /\ JobKnown(j)
  BY DEF JobsInv
<1>2. /\ pc'[j] = "end" /\ \A k \in Jobs \ {j} : pc'[k] = pc[k] /\ (k \in tasks' <=> k \in tasks)
      /\ pc' \in [Jobs -> Unended \cup {"new", "refused", "end", "gone", "reading", "marking"}]
      /\ tasks' \subseteq tasks /\ j \notin tasks'
  BY <1>1 DEF JobTypes
<1>3. Queued' = Queued /\ QueueKnown' /\ Quiet(j)' /\ Quiet(j) /\ Present(j)' = Present(j)
  BY <1>1 DEF Queued, QueueKnown, JobsInv, JobKnown, Quiet, Ended, Present
<1>4. \A u \in Urls : io[j][u] = "idle"
  BY <1>1, <1>3, Constants DEF JobKnown, JobTypes, Quiet, Ended
<1>5. OnlyJob(j)
  BY <1>2, <1>3 DEF OnlyJob
<1>6. JobTypes'
  BY <1>1, <1>2 DEF JobTypes
<1>7. JobKnown(j)'
  BY <1>1, <1>2, <1>3, <1>4, Constants DEF JobKnown, Unended
<1>8. RowsKnown(j)'
  <2>1. NoRowQueued(j) => NoRowQueued(j)'
    BY <1>3 DEF NoRowQueued
  <2>2. /\ pc[j] # "gone" /\ rows' = rows /\ memory'[j].done = memory[j].done
        /\ \A u \in Urls : RowUntouched(j, u)
    BY Constants DEF RowUntouched
  <2> QED
    BY <2>1, <2>2, RowsStay
<1>9. (\A d \in Queued : d.job = j => CallKnown(d))'
  <2> SUFFICES ASSUME NEW d \in Queued, d.job = j
               PROVE  CallKnown(d)'
    BY <1>3
  <2>1. CallKnown(d) /\ d \in CallSet
    BY QueuedCalls
  <2>2. d.who = Nobody
    BY <1>4, <2>1, CallParts, Constants DEF CallKnown
  <2> QED
    BY <1>2, <1>3, <2>1, <2>2, Constants DEF CallKnown
<1> QED
  BY <1>2, <1>3, <1>5, <1>6, <1>7, <1>8, <1>9, TaskMoves DEF Unended, AtClose

LEMMA SettledKeeps ==
  ASSUME JobsInv, NEW j \in Jobs, Settled(j)
  PROVE  JobsInv'
<1>1. /\ pc[j] = "settle" /\ io[j][Main] \in {"ok", "error"} /\ Drop(j, Main)
      /\ pc' = [pc EXCEPT ![j] = "end"] /\ tasks' = tasks \ {j}
      /\ UNCHANGED <<proc, memory, item, slots, closing, reader, now, records, rows, phase, faults, crashes>>
  BY DEF Settled, batchVars, worldVars
<1>2. /\ io' \in [Jobs -> [Waiters -> {"idle", "pending", "ok", "error"}]]
      /\ \A k \in Jobs \ {j} : io'[k] = io[k]
      /\ \A v \in Waiters \ {Main} : io'[j][v] = io[j][v]
      /\ io'[j][Main] = "idle"
      /\ calls' = calls
      /\ \A d \in Queued : d.job = j => d.who # Main
  BY <1>1, Drops, Constants, ZenonT(40)
<1> QED
  BY <1>1, <1>2, TaskEndsKeeps DEF TaskEnds

LEMMA BatchCancelledKeeps ==
  ASSUME JobsInv, NEW j \in Jobs, BatchCancelled(j)
  PROVE  JobsInv'
<1>1. /\ pc[j] = "stopping" /\ pc' = [pc EXCEPT ![j] = "end"] /\ tasks' = tasks \ {j}
      /\ UNCHANGED <<proc, memory, item, slots, io, calls, closing, reader, now, records, rows, phase, faults, crashes>>
  BY DEF BatchCancelled, batchVars, ioVars, worldVars
<1>2. JobTypes /\ JobKnown(j)
  BY DEF JobsInv
<1>3. io[j][Main] = "idle"
  BY <1>1, <1>2 DEF JobKnown
<1>4. \A d \in Queued : d.job = j => d.who # Main
  BY <1>3, QueuedCalls, Constants DEF CallKnown
<1> QED
  BY <1>1, <1>2, <1>3, <1>4, TaskEndsKeeps DEF TaskEnds, JobTypes

(* close() reads and marks one record at a time, with the queue to itself.  *)
LEMMA CloseReadsKeeps ==
  ASSUME JobsInv, NEW j \in Jobs, CloseReads(j)
  PROVE  JobsInv'
<1>1. /\ proc = "closing" /\ tasks = {} /\ j \in closing.left /\ \A k \in Jobs : io[k][Main] = "idle"
      /\ Await(j, Main, GetCall(j)) /\ pc' = [pc EXCEPT ![j] = "reading"]
      /\ UNCHANGED <<proc, tasks, memory, item, slots, closing, reader, now, records, rows, phase, faults, crashes>>
  BY DEF CloseReads, batchVars, worldVars
<1>2. JobTypes /\ CloseKnown /\ \A k \in Jobs : JobKnown(k)
  BY DEF JobsInv
<1>3. \A k \in Jobs : pc[k] \in {"new", "refused", "end", "gone"}
  <2>1. \A k \in Jobs : pc[k] \in Unended \cup {"new", "refused", "end", "gone", "reading", "marking"}
    BY <1>2 DEF JobTypes
  <2>2. \A k \in Jobs : pc[k] \notin Unended
    BY <1>1, <1>2 DEF JobKnown
  <2>3. \A k \in Jobs : pc[k] \notin {"reading", "marking"}
    BY <1>1, <1>2 DEF CloseKnown, AtClose
  <2> QED
    BY <2>1, <2>2, <2>3
<1>4. pc[j] = "end" /\ (Quiet(j) \/ \A u \in Urls : item[j][u] = "none")
  BY <1>1, <1>2, <1>3 DEF CloseKnown, JobKnown
<1>5. \A k \in Jobs, w \in Waiters : io[k][w] = "idle"
  <2> SUFFICES ASSUME NEW k \in Jobs, NEW u \in Urls PROVE io[k][u] = "idle"
    BY <1>1, Constants
  <2>1. JobKnown(k) /\ pc[k] \in {"new", "refused", "end", "gone"}
    BY <1>2, <1>3
  <2> QED
    BY <2>1 DEF JobKnown, Quiet, Ended
<1>6. \A d \in Queued : d.who = Nobody
  BY <1>5, QueuedCalls, CallParts DEF CallKnown
<1>7. PICK c \in CallSet : c = GetCall(j) /\ c.job = j /\ c.who = Main /\ c.kind = "get"
  BY <1>2, CallsMade
<1>8. /\ io' \in [Jobs -> [Waiters -> {"idle", "pending", "ok", "error"}]]
      /\ \A k \in Jobs \ {j} : io'[k] = io[k]
      /\ \A v \in Waiters \ {Main} : io'[j][v] = io[j][v]
      /\ io'[j][Main] = "pending"
      /\ calls' \in Seq(CallSet) /\ Queued' = Queued \cup {c} /\ QueueKnown'
  <2>1. Await(j, Main, c) /\ Main \in Waiters
    BY <1>1, <1>7, Constants
  <2> QED
    BY <1>1, <1>7, <2>1, Awaits
<1>9. /\ pc'[j] = "reading" /\ \A k \in Jobs \ {j} : pc'[k] = pc[k]
      /\ pc' \in [Jobs -> Unended \cup {"new", "refused", "end", "gone", "reading", "marking"}]
  BY <1>1, <1>2 DEF JobTypes, Unended
<1>10. OnlyJob(j)
  BY <1>1, <1>7, <1>8, <1>9 DEF OnlyJob
<1>11. JobTypes'
  BY <1>1, <1>2, <1>8, <1>9 DEF JobTypes
<1>12. Quiet(j)' = Quiet(j) /\ Present(j)' = Present(j)
  BY <1>1 DEF Quiet, Ended, Present
<1>13. JobKnown(j)'
  BY <1>1, <1>2, <1>4, <1>5, <1>8, <1>9, <1>12, Constants DEF JobKnown, Unended
<1>14. RowsKnown(j)'
  <2>1. NoRowQueued(j) => NoRowQueued(j)'
    BY <1>7, <1>8 DEF NoRowQueued
  <2>2. /\ pc[j] # "gone" /\ rows' = rows /\ memory'[j].done = memory[j].done
        /\ \A u \in Urls : RowUntouched(j, u)
    BY <1>1, <1>4, <1>8, Constants DEF RowUntouched
  <2> QED
    BY <2>1, <2>2, RowsStay
<1>15. (\A d \in Queued : d.job = j => CallKnown(d))'
  <2>1. ASSUME NEW d \in Queued, d.job = j
        PROVE  CallKnown(d)'
    <3>1. CallKnown(d) /\ d \in CallSet /\ d.who = Nobody
      BY <1>6, QueuedCalls
    <3> QED
      BY <1>1, <1>9, <1>12, <2>1, <3>1, Constants DEF CallKnown
  <2>2. CallKnown(c)'
    BY <1>7, <1>8, <1>9, Constants DEF CallKnown
  <2> QED
    BY <1>8, <2>1, <2>2
<1>16. CloseKnown'
  <2>1. \A k \in Jobs : pc'[k] \in AtClose => k = j
    BY <1>3, <1>9 DEF AtClose
  <2>2. \A i \in 1..Len(calls') : calls'[i].who # Nobody => i = Len(calls')
    <3>1. /\ Len(calls) \in Nat /\ Len(calls') = Len(calls) + 1
          /\ \A i \in 1..Len(calls) : calls'[i] = calls[i]
      <4>1. calls \in Seq(CallSet) /\ calls' = Append(calls, c)
        BY <1>1, <1>2, <1>7 DEF Await, JobTypes
      <4> QED
        BY <4>1, AppendProperties
    <3>2. \A i \in 1..Len(calls) : calls[i].who = Nobody
      BY <1>6 DEF Queued
    <3> QED
      BY <3>1, <3>2
  <2>3. \A k \in Jobs : pc'[k] # "submit"
    BY <1>3, <1>9
  <2> QED
    BY <1>1, <1>2, <1>8, <1>9, <2>1, <2>2, <2>3 DEF CloseKnown
<1>17. IsFiniteSet(tasks') /\ Cardinality(tasks') <= MaxActive
  BY <1>1 DEF JobsInv
<1> QED
  BY <1>8, <1>10, <1>11, <1>13, <1>14, <1>15, <1>16, <1>17, OneJobMoves

LEMMA CloseMovesOn ==
  ASSUME JobsInv, NEW j \in Jobs, proc = "closing", pc[j] \in AtClose, io[j][Main] \in {"ok", "error"},
         Drop(j, Main), pc' = [pc EXCEPT ![j] = "end"],
         closing' \in [left : SUBSET closing.left, got : RecordSet],
         UNCHANGED <<proc, tasks, memory, item, slots, reader, now, records, rows, phase, faults, crashes>>
  PROVE  JobsInv'
<1>1. JobTypes /\ JobKnown(j) /\ CloseKnown
  BY DEF JobsInv
<1>2. /\ calls = <<>> /\ tasks = {} /\ \A k \in Jobs : pc[k] \in AtClose => k = j
      /\ Quiet(j) \/ \A u \in Urls : item[j][u] = "none"
  BY <1>1 DEF CloseKnown, JobKnown, AtClose
<1>3. Queued = {}
  BY <1>2 DEF Queued
<1>4. /\ io' \in [Jobs -> [Waiters -> {"idle", "pending", "ok", "error"}]]
      /\ \A k \in Jobs \ {j} : io'[k] = io[k]
      /\ \A v \in Waiters \ {Main} : io'[j][v] = io[j][v]
      /\ io'[j][Main] = "idle"
      /\ calls' = calls /\ Queued' = {} /\ QueueKnown'
  <2>1. Main \in Waiters
    BY Constants
  <2> QED
    BY <1>3, <2>1, Drops
<1>5. /\ pc'[j] = "end" /\ \A k \in Jobs \ {j} : pc'[k] = pc[k]
      /\ pc' \in [Jobs -> Unended \cup {"new", "refused", "end", "gone", "reading", "marking"}]
      /\ closing'.left \subseteq closing.left /\ closing' \in [left : SUBSET Jobs, got : RecordSet]
  BY <1>1 DEF JobTypes
<1>6. OnlyJob(j)
  BY <1>4, <1>5 DEF OnlyJob
<1>7. JobTypes'
  BY <1>1, <1>4, <1>5 DEF JobTypes
<1>8. Quiet(j)' = Quiet(j)
  BY DEF Quiet, Ended
<1>9. JobKnown(j)'
  BY <1>1, <1>2, <1>4, <1>5, <1>8, Constants DEF JobKnown, Unended, AtClose
<1>10. RowsKnown(j)'
  <2>1. NoRowQueued(j) => NoRowQueued(j)'
    BY <1>4 DEF NoRowQueued
  <2>2. /\ pc[j] # "gone" /\ rows' = rows /\ memory'[j].done = memory[j].done
        /\ \A u \in Urls : RowUntouched(j, u)
    BY <1>4, Constants DEF RowUntouched, AtClose
  <2> QED
    BY <2>1, <2>2, RowsStay
<1>11. (\A d \in Queued : d.job = j => CallKnown(d))'
  BY <1>4
<1>12. CloseKnown'
  <2>1. \A k \in Jobs : pc'[k] \notin AtClose
    BY <1>2, <1>5 DEF AtClose
  <2>2. \A k \in Jobs : pc'[k] # "submit"
    BY <1>1, <1>5 DEF CloseKnown
  <2> QED
    BY <1>1, <1>2, <1>5, <2>1, <2>2 DEF CloseKnown
<1>13. IsFiniteSet(tasks') /\ Cardinality(tasks') <= MaxActive
  BY DEF JobsInv
<1> QED
  BY <1>4, <1>6, <1>7, <1>9, <1>10, <1>11, <1>12, <1>13, OneJobMoves

LEMMA NothingRead == NoRecord \in RecordSet
  BY Constants DEF NoRecord, RecordSet, Statuses

LEMMA CloseReadKeeps ==
  ASSUME JobsInv, NEW j \in Jobs, CloseRead(j)
  PROVE  JobsInv'
<1>1. /\ proc = "closing" /\ pc[j] = "reading" /\ io[j][Main] \in {"ok", "error"}
      /\ UNCHANGED <<proc, tasks, memory, item, slots, reader, now, records, rows, faults, crashes>>
  BY DEF CloseRead, batchVars
<1>2. JobTypes /\ JobKnown(j) /\ CloseKnown /\ closing \in [left : SUBSET Jobs, got : RecordSet]
  BY DEF JobsInv, JobTypes
<1>3. CASE io[j][Main] = "ok" /\ closing.got.status \in UNFINISHED
  <2> DEFINE r == [closing.got EXCEPT !.status = "failed"]
  <2>1. /\ Await(j, Main, SettleCall(j, r)) /\ Phase(j, "settling")
        /\ pc' = [pc EXCEPT ![j] = "marking"] /\ closing' = closing
    BY <1>3 DEF CloseRead
  <2>2. r \in RecordSet
    BY <1>2 DEF RecordSet, Statuses, Final
  <2>3. PICK c \in CallSet : c = SettleCall(j, r) /\ c.job = j /\ c.who = Main /\ c.kind = "settle"
    <3> HIDE DEF r
    <3>1. SettleCall(j, r) \in CallSet /\ SettleCall(j, r).job = j /\ SettleCall(j, r).who = Main
          /\ SettleCall(j, r).kind = "settle"
      BY <1>2, <2>2, CallsMade
    <3> QED
      BY <3>1
  <2> HIDE DEF r
  <2>4. /\ calls = <<>> /\ tasks = {} /\ \A k \in Jobs : pc[k] \in AtClose => k = j
        /\ Quiet(j) \/ \A u \in Urls : item[j][u] = "none"
    BY <1>1, <1>2 DEF CloseKnown, JobKnown, AtClose
  <2>5. Queued = {}
    BY <2>4 DEF Queued
  <2>6. /\ io' \in [Jobs -> [Waiters -> {"idle", "pending", "ok", "error"}]]
        /\ \A k \in Jobs \ {j} : io'[k] = io[k]
        /\ \A v \in Waiters \ {Main} : io'[j][v] = io[j][v]
        /\ io'[j][Main] = "pending"
        /\ calls' \in Seq(CallSet) /\ Queued' = Queued \cup {c} /\ QueueKnown'
    <3>1. Await(j, Main, c) /\ Main \in Waiters /\ io[j][Main] # "pending"
      BY <1>1, <2>1, <2>3, Constants
    <3> QED
      BY <2>3, <2>5, <3>1, Awaits
  <2>7. /\ pc'[j] = "marking" /\ \A k \in Jobs \ {j} : pc'[k] = pc[k]
        /\ pc' \in [Jobs -> Unended \cup {"new", "refused", "end", "gone", "reading", "marking"}]
        /\ phase' \in [Jobs -> {"open", "settling", "settled", "cut"}]
        /\ \A k \in Jobs \ {j} : phase'[k] = phase[k]
    BY <1>2, <2>1 DEF JobTypes, Phase
  <2>8. OnlyJob(j)
    BY <1>1, <2>3, <2>6, <2>7 DEF OnlyJob
  <2>9. JobTypes'
    BY <1>1, <1>2, <2>1, <2>6, <2>7 DEF JobTypes
  <2>10. Quiet(j)' = Quiet(j)
    BY <1>1 DEF Quiet, Ended
  <2>11. JobKnown(j)'
    BY <1>1, <1>2, <2>4, <2>6, <2>7, <2>10, Constants DEF JobKnown, Unended
  <2>12. RowsKnown(j)'
    <3>1. NoRowQueued(j) => NoRowQueued(j)'
      BY <2>3, <2>6 DEF NoRowQueued
    <3>2. /\ pc[j] # "gone" /\ rows' = rows /\ memory'[j].done = memory[j].done
          /\ \A u \in Urls : RowUntouched(j, u)
      BY <1>1, <2>6, Constants DEF RowUntouched
    <3> QED
      BY <3>1, <3>2, RowsStay
  <2>13. (\A d \in Queued : d.job = j => CallKnown(d))'
    BY <2>3, <2>5, <2>6, <2>7, Constants DEF CallKnown
  <2>14. CloseKnown'
    <3>1. \A k \in Jobs : pc'[k] \in AtClose => k = j
      BY <2>4, <2>7 DEF AtClose
    <3>2. \A i \in 1..Len(calls') : i = Len(calls')
      BY <2>1, <2>4 DEF Await
    <3>3. \A k \in Jobs : pc'[k] # "submit"
      BY <1>1, <1>2, <2>7 DEF CloseKnown
    <3>4. proc' = "closing" /\ tasks' = {} /\ closing' = closing /\ j \in closing.left
      BY <1>1, <1>2, <2>1, <2>4 DEF CloseKnown, AtClose
    <3>5. \A k \in closing.left : pc'[k] \notin {"new", "gone", "refused"}
      BY <1>2, <2>7 DEF CloseKnown
    <3> QED
      BY <2>6, <3>1, <3>2, <3>3, <3>4, <3>5 DEF CloseKnown
  <2>15. IsFiniteSet(tasks') /\ Cardinality(tasks') <= MaxActive
    BY <1>1 DEF JobsInv
  <2> QED
    BY <2>6, <2>8, <2>9, <2>11, <2>12, <2>13, <2>14, <2>15, OneJobMoves
<1>4. CASE ~(io[j][Main] = "ok" /\ closing.got.status \in UNFINISHED)
  <2>1. /\ Drop(j, Main) /\ pc' = [pc EXCEPT ![j] = "end"] /\ phase' = phase
        /\ closing' = [left |-> IF io[j][Main] = "ok" THEN closing.left \ {j} ELSE {}, got |-> NoRecord]
    BY <1>4 DEF CloseRead
  <2>2. closing' \in [left : SUBSET closing.left, got : RecordSet]
    BY <2>1, NothingRead
  <2>3. pc[j] \in AtClose
    BY <1>1 DEF AtClose
  <2> QED
    BY <1>1, <2>1, <2>2, <2>3, CloseMovesOn
<1> QED
  BY <1>3, <1>4

LEMMA CloseSettledKeeps ==
  ASSUME JobsInv, NEW j \in Jobs, CloseSettled(j)
  PROVE  JobsInv'
<1>1. /\ proc = "closing" /\ pc[j] = "marking" /\ io[j][Main] \in {"ok", "error"}
      /\ Drop(j, Main) /\ pc' = [pc EXCEPT ![j] = "end"]
      /\ closing' = [left |-> IF io[j][Main] = "ok" THEN closing.left \ {j} ELSE {}, got |-> NoRecord]
      /\ UNCHANGED <<proc, tasks, memory, item, slots, reader, now, records, rows, phase, faults, crashes>>
  BY DEF CloseSettled, batchVars, storeVars
<1>2. closing' \in [left : SUBSET closing.left, got : RecordSet] /\ pc[j] \in AtClose
  BY <1>1, NothingRead DEF AtClose
<1> QED
  BY <1>1, <1>2, CloseMovesOn

-----------------------------------------------------------------------------
(* The storage thread is done with a call, or was told to drop it.          *)
LEMMA CallLeaves ==
  ASSUME JobsInv, NEW i \in 1..Len(calls), i = 1 \/ calls[i].who = Nobody, calls' = AfterCall(i),
         NEW c, c = calls[i], NEW r \in {"ok", "error"}, Return(c, r),
         UNCHANGED <<proc, tasks, pc, memory, item, slots, now>>, closing'.left = closing.left
  PROVE  /\ calls' \in Seq(CallSet) /\ QueueKnown' /\ Queued' \subseteq Queued
         /\ c \in CallSet /\ CallKnown(c) /\ c \in Queued /\ c.job \in Jobs
         /\ io' \in [Jobs -> [Waiters -> {"idle", "pending", "ok", "error"}]]
         /\ \A k \in Jobs \ {c.job} : io'[k] = io[k]
         /\ \A w \in Waiters : w # c.who => io'[c.job][w] = io[c.job][w]
         /\ c.who # Nobody => io[c.job][c.who] = "pending" /\ io'[c.job][c.who] = r
         /\ \A d \in Queued' : d.job = c.job => /\ d.who = c.who => d.who = Nobody
                                                /\ c.kind = "row" => d.kind # "row"
         /\ CloseKnown' /\ JobKnown(c.job)'
<1>1. JobTypes /\ QueueKnown /\ CloseKnown
  BY DEF JobsInv
<1>2. /\ calls' \in Seq(CallSet) /\ Len(calls) \in Nat /\ Len(calls') = Len(calls) - 1
      /\ \A k \in 1..Len(calls') : k + 1 \in 1..Len(calls) /\ calls'[k] = IF k < i THEN calls[k] ELSE calls[k + 1]
      /\ \A d \in Queued' : \E k \in 1..Len(calls) : k # i /\ d = calls[k]
      /\ Queued' \subseteq Queued /\ QueueKnown'
  <2>1. calls \in Seq(CallSet)
    BY <1>1 DEF JobTypes
  <2> QED
    BY <1>1, <2>1, QueueLoses
<1>3. c \in Queued /\ c \in CallSet /\ CallKnown(c) /\ c.job \in Jobs /\ c.who \in Waiters \cup {Nobody}
  <2>1. c \in Queued
    BY DEF Queued
  <2> QED
    BY <2>1, QueuedCalls, CallParts
<1>4. /\ io' \in [Jobs -> [Waiters -> {"idle", "pending", "ok", "error"}]]
      /\ \A k \in Jobs \ {c.job} : io'[k] = io[k]
      /\ \A w \in Waiters : w # c.who => io'[c.job][w] = io[c.job][w]
      /\ c.who # Nobody => io[c.job][c.who] = "pending" /\ io'[c.job][c.who] = r
  <2>1. io \in [Jobs -> [Waiters -> {"idle", "pending", "ok", "error"}]]
    BY <1>1 DEF JobTypes
  <2>2. CASE c.who = Nobody
    BY <2>1, <2>2 DEF Return
  <2>3. CASE c.who # Nobody
    <3>1. io' = [io EXCEPT ![c.job][c.who] = r] /\ c.who \in Waiters /\ io[c.job][c.who] = "pending"
      BY <1>3, <2>3 DEF Return, CallKnown
    <3> QED
      BY <1>3, <2>1, <3>1
  <2> QED
    BY <2>2, <2>3
<1>5. \A d \in Queued' : d.job = c.job => /\ d.who = c.who => d.who = Nobody
                                          /\ c.kind = "row" => d.kind # "row"
  <2> SUFFICES ASSUME NEW d \in Queued', d.job = c.job
               PROVE  (d.who = c.who => d.who = Nobody) /\ (c.kind = "row" => d.kind # "row")
    OBVIOUS
  <2>1. PICK k \in 1..Len(calls) : k # i /\ d = calls[k]
    BY <1>2
  <2>2. i \in 1..Len(calls) /\ (i < k \/ k < i)
    BY <1>2, <2>1
  <2>3. InOrder(calls[i], calls[k]) \/ InOrder(calls[k], calls[i])
    BY <1>1, <2>1, <2>2 DEF QueueKnown
  <2> QED
    BY <2>1, <2>3 DEF InOrder
<1>6. JobKnown(c.job)'
  <2>1. JobKnown(c.job)
    BY <1>3 DEF JobsInv
  <2>2. \A w \in Waiters : io'[c.job][w] # "idle" <=> io[c.job][w] # "idle"
    BY <1>4, Constants
  <2>3. Quiet(c.job)' = Quiet(c.job)
    BY DEF Quiet, Ended
  <2> QED
    BY <2>1, <2>2, <2>3, Constants DEF JobKnown
<1>7. CloseKnown'
  <2>1. ASSUME NEW j \in Jobs, pc[j] \in AtClose
        PROVE  /\ io'[j][Main] # "idle"
               /\ io'[j][Main] # "pending" => calls' = <<>>
               /\ \A k \in 1..Len(calls') : calls'[k].who # Nobody => k = Len(calls')
    <3>1. /\ io[j][Main] # "idle"
          /\ io[j][Main] # "pending" => calls = <<>>
          /\ \A k \in 1..Len(calls) : calls[k].who # Nobody => k = Len(calls)
      BY <1>1, <2>1 DEF CloseKnown
    <3>2. io[j][Main] = "pending"
      <4>1. calls # <<>>
        OBVIOUS
      <4> QED
        BY <3>1, <4>1
    <3>3. io'[j][Main] # "idle"
      BY <1>4, <3>1, Constants
    <3>4. ASSUME io'[j][Main] # "pending"
          PROVE  calls' = <<>>
      <4>1. c.job = j /\ c.who = Main
        BY <1>4, <3>2, <3>4, Constants
      <4>2. i = 1 /\ i = Len(calls)
        BY <3>1, <4>1, Constants
      <4>3. Len(calls') = 0
        <5>1. Len(calls') = Len(calls) - 1
          BY <1>2
        <5>2. Len(calls) = 1
          BY <4>2
        <5> QED
          BY <5>1, <5>2
      <4> QED
        BY <1>2, <4>3, EmptySeq
    <3>5. ASSUME NEW k \in 1..Len(calls'), calls'[k].who # Nobody
          PROVE  k = Len(calls')
      <4>1. CASE k < i
        <5>1. calls'[k] = calls[k] /\ k \in 1..Len(calls)
          BY <1>2, <4>1
        <5>2. k = Len(calls)
          BY <3>1, <3>5, <5>1
        <5> QED
          BY <1>2, <4>1, <5>2
      <4>2. CASE ~(k < i)
        <5>1. calls'[k] = calls[k + 1] /\ k + 1 \in 1..Len(calls)
          BY <1>2, <4>2
        <5>2. k + 1 = Len(calls)
          BY <3>1, <3>5, <5>1
        <5> QED
          BY <1>2, <5>2
      <4> QED
        BY <4>1, <4>2
    <3> QED
      BY <3>3, <3>4, <3>5
  <2> QED
    BY <1>1, <2>1 DEF CloseKnown
<1> QED
  BY <1>2, <1>3, <1>4, <1>5, <1>6, <1>7

(* Whatever became of a call, one that stored no row changes no row.        *)
LEMMA CallEnds ==
  ASSUME JobsInv, NEW i \in 1..Len(calls), i = 1 \/ calls[i].who = Nobody, calls' = AfterCall(i),
         NEW c, c = calls[i], NEW r \in {"ok", "error"}, Return(c, r),
         UNCHANGED <<proc, tasks, pc, memory, item, slots, rows, now>>, closing'.left = closing.left,
         c.kind = "row" => r = "error" \/ c.who = Nobody,
         JobTypes', \A k \in Jobs \ {c.job} : records'[k] = records[k] /\ phase'[k] = phase[k]
  PROVE  JobsInv'
<1> DEFINE j == c.job
<1>1. /\ calls' \in Seq(CallSet) /\ QueueKnown' /\ Queued' \subseteq Queued
      /\ c \in CallSet /\ CallKnown(c) /\ c \in Queued /\ j \in Jobs
      /\ \A k \in Jobs \ {j} : io'[k] = io[k]
      /\ \A w \in Waiters : w # c.who => io'[j][w] = io[j][w]
      /\ c.who # Nobody => io[j][c.who] = "pending" /\ io'[j][c.who] = r
      /\ \A d \in Queued' : d.job = j => /\ d.who = c.who => d.who = Nobody
                                         /\ c.kind = "row" => d.kind # "row"
      /\ CloseKnown' /\ JobKnown(j)'
  BY CallLeaves
<1> HIDE DEF j
<1>2. OnlyJob(j)
  BY <1>1 DEF OnlyJob, j
<1>3. pc[j] # "gone" /\ (c.who # Nobody => c.who \in Waiters)
  BY <1>1, CallParts DEF CallKnown, j
<1>4. RowsKnown(j)'
  <2>1. NoRowQueued(j) => NoRowQueued(j)'
    BY <1>1 DEF NoRowQueued
  <2>2. ASSUME NEW u \in Urls
        PROVE  RowUntouched(j, u)
    <3>1. CASE c.who = u
      <4>1. c.kind \in {"save", "row"} /\ u # Nobody
        BY <1>1, <3>1, CallParts, Constants
      <4>2. CASE c.kind = "save"
        BY <1>1, <3>1, <4>1, <4>2 DEF RowUntouched, CallKnown, j
      <4>3. CASE c.kind = "row"
        BY <1>1, <3>1, <4>1, <4>3 DEF RowUntouched
      <4> QED
        BY <4>1, <4>2, <4>3
    <3>2. CASE c.who # u
      BY <1>1, <3>2, Constants DEF RowUntouched
    <3> QED
      BY <3>1, <3>2
  <2> QED
    BY <1>1, <1>3, <2>1, <2>2, RowsStay
<1>5. (\A d \in Queued : d.job = j => CallKnown(d))'
  <2> SUFFICES ASSUME NEW d \in Queued', d.job = j
               PROVE  CallKnown(d)'
    OBVIOUS
  <2>1. CallKnown(d) /\ d \in CallSet /\ d.who \in Waiters \cup {Nobody}
    BY <1>1, QueuedCalls, CallParts
  <2>2. d.who # Nobody => io'[j][d.who] = "pending"
    BY <1>1, <2>1 DEF CallKnown
  <2>3. Present(j)' = Present(j) /\ Quiet(j)' = Quiet(j)
    BY DEF Present, Quiet, Ended
  <2> QED
    BY <2>1, <2>2, <2>3 DEF CallKnown
<1>6. IsFiniteSet(tasks') /\ Cardinality(tasks') <= MaxActive
  BY DEF JobsInv
<1> QED
  BY <1>1, <1>2, <1>4, <1>5, <1>6, OneJobMoves

(* What is known of the rows once one more stands at their end, its page    *)
(* written by the item that waits for it, or by a job whose items are over. *)
LEMMA RowAdded ==
  ASSUME NEW j \in Jobs, NEW m \in Nat, NEW u \in Urls,
         RowsKnown(j), m = memory[j].done, pc[j] # "gone",
         Present(j) = 0..(m - 1), Present(j)' = 0..m,
         \A n \in Present(j) : rows'[j][n] = rows[j][n],
         \A n \in Present(j) : rows[j][n].url # u,
         rows'[j][m].url = u,
         Quiet(j) \/ (item[j][u] = "write" /\ io'[j][u] = "ok"),
         \A v \in Urls : item[j][v] = "write" /\ io'[j][v] = "ok" => v = u,
         NoRowQueued(j)', UNCHANGED <<pc, item, memory>>
  PROVE  RowsKnown(j)'
<1>1. /\ \A n \in Present(j) : n \in Present(j)' /\ n # m
      /\ m \in Present(j)'
      /\ \A n \in Present(j)' : n = m \/ n \in Present(j)
  OBVIOUS
<1>2. Quiet(j)' \/ RowLanded(j)'
  BY DEF Quiet, Ended, RowLanded
<1>3. ASSUME NEW n \in Present(j)
      PROVE  /\ rows[j][n].url \in Urls
             /\ item[j][rows[j][n].url] \in {"write", "save", "done", "failed", "cancelled"}
             /\ item[j][rows[j][n].url] # "write"
  <2>1. n # memory[j].done
    BY <1>1, <1>3
  <2> QED
    BY <1>3, <2>1 DEF RowsKnown
<1>4. /\ item[j][u] \in {"write", "save", "done", "failed", "cancelled"}
      /\ item[j][u] = "write" => io'[j][u] = "ok"
  BY DEF Quiet, Ended
<1>5. ASSUME NEW n \in Present(j)'
      PROVE  /\ rows'[j][n].url \in Urls
             /\ item'[j][rows'[j][n].url] \in {"write", "save", "done", "failed", "cancelled"}
             /\ item'[j][rows'[j][n].url] = "write" => io'[j][rows'[j][n].url] = "ok" /\ n = memory'[j].done
  <2>1. CASE n = m
    BY <1>4, <2>1
  <2>2. CASE n # m
    <3>1. n \in Present(j) /\ rows'[j][n] = rows[j][n]
      BY <1>1, <1>5, <2>2
    <3> QED
      BY <1>3, <3>1
  <2> QED
    BY <2>1, <2>2
<1>6. ASSUME NEW a \in Present(j)', NEW b \in Present(j)', rows'[j][a].url = rows'[j][b].url
      PROVE  a = b
  <2>1. \A x, y \in Present(j) : rows[j][x].url = rows[j][y].url => x = y
    BY DEF RowsKnown
  <2>2. CASE a = m \/ b = m
    BY <1>1, <1>6, <2>2
  <2>3. CASE a # m /\ b # m
    <3>1. a \in Present(j) /\ b \in Present(j)
      BY <1>1, <1>6, <2>3
    <3> QED
      BY <1>6, <2>1, <3>1
  <2> QED
    BY <2>2, <2>3
<1>7. ASSUME NEW v \in Urls, item[j][v] \in {"save", "done"}
      PROVE  \E n \in Present(j)' : rows'[j][n].url = v
  <2>1. PICK n \in Present(j) : rows[j][n].url = v
    BY <1>7 DEF RowsKnown
  <2> QED
    BY <1>1, <2>1
<1>8. ASSUME NEW v \in Urls, item[j][v] = "write", io'[j][v] = "ok"
      PROVE  memory'[j].done \in Present(j)' /\ rows'[j][memory'[j].done].url = v
  BY <1>1, <1>8
<1>9. \E k \in Nat : Present(j)' = 0..(k - 1)
  <2>1. m + 1 \in Nat /\ (m + 1) - 1 = m
    OBVIOUS
  <2> QED
    BY <2>1
<1> QED
  BY <1>2, <1>5, <1>6, <1>7, <1>8, <1>9 DEF RowsKnown

(* The row lands under the number the job counts next, while nothing else   *)
(* of the job is on its way there.                                          *)
LEMMA RowLands ==
  ASSUME JobsInv, 1 \in 1..Len(calls), calls' = AfterCall(1),
         NEW c, c = calls[1], Return(c, "ok"), c.kind = "row",
         NEW e \in Nat, rows' = [rows EXCEPT ![c.job][c.seq] = [url |-> c.url, expire |-> e]],
         UNCHANGED <<proc, tasks, pc, memory, item, slots, records, phase, now, closing, faults, crashes>>
  PROVE  JobsInv'
<1> DEFINE j == c.job
           m == c.seq
<1>1. /\ calls' \in Seq(CallSet) /\ QueueKnown' /\ Queued' \subseteq Queued
      /\ c \in CallSet /\ CallKnown(c) /\ c \in Queued /\ j \in Jobs
      /\ io' \in [Jobs -> [Waiters -> {"idle", "pending", "ok", "error"}]]
      /\ \A k \in Jobs \ {j} : io'[k] = io[k]
      /\ \A w \in Waiters : w # c.who => io'[j][w] = io[j][w]
      /\ c.who # Nobody => io[j][c.who] = "pending" /\ io'[j][c.who] = "ok"
      /\ \A d \in Queued' : d.job = j => /\ d.who = c.who => d.who = Nobody
                                         /\ d.kind # "row"
      /\ CloseKnown' /\ JobKnown(j)'
  <2>1. "ok" \in {"ok", "error"}
    OBVIOUS
  <2> QED
    BY <2>1, CallLeaves
<1>2. /\ m = memory[j].done /\ \A n \in Present(j) : rows[j][n].url # c.url
      /\ c.who = Nobody => Quiet(j)
      /\ c.who # Nobody => c.who = c.url /\ item[j][c.url] = "write"
      /\ pc[j] # "gone" /\ c.url \in Urls /\ m \in Seqs /\ c.who \in Urls \cup {Nobody}
  BY <1>1, CallParts DEF CallKnown
<1> HIDE DEF j, m
<1>3. JobTypes /\ RowsKnown(j) /\ JobKnown(j) /\ rows \in [Jobs -> [Seqs -> [url : Urls \cup {Nobody}, expire : Nat]]]
  BY <1>1, SMTT(20) DEF JobsInv, JobTypes
<1>4. /\ \A k \in Jobs \ {j} : rows'[k] = rows[k]
      /\ rows'[j][m] = [url |-> c.url, expire |-> e] /\ \A n \in Seqs \ {m} : rows'[j][n] = rows[j][n]
      /\ rows' \in [Jobs -> [Seqs -> [url : Urls \cup {Nobody}, expire : Nat]]]
  BY <1>1, <1>2, <1>3 DEF j, m
<1>5. Present(j) = 0..(m - 1) /\ Present(j)' = 0..m /\ m \in Nat
  <2>1. m \in Nat
    BY <1>2, Constants
  <2>2. ~NoRowQueued(j)
    BY <1>1 DEF NoRowQueued, j
  <2>3. Present(j) = 0..(m - 1)
    BY <1>2, <1>3, <2>2 DEF RowsKnown
  <2>4. rows'[j][m] # NoRow
    BY <1>2, <1>4, Constants DEF NoRow
  <2>5. Present(j)' = Present(j) \cup {m}
    BY <1>2, <1>4, <2>4 DEF Present
  <2> QED
    BY <2>1, <2>3, <2>5
<1>6. \A v \in Urls : item[j][v] = "write" /\ io'[j][v] = "ok" => v = c.url
  BY <1>2, <1>3, Constants DEF JobKnown, Quiet, Ended
<1>7. OnlyJob(j)
  BY <1>1, <1>4 DEF OnlyJob
<1>8. JobTypes'
  BY <1>1, <1>3, <1>4 DEF JobTypes
<1>9. RowsKnown(j)'
  <2>1. NoRowQueued(j)'
    BY <1>1 DEF NoRowQueued
  <2>2. Quiet(j) \/ (item[j][c.url] = "write" /\ io'[j][c.url] = "ok")
    BY <1>1, <1>2
  <2>3. \A n \in Present(j) : rows'[j][n] = rows[j][n]
    BY <1>4, <1>5 DEF Present
  <2>4. rows'[j][m].url = c.url
    BY <1>4
  <2>5. c.url \in Urls /\ j \in Jobs /\ m \in Nat /\ m = memory[j].done /\ pc[j] # "gone"
    BY <1>1, <1>2, <1>5
  <2> QED
    BY <1>2, <1>3, <1>5, <1>6, <2>1, <2>2, <2>3, <2>4, <2>5, RowAdded
<1>10. (\A d \in Queued : d.job = j => CallKnown(d))'
  <2> SUFFICES ASSUME NEW d \in Queued', d.job = j
               PROVE  CallKnown(d)'
    OBVIOUS
  <2>1. CallKnown(d) /\ d \in CallSet /\ d.who \in Waiters \cup {Nobody} /\ d.kind # "row"
    BY <1>1, QueuedCalls, CallParts
  <2>2. d.who # Nobody => io'[j][d.who] = "pending"
    BY <1>1, <2>1 DEF CallKnown
  <2> QED
    BY <2>1, <2>2 DEF CallKnown
<1>11. IsFiniteSet(tasks') /\ Cardinality(tasks') <= MaxActive
  BY DEF JobsInv
<1> QED
  BY <1>1, <1>7, <1>8, <1>9, <1>10, <1>11, OneJobMoves

LEMMA OneThread == Working \subseteq {1} /\ Working \subseteq 1..Len(calls)
  BY DEF Working, StorageThreads

LEMMA ThreadRunsKeeps ==
  ASSUME JobsInv, ThreadRuns
  PROVE  JobsInv'
<1>1. PICK i \in Working :
        LET call == calls[i]
            j == call.job
        IN /\ records' =
                CASE call.kind = "save" ->
                       [records EXCEPT ![j] = Stored(memory[j], now + call.keep)]
                  [] call.kind = "settle" ->
                       [records EXCEPT ![j] = Stored(call.rec, call.until)]
                  [] OTHER -> records
           /\ rows' = IF call.kind = "row"
                      THEN [rows EXCEPT ![j][call.seq] = [url |-> call.url, expire |-> now + call.keep]]
                      ELSE rows
           /\ IF call.kind = "settle" THEN Phase(j, "settled") ELSE UNCHANGED phase
           /\ closing' = Fetched(call)
           /\ Return(call, "ok")
           /\ calls' = AfterCall(i)
           /\ UNCHANGED <<proc, tasks, pc, memory, item, slots, reader, now, faults, crashes>>
  BY DEF ThreadRuns, runVars
<1>2. PICK c : c = calls[1]
  OBVIOUS
<1>3. i = 1 /\ 1 \in 1..Len(calls)
  BY <1>1, OneThread
<1>4. JobTypes /\ c \in CallSet /\ c.job \in Jobs /\ now \in Nat
  <2>1. c \in Queued /\ JobTypes
    BY <1>2, <1>3 DEF JobsInv, Queued
  <2> QED
    BY <2>1, QueuedCalls, CallParts DEF JobTypes
<1>5. /\ c.kind = "save" => records' = [records EXCEPT ![c.job] = Stored(memory[c.job], now + c.keep)]
      /\ c.kind = "settle" => records' = [records EXCEPT ![c.job] = Stored(c.rec, c.until)] /\ Phase(c.job, "settled")
      /\ c.kind \notin {"save", "settle"} => records' = records
      /\ c.kind # "settle" => phase' = phase
      /\ c.kind = "row" => rows' = [rows EXCEPT ![c.job][c.seq] = [url |-> c.url, expire |-> now + c.keep]]
      /\ c.kind # "row" => rows' = rows
      /\ closing' = Fetched(c) /\ Return(c, "ok") /\ calls' = AfterCall(1)
      /\ UNCHANGED <<proc, tasks, pc, memory, item, slots, reader, now, faults, crashes>>
  BY <1>1, <1>2, <1>3
<1>6. CASE c.kind = "row"
  <2>1. now + c.keep \in Nat
    BY <1>4, <1>6, CallParts
  <2>2. closing' = closing
    BY <1>5, <1>6 DEF Fetched
  <2>3. PICK e \in Nat : e = now + c.keep
    BY <2>1
  <2> QED
    BY <1>2, <1>3, <1>5, <1>6, <2>2, <2>3, RowLands
<1>7. CASE c.kind # "row"
  <2>1. closing' \in [left : SUBSET Jobs, got : RecordSet] /\ closing'.left = closing.left
    <3>1. closing \in [left : SUBSET Jobs, got : RecordSet] /\ Fields(records[c.job]) \in RecordSet
      BY <1>4 DEF JobTypes, Fields, RecordSet
    <3> QED
      BY <1>5, <3>1, NothingRead DEF Fetched
  <2>2. /\ records' \in [Jobs -> [status : Statuses, done : Seqs, deadline : Nat, expire : Nat]]
        /\ \A k \in Jobs \ {c.job} : records'[k] = records[k]
    <3>1. records \in [Jobs -> [status : Statuses, done : Seqs, deadline : Nat, expire : Nat]]
          /\ memory[c.job] \in RecordSet
      BY <1>4 DEF JobTypes
    <3>2. CASE c.kind = "save"
      <4>1. c.keep \in Nat
        BY <1>4, <3>2, CallParts
      <4>2. Stored(memory[c.job], now + c.keep) \in [status : Statuses, done : Seqs, deadline : Nat, expire : Nat]
        BY <1>4, <3>1, <4>1 DEF Stored, RecordSet
      <4> QED
        BY <1>5, <3>1, <3>2, <4>2
    <3>3. CASE c.kind = "settle"
      <4>1. c.rec \in RecordSet /\ c.until \in Nat
        BY <1>4, <3>3, CallParts
      <4>2. Stored(c.rec, c.until) \in [status : Statuses, done : Seqs, deadline : Nat, expire : Nat]
        BY <4>1 DEF Stored, RecordSet
      <4> QED
        BY <1>5, <3>1, <3>3, <4>2
    <3>4. CASE c.kind \notin {"save", "settle"}
      BY <1>5, <3>1, <3>4
    <3> QED
      BY <3>2, <3>3, <3>4
  <2>3. /\ phase' \in [Jobs -> {"open", "settling", "settled", "cut"}]
        /\ \A k \in Jobs \ {c.job} : phase'[k] = phase[k]
    BY <1>4, <1>5, ZenonT(40) DEF JobTypes, Phase
  <2>4. /\ calls' \in Seq(CallSet)
        /\ io' \in [Jobs -> [Waiters -> {"idle", "pending", "ok", "error"}]]
    <3>1. "ok" \in {"ok", "error"}
      OBVIOUS
    <3> QED
      BY <1>2, <1>3, <1>5, <1>7, <2>1, <3>1, CallLeaves
  <2>5. JobTypes'
    BY <1>4, <1>5, <1>7, <2>1, <2>2, <2>3, <2>4 DEF JobTypes
  <2>6. PICK r \in {"ok", "error"} : r = "ok"
    OBVIOUS
  <2> QED
    BY <1>2, <1>3, <1>5, <1>7, <2>1, <2>2, <2>3, <2>5, <2>6, CallEnds
<1> QED
  BY <1>6, <1>7

LEMMA ThreadFailsKeeps ==
  ASSUME JobsInv, ThreadFails
  PROVE  JobsInv'
<1>1. PICK i \in Working :
        /\ faults' = faults + 1 /\ Return(calls[i], "error") /\ CutShort(calls[i]) /\ calls' = AfterCall(i)
        /\ UNCHANGED <<proc, tasks, pc, memory, item, slots, records, rows, closing, reader, now, crashes>>
  BY DEF ThreadFails, runVars
<1>2. PICK c : c = calls[1]
  OBVIOUS
<1>3. i = 1 /\ 1 \in 1..Len(calls)
  BY <1>1, OneThread
<1>4. PICK r \in {"ok", "error"} : r = "error"
  OBVIOUS
<1>5. Return(c, r) /\ CutShort(c) /\ calls' = AfterCall(1)
  BY <1>1, <1>2, <1>3, <1>4
<1>6. JobTypes /\ c.job \in Jobs
  <2>1. c \in Queued /\ JobTypes
    BY <1>2, <1>3 DEF JobsInv, Queued
  <2> QED
    BY <2>1, QueuedCalls, CallParts
<1>7. /\ phase' \in [Jobs -> {"open", "settling", "settled", "cut"}]
      /\ \A k \in Jobs \ {c.job} : phase'[k] = phase[k]
  BY <1>5, <1>6 DEF JobTypes, CutShort, Phase
<1>8. /\ calls' \in Seq(CallSet)
      /\ io' \in [Jobs -> [Waiters -> {"idle", "pending", "ok", "error"}]]
  BY <1>1, <1>2, <1>3, <1>5, CallLeaves
<1>9. JobTypes'
  BY <1>1, <1>6, <1>7, <1>8 DEF JobTypes
<1> QED
  BY <1>1, <1>2, <1>3, <1>4, <1>5, <1>7, <1>9, CallEnds

LEMMA ThreadSkipsKeeps ==
  ASSUME JobsInv, ThreadSkips
  PROVE  JobsInv'
<1>1. PICK i \in 1..Len(calls) :
        /\ calls[i].who = Nobody /\ CutShort(calls[i]) /\ calls' = AfterCall(i)
        /\ UNCHANGED <<proc, tasks, pc, memory, item, slots, io, records, rows, closing, reader, now, faults, crashes>>
  BY DEF ThreadSkips, runVars
<1>2. PICK c : c = calls[i]
  OBVIOUS
<1>3. PICK r \in {"ok", "error"} : r = "error"
  OBVIOUS
<1>4. Return(c, r) /\ CutShort(c) /\ c.who = Nobody
  BY <1>1, <1>2 DEF Return
<1>5. JobTypes /\ c.job \in Jobs
  <2>1. c \in Queued /\ JobTypes
    BY <1>2 DEF JobsInv, Queued
  <2> QED
    BY <2>1, QueuedCalls, CallParts
<1>6. /\ phase' \in [Jobs -> {"open", "settling", "settled", "cut"}]
      /\ \A k \in Jobs \ {c.job} : phase'[k] = phase[k]
  BY <1>4, <1>5 DEF JobTypes, CutShort, Phase
<1>7. calls' \in Seq(CallSet)
  BY <1>1, <1>2, <1>4, CallLeaves
<1>8. JobTypes'
  BY <1>1, <1>5, <1>6, <1>7 DEF JobTypes
<1> QED
  BY <1>1, <1>2, <1>4, <1>6, <1>8, CallEnds

(* A settle rewrites the row it stands at, with the URL it had.             *)
LEMMA ThreadTouchesKeeps ==
  ASSUME JobsInv, ThreadTouches
  PROVE  JobsInv'
<1>1. PICK i \in Working :
        /\ SettlesOn(calls[i])
        /\ rows' = [rows EXCEPT ![calls[i].job][calls[i].at].expire = calls[i].until]
        /\ calls' = [calls EXCEPT ![i].at = @ + 1]
        /\ UNCHANGED <<proc, tasks, pc, memory, item, slots, io, records, phase, closing, reader, now, faults, crashes>>
  BY DEF ThreadTouches, runVars
<1>2. PICK c : c = calls[1]
  OBVIOUS
<1>3. PICK e : e = [c EXCEPT !.at = @ + 1]
  OBVIOUS
<1> DEFINE j == c.job
           m == c.at
<1>4. i = 1 /\ 1 \in 1..Len(calls)
  BY <1>1, OneThread
<1>5. c \in CallSet /\ CallKnown(c) /\ c \in Queued
  <2>1. c \in Queued
    BY <1>2, <1>4 DEF Queued
  <2> QED
    BY <2>1, QueuedCalls
<1>6. /\ c.kind = "settle" /\ m \in Seqs /\ rows[j][m].expire > now
      /\ rows' = [rows EXCEPT ![j][m].expire = c.until] /\ calls' = [calls EXCEPT ![1] = e]
  BY <1>1, <1>2, <1>3, <1>4 DEF SettlesOn, Live
<1>7. /\ e \in CallSet /\ e.job = c.job /\ e.who = c.who /\ e.kind = c.kind /\ c.until \in Nat /\ j \in Jobs
  <2>1. c \in SettleCalls
    BY <1>5, <1>6 DEF CallSet, SaveCalls, RowCalls, SettleCalls, GetCalls
  <2>2. e \in SettleCalls /\ e.job = c.job /\ e.who = c.who /\ e.kind = c.kind
    BY <1>3, <2>1 DEF SettleCalls
  <2> QED
    BY <2>1, <2>2 DEF CallSet, SettleCalls
<1> HIDE DEF j, m
<1>8. JobTypes /\ RowsKnown(j) /\ CloseKnown /\ QueueKnown /\ now \in Nat
      /\ rows \in [Jobs -> [Seqs -> [url : Urls \cup {Nobody}, expire : Nat]]] /\ calls \in Seq(CallSet)
  BY <1>7 DEF JobsInv, JobTypes, j
<1>9. /\ Len(calls') = Len(calls) /\ calls' \in Seq(CallSet) /\ calls'[1] = e
      /\ \A k \in 1..Len(calls) : k # 1 => calls'[k] = calls[k]
  BY <1>4, <1>6, <1>7, <1>8
<1>10. \A k \in 1..Len(calls) : /\ calls'[k].job = calls[k].job /\ calls'[k].who = calls[k].who
                                /\ calls'[k].kind = calls[k].kind
  BY <1>2, <1>7, <1>9
<1>11. \A d \in Queued' : d = e \/ d \in Queued
  BY <1>9 DEF Queued
<1>12. QueueKnown'
  BY <1>8, <1>9, <1>10 DEF QueueKnown, InOrder
<1>13. /\ m \in Present(j) /\ rows[j][m].url \in Urls
       /\ \A k \in Jobs \ {j} : rows'[k] = rows[k]
       /\ \A n \in Seqs \ {m} : rows'[j][n] = rows[j][n]
       /\ rows'[j][m].url = rows[j][m].url
       /\ rows' \in [Jobs -> [Seqs -> [url : Urls \cup {Nobody}, expire : Nat]]]
  <2>1. m \in Present(j)
    BY <1>6, <1>8 DEF Present, NoRow
  <2>2. rows[j][m].url \in Urls
    BY <1>8, <2>1 DEF RowsKnown
  <2>3. j \in Jobs /\ m \in Seqs /\ c.until \in Nat /\ rows[j][m] \in [url : Urls \cup {Nobody}, expire : Nat]
    BY <1>6, <1>7, <1>8 DEF j
  <2> DEFINE old == rows[j][m]
  <2>4. PICK row : row = [old EXCEPT !.expire = c.until]
    OBVIOUS
  <2>5. rows' = [rows EXCEPT ![j][m] = row]
    BY <1>6, <2>4
  <2>6. row \in [url : Urls \cup {Nobody}, expire : Nat] /\ row.url = old.url
    <3>1. old \in [url : Urls \cup {Nobody}, expire : Nat] /\ c.until \in Nat
      BY <2>3
    <3> HIDE DEF old
    <3> QED
      BY <2>4, <3>1
  <2>7. /\ \A k \in Jobs \ {j} : rows'[k] = rows[k]
        /\ \A n \in Seqs \ {m} : rows'[j][n] = rows[j][n]
        /\ rows'[j][m] = row
        /\ rows' \in [Jobs -> [Seqs -> [url : Urls \cup {Nobody}, expire : Nat]]]
    BY <1>8, <2>3, <2>5, <2>6
  <2> QED
    BY <2>1, <2>2, <2>6, <2>7
<1>14. Present(j)' = Present(j) /\ \A n \in Present(j) : rows'[j][n].url = rows[j][n].url
  <2>1. rows'[j][m] # NoRow /\ rows[j][m] # NoRow
    BY <1>13, Constants DEF NoRow
  <2>2. \A n \in Seqs : rows'[j][n] # NoRow <=> rows[j][n] # NoRow
    BY <1>13, <2>1, Zenon
  <2>3. Present(j)' = Present(j)
    BY <2>2, Zenon DEF Present
  <2>4. \A n \in Present(j) : n \in Seqs
    BY Zenon DEF Present
  <2>5. \A n \in Present(j) : rows'[j][n].url = rows[j][n].url
    BY <1>13, <2>4, Zenon
  <2> QED
    BY <2>3, <2>5, Zenon
<1>15. OnlyJob(j)
  BY <1>1, <1>7, <1>11, <1>13, ZenonT(40) DEF OnlyJob, j
<1>16. JobTypes'
  BY <1>1, <1>8, <1>9, <1>13 DEF JobTypes
<1>17. JobKnown(j)'
  <2>1. JobKnown(j)
    BY <1>7 DEF JobsInv, j
  <2>2. Quiet(j)' = Quiet(j)
    BY <1>1 DEF Quiet, Ended
  <2> QED
    BY <1>1, <2>1, <2>2 DEF JobKnown
<1>18. RowsKnown(j)'
  <2>1. NoRowQueued(j) => NoRowQueued(j)'
    BY <1>6, <1>7, <1>11 DEF NoRowQueued
  <2>2. pc[j] # "gone"
    BY <1>5 DEF CallKnown, j
  <2>3. \A u \in Urls : RowUntouched(j, u)
    BY <1>1 DEF RowUntouched
  <2> QED
    BY <1>1, <1>7, <1>14, <2>1, <2>2, <2>3, RowsHold DEF j
<1>19. (\A d \in Queued : d.job = j => CallKnown(d))'
  <2>1. ASSUME NEW d \in Queued, d.job = j
        PROVE  CallKnown(d)'
    <3>1. CallKnown(d) /\ Quiet(j)' = Quiet(j)
      BY <1>1, QueuedCalls DEF Quiet, Ended
    <3> QED
      BY <1>1, <1>14, <2>1, <3>1 DEF CallKnown
  <2>2. CallKnown(e)'
    BY <1>1, <1>5, <1>6, <1>7 DEF CallKnown
  <2> QED
    BY <1>11, <2>1, <2>2
<1>20. CloseKnown'
  <2>1. calls # <<>>
    BY <1>4
  <2> QED
    BY <1>1, <1>8, <1>9, <1>10, <2>1 DEF CloseKnown
<1>21. IsFiniteSet(tasks') /\ Cardinality(tasks') <= MaxActive
  BY <1>1 DEF JobsInv
<1> QED
  BY <1>7, <1>12, <1>15, <1>16, <1>17, <1>18, <1>19, <1>20, <1>21, OneJobMoves, SMTT(30) DEF j

-----------------------------------------------------------------------------
(* Steps that leave the jobs alone.                                         *)
LEMMA Elsewhere ==
  ASSUME JobsInv, UNCHANGED <<tasks, pc, memory, item, slots, io, calls, rows>>, now' >= now,
         JobTypes', CloseKnown'
  PROVE  JobsInv'
<1>1. /\ Queued' = Queued /\ (QueueKnown' <=> QueueKnown)
      /\ \A j \in Jobs : /\ Present(j)' = Present(j) /\ (Quiet(j)' <=> Quiet(j)) /\ (RowLanded(j)' <=> RowLanded(j))
                         /\ (NoRowQueued(j)' <=> NoRowQueued(j))
  BY DEF Queued, QueueKnown, Present, Quiet, Ended, RowLanded, NoRowQueued
<1>2. ASSUME NEW j \in Jobs
      PROVE  JobKnown(j)'
  <2>1. JobKnown(j) /\ now \in Nat /\ now' \in Nat /\ memory[j].deadline \in Nat
    BY DEF JobsInv, JobTypes, RecordSet
  <2>2. now' < memory[j].deadline => now < memory[j].deadline
    BY <2>1
  <2> QED
    BY <1>1, <2>1, <2>2 DEF JobKnown
<1>3. ASSUME NEW j \in Jobs
      PROVE  RowsKnown(j)'
  <2>1. RowsKnown(j)
    BY DEF JobsInv
  <2> QED
    BY <1>1, <2>1 DEF RowsKnown
<1>4. ASSUME NEW c \in Queued
      PROVE  CallKnown(c)'
  <2>1. CallKnown(c) /\ c.job \in Jobs
    BY QueuedCalls, CallParts
  <2> QED
    BY <1>1, <2>1 DEF CallKnown
<1> QED
  BY <1>1, <1>2, <1>3, <1>4 DEF JobsInv

LEMMA ClosedKeeps ==
  ASSUME JobsInv, Closed
  PROVE  JobsInv'
<1>1. /\ proc = "closing" /\ closing.left = {} /\ tasks = {} /\ proc' = "closed"
      /\ UNCHANGED <<tasks, pc, memory, item, slots, io, calls, closing, reader, now, records, rows, phase, faults, crashes>>
  BY DEF Closed, runVars, ioVars, worldVars
<1>2. JobTypes /\ CloseKnown /\ now \in Nat
  BY DEF JobsInv, JobTypes
<1>3. JobTypes' /\ now' >= now
  BY <1>1, <1>2 DEF JobTypes
<1>4. CloseKnown'
  BY <1>1, <1>2 DEF CloseKnown
<1> QED
  BY <1>1, <1>3, <1>4, Elsewhere

LEMMA RestartKeeps ==
  ASSUME JobsInv, Restart
  PROVE  JobsInv'
<1>1. /\ proc \in {"down", "closed"} /\ proc' = "up"
      /\ UNCHANGED <<tasks, pc, memory, item, slots, io, calls, closing, reader, now, records, rows, phase, faults, crashes>>
  BY DEF Restart, runVars, ioVars, storeVars
<1>2. JobTypes /\ CloseKnown /\ now \in Nat
  BY DEF JobsInv, JobTypes
<1>3. JobTypes' /\ now' >= now
  BY <1>1, <1>2 DEF JobTypes
<1>4. CloseKnown'
  BY <1>1, <1>2 DEF CloseKnown
<1> QED
  BY <1>1, <1>3, <1>4, Elsewhere

LEMMA TickKeeps ==
  ASSUME JobsInv, Tick
  PROVE  JobsInv'
<1>1. /\ now' = now + 1
      /\ UNCHANGED <<proc, tasks, pc, memory, item, slots, io, calls, closing, reader, records, rows, phase, faults, crashes>>
  BY DEF Tick, runVars, ioVars, storeVars
<1>2. JobTypes /\ CloseKnown /\ now \in Nat
  BY DEF JobsInv, JobTypes
<1>3. JobTypes' /\ now' >= now
  BY <1>1, <1>2 DEF JobTypes
<1>4. CloseKnown'
  BY <1>1, <1>2 DEF CloseKnown
<1> QED
  BY <1>1, <1>3, <1>4, Elsewhere

LEMMA ReadKeeps ==
  ASSUME JobsInv, UNCHANGED <<proc, tasks, pc, memory, item, slots, io, calls, records, rows, closing, now, phase,
                              faults, crashes>>
  PROVE  JobsInv'
<1>1. JobTypes /\ CloseKnown /\ now \in Nat
  BY DEF JobsInv, JobTypes
<1>2. JobTypes' /\ now' >= now
  BY <1>1 DEF JobTypes
<1>3. CloseKnown'
  BY <1>1 DEF CloseKnown
<1> QED
  BY <1>2, <1>3, Elsewhere

LEMMA UnsubmittedHasNoRows ==
  ASSUME JobsInv, NEW j \in Jobs, pc[j] = "new"
  PROVE  Present(j) = {}
<1>1. JobKnown(j) /\ RowsKnown(j)
  BY DEF JobsInv
<1> QED
  BY <1>1 DEF JobKnown, RowsKnown

LEMMA CrashKeeps ==
  ASSUME JobsInv, Crash
  PROVE  JobsInv'
<1>1. /\ proc' = "down" /\ crashes' = crashes + 1 /\ tasks' = {}
      /\ pc' = [j \in Jobs |-> IF pc[j] = "new" THEN "new" ELSE "gone"]
      /\ item' = [j \in Jobs |-> [u \in Urls |-> "none"]]
      /\ memory' = [j \in Jobs |-> NoRecord]
      /\ slots' = [j \in Jobs |-> {}]
      /\ io' = [j \in Jobs |-> [w \in Waiters |-> "idle"]]
      /\ calls' = <<>>
      /\ closing' = [left |-> {}, got |-> NoRecord]
      /\ phase' \in [Jobs -> {"open", "settling", "settled", "cut"}]
      /\ UNCHANGED <<records, rows, reader, now, faults>>
  BY DEF Crash, JobsInv, JobTypes
<1>2. JobTypes
  BY DEF JobsInv
<1>3. JobTypes'
  <2>1. calls' \in Seq(CallSet)
    BY <1>1, EmptySeq
  <2> QED
    BY <1>1, <1>2, <2>1, NothingRead DEF JobTypes
<1>4. Queued' = {} /\ QueueKnown'
  BY <1>1 DEF Queued, QueueKnown
<1>5. ASSUME NEW j \in Jobs
      PROVE  JobKnown(j)'
  <2>1. Cardinality(slots'[j]) <= Concurrency
    BY <1>1, FS_EmptySet, Constants
  <2>2. pc'[j] \in {"new", "gone"} /\ (\A u \in Urls : item'[j][u] = "none") /\ (\A w \in Waiters : io'[j][w] = "idle")
    BY <1>1
  <2> QED
    BY <1>1, <2>1, <2>2, Constants DEF JobKnown, Unended
<1>6. ASSUME NEW j \in Jobs
      PROVE  RowsKnown(j)'
  <2>1. RowsKnown(j) /\ Present(j)' = Present(j)
    BY <1>1 DEF JobsInv, Present
  <2>2. (\A u \in Urls : item'[j][u] = "none") /\ memory'[j].done = 0
    BY <1>1 DEF NoRecord
  <2>3. pc'[j] # "gone" => Present(j) = {}
    BY <1>1, UnsubmittedHasNoRows
  <2>4. 0..(0 - 1) = {}
    OBVIOUS
  <2>5. pc'[j] # "gone" => Present(j)' = 0..(memory'[j].done - 1)
    BY <2>1, <2>2, <2>3, <2>4
  <2>6. rows'[j] = rows[j] /\ \E k \in Nat : Present(j)' = 0..(k - 1)
    BY <1>1, <2>1 DEF RowsKnown
  <2>7. /\ \A n \in Present(j)' : rows'[j][n].url \in Urls
        /\ \A a, b \in Present(j)' : rows'[j][a].url = rows'[j][b].url => a = b
    BY <2>1, <2>6 DEF RowsKnown
  <2>8. CASE pc'[j] = "gone"
    BY <2>2, <2>6, <2>7, <2>8 DEF RowsKnown
  <2>9. CASE pc'[j] # "gone"
    BY <2>1, <2>2, <2>3, <2>5, <2>6, <2>9 DEF RowsKnown
  <2> QED
    BY <2>8, <2>9
<1>7. CloseKnown'
  BY <1>1 DEF CloseKnown, AtClose
<1>8. IsFiniteSet(tasks') /\ Cardinality(tasks') <= MaxActive
  BY <1>1, FS_EmptySet, Constants
<1> QED
  BY <1>3, <1>4, <1>5, <1>6, <1>7, <1>8 DEF JobsInv

(* Shutdown cancels every task at the await it stands at.                   *)
LEMMA CloseKeeps ==
  ASSUME JobsInv, Close
  PROVE  JobsInv'
<1>1. /\ proc = "up" /\ proc' = "closing" /\ closing' = [left |-> tasks, got |-> NoRecord]
      /\ \A j \in Jobs : pc[j] # "submit"
      /\ pc' = [j \in Jobs |-> IF j \notin tasks THEN pc[j]
                               ELSE IF pc[j] = "batch" THEN "stopping" ELSE "end"]
      /\ item' = [j \in Jobs |-> IF j \notin tasks \/ pc[j] # "batch" THEN item[j]
                                 ELSE [u \in Urls |-> IF Ended(j, u) THEN item[j][u] ELSE "cancelled"]]
      /\ slots' = [j \in Jobs |-> IF j \in tasks THEN {} ELSE slots[j]]
      /\ io' = [j \in Jobs |-> [w \in Waiters |-> "idle"]]
      /\ calls' = [i \in 1..Len(calls) |-> [calls[i] EXCEPT !.who = Nobody]]
      /\ tasks' = {j \in tasks : pc[j] = "batch"}
      /\ UNCHANGED <<memory, reader, now, records, rows, phase, faults, crashes>>
  BY DEF Close, PendingAtClose, storeVars
<1>2. JobTypes /\ CloseKnown /\ calls \in Seq(CallSet) /\ \A j \in Jobs : JobKnown(j) /\ RowsKnown(j)
  BY DEF JobsInv, JobTypes
<1>3. ASSUME NEW j \in Jobs
      PROVE  /\ pc'[j] = IF j \notin tasks THEN pc[j] ELSE IF pc[j] = "batch" THEN "stopping" ELSE "end"
             /\ pc[j] \notin AtClose /\ pc'[j] \notin AtClose \cup {"submit"} /\ (pc[j] = "gone" <=> pc'[j] = "gone")
             /\ (pc[j] = "new" <=> pc'[j] = "new")
             /\ j \in tasks' <=> pc'[j] \in Unended
             /\ slots'[j] = {} \/ slots'[j] = slots[j]
             /\ \A w \in Waiters : io'[j][w] = "idle"
             /\ Present(j)' = Present(j)
  <2>1. pc[j] \notin AtClose
    BY <1>1, <1>2 DEF CloseKnown
  <2>2. pc'[j] = IF j \notin tasks THEN pc[j] ELSE IF pc[j] = "batch" THEN "stopping" ELSE "end"
    BY <1>1
  <2>3. j \in tasks <=> pc[j] \in Unended
    BY <1>2 DEF JobKnown
  <2>4. j \in tasks' <=> pc'[j] \in Unended
    BY <1>1, <2>2, <2>3 DEF Unended
  <2> QED
    BY <1>1, <2>1, <2>2, <2>3, <2>4 DEF Present, AtClose, Unended
<1>4. ASSUME NEW j \in Jobs
      PROVE  /\ pc[j] = "batch" => Quiet(j)' /\ \A u \in Urls : Ended(j, u) => item'[j][u] = item[j][u]
             /\ pc[j] # "batch" => item'[j] = item[j]
             /\ Quiet(j) => Quiet(j)'
             /\ \A u \in Urls : item'[j][u] # item[j][u] => item'[j][u] = "cancelled"
  <2>1. CASE pc[j] = "batch"
    <3>1. j \in tasks
      BY <1>2, <2>1 DEF JobKnown, Unended
    <3>2. \A u \in Urls : item'[j][u] = IF Ended(j, u) THEN item[j][u] ELSE "cancelled"
      BY <1>1, <2>1, <3>1
    <3> QED
      BY <2>1, <3>2 DEF Quiet, Ended
  <2>2. CASE pc[j] # "batch"
    <3>1. item'[j] = item[j]
      BY <1>1, <2>2
    <3> QED
      BY <2>2, <3>1 DEF Quiet, Ended
  <2> QED
    BY <2>1, <2>2
<1>5. ASSUME NEW j \in Jobs, NEW u \in Urls
      PROVE  item'[j][u] # "write" /\ item'[j][u] # "save"
  <2>1. JobKnown(j) /\ pc[j] \notin AtClose
    BY <1>2, <1>3
  <2>2. CASE pc[j] = "batch"
    BY <1>4, <2>2 DEF Quiet, Ended
  <2>3. CASE pc[j] # "batch"
    <3>1. Quiet(j) \/ \A v \in Urls : item[j][v] = "none"
      BY <1>2, <2>1, <2>3 DEF JobKnown, JobTypes, Unended, AtClose
    <3> QED
      BY <1>4, <2>3, <3>1 DEF Quiet, Ended
  <2> QED
    BY <2>2, <2>3
<1>6. /\ calls' \in Seq(CallSet) /\ Len(calls') = Len(calls) /\ Len(calls) \in Nat
      /\ \A i \in 1..Len(calls) : calls'[i] = [calls[i] EXCEPT !.who = Nobody]
  <2>1. calls' \in [1..Len(calls) -> CallSet] /\ Len(calls) \in Nat
    BY <1>1, <1>2, Orphans
  <2>2. calls' \in Seq(CallSet)
    BY <2>1, SeqDef
  <2>3. Len(calls') = Len(calls)
    BY <2>1, <2>2, LenProperties
  <2> QED
    BY <1>1, <2>1, <2>2, <2>3
<1>7. ASSUME NEW i \in 1..Len(calls)
      PROVE  /\ calls[i] \in CallSet /\ calls[i] \in Queued /\ CallKnown(calls[i])
             /\ calls'[i] \in CallSet /\ calls'[i].job = calls[i].job /\ calls'[i].who = Nobody
             /\ calls'[i].kind = calls[i].kind
             /\ calls[i].kind = "row" => calls'[i].seq = calls[i].seq /\ calls'[i].url = calls[i].url
  <2>1. calls[i] \in Queued
    BY DEF Queued
  <2>2. calls[i] \in CallSet /\ CallKnown(calls[i])
    BY <2>1, QueuedCalls
  <2> QED
    BY <1>6, <2>1, <2>2, Orphans
<1>8. \A c \in Queued' : \E i \in 1..Len(calls) : c = calls'[i]
  BY <1>6 DEF Queued
<1>9. JobTypes'
  <2>1. pc' \in [Jobs -> Unended \cup {"new", "refused", "end", "gone", "reading", "marking"}]
    BY <1>1, <1>2 DEF JobTypes, Unended
  <2>2. item' \in [Jobs -> [Urls -> {"none", "queued", "crawl", "lock", "write", "save",
                                     "done", "failed", "cancelled"}]]
    BY <1>1, <1>2 DEF JobTypes
  <2>3. slots' \in [Jobs -> SUBSET Urls] /\ tasks' \in SUBSET Jobs
        /\ closing' \in [left : SUBSET Jobs, got : RecordSet]
    BY <1>1, <1>2, NothingRead DEF JobTypes
  <2>4. io' \in [Jobs -> [Waiters -> {"idle", "pending", "ok", "error"}]]
    BY <1>1
  <2> QED
    BY <1>1, <1>2, <1>6, <2>1, <2>2, <2>3, <2>4 DEF JobTypes
<1>10. QueueKnown'
  <2> SUFFICES ASSUME NEW i \in 1..Len(calls), NEW k \in 1..Len(calls), i < k
               PROVE  InOrder(calls'[i], calls'[k])
    BY <1>6 DEF QueueKnown
  <2>1. InOrder(calls[i], calls[k])
    BY DEF JobsInv, QueueKnown
  <2> QED
    BY <1>7, <2>1 DEF InOrder
<1>11. ASSUME NEW j \in Jobs
       PROVE  JobKnown(j)'
  <2>1. JobKnown(j) /\ pc[j] \notin AtClose
    BY <1>2, <1>3
  <2>2. Cardinality(slots'[j]) <= Concurrency
    <3>1. CASE slots'[j] = {}
      BY <3>1, FS_EmptySet, Constants
    <3>2. CASE slots'[j] = slots[j]
      BY <2>1, <3>2 DEF JobKnown
    <3> QED
      BY <1>3, <3>1, <3>2
  <2>3. pc'[j] \in {"new", "submit", "created", "run", "refused", "gone"} => \A u \in Urls : item'[j][u] = "none"
    BY <1>3, <1>4, <2>1 DEF JobKnown, Unended
  <2>4. pc'[j] # "batch"
    BY <1>3, <2>1 DEF JobKnown, Unended
  <2>5. pc'[j] \in {"stopping", "settle"} => Quiet(j)'
    BY <1>3, <1>4, <2>1 DEF JobKnown
  <2>6. pc'[j] \in {"end", "reading", "marking"} => Quiet(j)' \/ \A u \in Urls : item'[j][u] = "none"
    <3>1. pc[j] # "batch" => Quiet(j) \/ \A u \in Urls : item[j][u] = "none"
      BY <1>2, <2>1 DEF JobKnown, JobTypes, Unended, AtClose
    <3> QED
      BY <1>4, <3>1
  <2>7. now < memory[j].deadline =>
          \A u \in Urls : item'[j][u] \in {"crawl", "lock", "write", "save"} => u \in slots'[j]
    <3>1. \A u \in Urls : item'[j][u] \notin {"crawl", "lock", "write", "save"}
      <4>1. \A u \in Urls : item'[j][u] \notin {"crawl", "lock", "write", "save"} \/ item'[j][u] = item[j][u]
        BY <1>4
      <4>2. ASSUME NEW u \in Urls, item'[j][u] = item[j][u], item[j][u] \in {"crawl", "lock", "write", "save"}
            PROVE  FALSE
        BY <1>4, <4>2, OnlyInBatch DEF Quiet, Ended
      <4> QED
        BY <4>1, <4>2
    <3> QED
      BY <3>1
  <2> QED
    BY <1>1, <1>3, <1>5, <2>2, <2>3, <2>4, <2>5, <2>6, <2>7, Constants DEF JobKnown
<1>12. ASSUME NEW j \in Jobs
       PROVE  RowsKnown(j)'
  <2>1. RowsKnown(j) /\ Present(j)' = Present(j) /\ (pc'[j] = "gone" <=> pc[j] = "gone")
    BY <1>2, <1>3
  <2>2. NoRowQueued(j) => NoRowQueued(j)'
    BY <1>7, <1>8 DEF NoRowQueued
  <2>3. Quiet(j) \/ RowLanded(j) => Quiet(j)'
    <3>1. RowLanded(j) => pc[j] = "batch"
      BY OnlyInBatch DEF RowLanded
    <3> QED
      BY <1>4, <3>1
  <2>4. \A n \in Present(j) : pc[j] # "gone" =>
          item'[j][rows[j][n].url] \in {"write", "save", "done", "failed", "cancelled"}
    BY <1>4, <2>1 DEF RowsKnown
  <2>5. \A u \in Urls : item'[j][u] \in {"save", "done"} => item'[j][u] = item[j][u]
    BY <1>4
  <2>6. rows'[j] = rows[j] /\ memory'[j] = memory[j]
    BY <1>1
  <2> QED
    BY <1>5, <2>1, <2>2, <2>3, <2>4, <2>5, <2>6 DEF RowsKnown
<1>13. (\A c \in Queued : CallKnown(c))'
  <2> SUFFICES ASSUME NEW c \in Queued'
               PROVE  CallKnown(c)'
    OBVIOUS
  <2>1. PICK i \in 1..Len(calls) : c = calls'[i]
    BY <1>8
  <2>2. PICK d \in CallSet : d = calls[i]
    BY <1>7
  <2>3. /\ CallKnown(d) /\ c.job = d.job /\ c.who = Nobody /\ c.kind = d.kind /\ d.job \in Jobs
        /\ d.kind = "row" => c.seq = d.seq /\ c.url = d.url /\ d.who \in Urls \cup {Nobody}
    BY <1>7, <2>1, <2>2, CallParts
  <2>4. /\ pc'[c.job] \notin {"new", "gone"} /\ Present(c.job)' = Present(c.job)
        /\ pc[c.job] \in {"settle", "end", "reading", "marking"} => pc'[c.job] \in {"settle", "end", "reading", "marking"}
    BY <1>3, <2>3 DEF CallKnown
  <2>5. c.kind = "row" => Quiet(c.job)'
    <3>1. ASSUME c.kind = "row", d.who # Nobody
          PROVE  pc[c.job] = "batch"
      <4>1. item[c.job][d.url] = "write" /\ d.url \in Urls
        BY <2>2, <2>3, <3>1, CallParts DEF CallKnown
      <4> QED
        BY <2>3, <4>1, OnlyInBatch
    <3> QED
      BY <1>4, <2>3, <3>1 DEF CallKnown
  <2> QED
    BY <1>1, <2>3, <2>4, <2>5, Constants DEF CallKnown
<1>14. CloseKnown'
  <2>1. \A j \in tasks : pc'[j] \in {"stopping", "end"} /\ j \in Jobs
    BY <1>2, <1>3 DEF JobTypes
  <2> QED
    BY <1>1, <1>3, <2>1 DEF CloseKnown
<1>15. IsFiniteSet(tasks') /\ Cardinality(tasks') <= MaxActive
  <2>1. IsFiniteSet(tasks) /\ Cardinality(tasks) <= MaxActive /\ tasks' \subseteq tasks
    BY <1>1 DEF JobsInv
  <2> QED
    BY <2>1, Constants, FS_Subset, FS_CardinalityType
<1> QED
  BY <1>9, <1>10, <1>11, <1>12, <1>13, <1>14, <1>15 DEF JobsInv

-----------------------------------------------------------------------------
LEMMA JobsInvInit == Init => JobsInv
<1> SUFFICES ASSUME Init PROVE JobsInv
  OBVIOUS
<1> USE DEF Init
<1>1. calls \in Seq(CallSet) /\ Queued = {}
  BY EmptySeq DEF Queued
<1>2. JobTypes
  BY <1>1, NothingRead, Constants
  DEF JobTypes, NoRecord, RecordSet, NoStored, Stored, NoRow, Unended, Statuses
<1>3. ASSUME NEW j \in Jobs
      PROVE  JobKnown(j)
  <2>1. Cardinality(slots[j]) <= Concurrency
    BY FS_EmptySet, Constants
  <2> QED
    BY <2>1, Constants DEF JobKnown, Unended
<1>4. ASSUME NEW j \in Jobs
      PROVE  RowsKnown(j)
  <2>1. Present(j) = {} /\ memory[j].done = 0
    BY DEF Present, NoRecord
  <2>2. 0..(0 - 1) = {} /\ 0 \in Nat
    OBVIOUS
  <2>3. Present(j) = 0..(memory[j].done - 1) /\ \E k \in Nat : Present(j) = 0..(k - 1)
    BY <2>1, <2>2
  <2>4. \A u \in Urls : item[j][u] = "none"
    OBVIOUS
  <2> QED
    BY <2>1, <2>3, <2>4 DEF RowsKnown
<1>5. QueueKnown /\ CloseKnown
  BY DEF QueueKnown, CloseKnown, AtClose
<1>6. IsFiniteSet(tasks) /\ Cardinality(tasks) <= MaxActive
  BY FS_EmptySet, Constants
<1> QED
  BY <1>1, <1>2, <1>3, <1>4, <1>5, <1>6 DEF JobsInv

LEMMA JobsInvNext == JobsInv /\ [Next]_vars => JobsInv'
<1> SUFFICES ASSUME JobsInv, [Next]_vars PROVE JobsInv'
  OBVIOUS
<1>1. ASSUME NEW j \in Jobs, Submit(j) \/ SubmitCancelled(j) \/ LoopStep(j)
      PROVE  JobsInv'
  BY <1>1, SubmitKeeps, SubmitCancelledKeeps, SubmittedKeeps, RunKeeps, RunningKeeps, GroupAbortsKeeps,
     BatchEndsKeeps, SettledKeeps, BatchCancelledKeeps, CloseReadsKeeps, CloseReadKeeps, CloseSettledKeeps
  DEF LoopStep
<1>2. ASSUME NEW j \in Jobs, Read(j)
      PROVE  JobsInv'
  BY <1>2, ReadKeeps DEF Read, ReadRecord, ReadRow, EndPage, runVars, ioVars, storeVars
<1>3. ASSUME NEW j \in Jobs, NEW u \in Urls, ItemStep(j, u)
      PROVE  JobsInv'
  BY <1>3, AcquireKeeps, CrawlEndsKeeps, QueueExpiresKeeps, WriteRowKeeps, RowWrittenKeeps, ProgressSavedKeeps
  DEF ItemStep
<1>4. ASSUME ThreadStep
      PROVE  JobsInv'
  BY <1>4, ThreadTouchesKeeps, ThreadRunsKeeps, ThreadFailsKeeps, ThreadSkipsKeeps DEF ThreadStep
<1>5. ASSUME Close \/ Closed \/ Crash \/ Restart \/ Tick
      PROVE  JobsInv'
  BY <1>5, CloseKeeps, ClosedKeeps, CrashKeeps, RestartKeeps, TickKeeps
<1>6. ASSUME UNCHANGED vars
      PROVE  JobsInv'
  BY <1>6, ReadKeeps DEF vars
<1> QED
  BY <1>1, <1>2, <1>3, <1>4, <1>5, <1>6 DEF Next

LEMMA JobsInvHolds == Spec => []JobsInv
  BY JobsInvInit, JobsInvNext, PTL DEF Spec

(* The runner's state is well formed: among others, the count of a record   *)
(* never passes the number of URLs, so every row number is one of a URL.    *)
THEOREM JobsTypesHold == Spec => []TypeOK
<1>1. JobsInv => TypeOK
  BY DEF JobsInv, JobTypes, TypeOK, RecordSet, Statuses
<1> QED
  BY <1>1, JobsInvHolds, PTL

(* max_active_jobs bounds the jobs of the process whose work is unfinished, *)
(* since submit takes the place before its first await and every way out of *)
(* a job gives it back (jobs.py, submit and _run's done callback).          *)
THEOREM ActiveJobsAreBounded == Spec => []ActiveBound
<1>1. JobsInv => ActiveBound
  <2> SUFFICES ASSUME JobsInv PROVE ActiveBound
    OBVIOUS
  <2>1. {j \in Jobs : pc[j] \in Unended} = tasks
    BY DEF JobsInv, JobKnown, JobTypes
  <2> QED
    BY <2>1 DEF ActiveBound, JobsInv
<1> QED
  BY <1>1, JobsInvHolds, PTL

(* A job holds at most max_concurrency results in memory: the slot of a URL *)
(* is kept until its row is stored (service.py, _batch_item and deliver).   *)
THEOREM ResultsAreBounded == Spec => []ResultsBound
<1>1. JobsInv => ResultsBound
  <2> SUFFICES ASSUME JobsInv, NEW j \in Jobs, now < memory[j].deadline
               PROVE  Cardinality({u \in Urls : item[j][u] \in {"crawl", "lock", "write", "save"}}) <= Concurrency
    BY DEF ResultsBound
  <2> DEFINE S == {u \in Urls : item[j][u] \in {"crawl", "lock", "write", "save"}}
  <2>1. JobKnown(j) /\ slots[j] \subseteq Urls
    BY DEF JobsInv, JobTypes
  <2>2. S \subseteq slots[j] /\ Cardinality(slots[j]) <= Concurrency
    BY <2>1 DEF JobKnown
  <2>3. IsFiniteSet(slots[j])
    BY <2>1, JobsAssumption, FS_Subset
  <2> HIDE DEF S
  <2>4. Cardinality(S) <= Cardinality(slots[j]) /\ Cardinality(S) \in Nat /\ Cardinality(slots[j]) \in Nat
    BY <2>2, <2>3, FS_Subset, FS_CardinalityType
  <2>5. Cardinality(S) <= Concurrency
    BY <2>2, <2>4, Constants
  <2> QED
    BY <2>5 DEF S
<1> QED
  BY <1>1, JobsInvHolds, PTL

(* Stored rows are numbered without a gap, no URL has two, and no delivered *)
(* row is overwritten by another: whatever fails, is cancelled or crashes   *)
(* between the storage call, its answer and the count (jobs.py, deliver).   *)
THEOREM RowsHaveNoGaps == Spec => []RowsGapFree
<1>1. JobsInv => RowsGapFree
  <2> SUFFICES ASSUME JobsInv, NEW j \in Jobs
               PROVE  /\ Present(j) = 0..(Cardinality(Present(j)) - 1)
                      /\ \A m, n \in Present(j) : rows[j][m].url = rows[j][n].url => m = n
                      /\ \A u \in Urls : item[j][u] \in {"save", "done"} =>
                             \E n \in Present(j) : rows[j][n].url = u
    BY DEF RowsGapFree
  <2>1. RowsKnown(j)
    BY DEF JobsInv
  <2>2. PICK k \in Nat : Present(j) = 0..(k - 1)
    BY <2>1 DEF RowsKnown
  <2>3. Cardinality(0..(k - 1)) = k
    BY FS_Interval
  <2> QED
    BY <2>1, <2>2, <2>3 DEF RowsKnown
<1> QED
  BY <1>1, JobsInvHolds, PTL
=============================================================================
