----------------------------- MODULE StoreProofs -----------------------------
(***************************************************************************)
(* What the store of the job runner keeps, and the contract it implements: *)
(* the deadlines behind the expiry times of records and rows, the place of *)
(* a job and the status its record has, and what every write still in the  *)
(* queue can rely on.                                                      *)
(***************************************************************************)
EXTENDS JobsProofs

(* The deadline a job has: in the dict of its task, or only in the store.   *)
Due(j) == IF pc[j] = "gone" THEN records[j].deadline ELSE memory[j].deadline
Over == {"settle", "end", "reading", "marking", "gone"}
Held == tasks \cup closing.left

(* The record and the rows of a job, and how long they stay.                *)
RowsLast(j) ==
    /\ pc[j] = "new" => records[j].status = "none"
    /\ IF records[j].status = "none" THEN records[j] = NoStored ELSE records[j].deadline = Due(j)
    /\ records[j].status \in UNFINISHED => records[j].expire >= records[j].deadline + Ttl
    /\ \A n \in Seqs : n < records[j].done => n \in Present(j)
    /\ phase[j] # "open" => pc[j] \in Over
    /\ phase[j] = "open" => \A n \in Present(j) : rows[j][n].expire >= Due(j) + Ttl
    /\ phase[j] = "settling" => \E c \in Queued : c.job = j /\ c.kind = "settle"
    /\ phase[j] = "settled" => /\ records[j].status \in Final
                               /\ \A n \in Present(j) : rows[j][n].expire = records[j].expire
    /\ j \in Held => now <= memory[j].deadline + Slack
    /\ pc[j] = "reading" /\ io[j][Main] = "ok" => closing.got \in {NoRecord, Fields(records[j])}

(* What the dict and the record say of a job at each place of its task.     *)
StatusKnown(j) ==
    LET m == memory[j].status
        r == records[j].status
    IN /\ m = "none" => pc[j] \in {"new", "gone"}
       /\ r = "none" => pc[j] \in {"new", "submit", "refused", "gone"}
       /\ pc[j] \in {"submit", "refused", "created"} => m = "queued"
       /\ pc[j] \in {"run", "batch", "stopping"} => m = "running"
       /\ pc[j] = "settle" => m \in Final
       /\ m = "done" => \A u \in Urls : item[j][u] = "done"
       /\ pc[j] = "submit" => r = IF io[j][Main] = "ok" THEN "queued" ELSE "none"
       /\ pc[j] = "created" => r = "queued"
       /\ pc[j] = "run" => r \in UNFINISHED /\ (io[j][Main] = "ok" => r = "running")
       /\ pc[j] \in {"batch", "stopping"} => r = "running"
       /\ pc[j] = "settle" => r \in {"running", m}
       /\ pc[j] = "stopping" => j \in closing.left

(* What a write that is still to come can rely on.                          *)
WriteKnown(c) ==
    LET j == c.job
        m == memory[j].status
        r == records[j].status
    IN /\ c.kind # "get" =>
            /\ j \in Held \/ pc[j] = "refused"
            /\ phase[j] # "settled"
            /\ r # "none" => records[j].expire >= memory[j].deadline + Ttl
       /\ c.kind = "save" => /\ m = "queued" => r = "none"
                             /\ m = "running" => r \in UNFINISHED
                             /\ m \in Final => r = "running"
                             /\ now + c.keep >= memory[j].deadline + Ttl /\ c.keep >= Ttl
       /\ c.kind = "row" => r = "running" /\ now + c.keep >= memory[j].deadline + Ttl
       /\ c.kind = "settle" =>
            /\ j \in closing.left \/ (c.who = Main /\ pc[j] = "settle")
            /\ c.rec.status \in Final /\ c.rec.deadline = memory[j].deadline
            /\ r \in {"queued", "running", c.rec.status}
            /\ c.rec.status = "done" => m = "done" /\ r # "queued"
            /\ c.rec.status = m \/ pc[j] = "marking"
            /\ \A n \in Seqs : n < c.rec.done => n \in Present(j)
            /\ phase[j] \in {"settling", "cut"}
            /\ phase[j] = "settling" =>
                 \A n \in Present(j) : IF n < c.at THEN rows[j][n].expire = c.until
                                       ELSE rows[j][n].expire >= memory[j].deadline + Ttl

(* Which task awaits a call, and which job has none.                        *)
CallsFit(c) ==
    LET j == c.job
    IN /\ c.kind = "get" => c.who = Main
       /\ pc[j] # "created"
       /\ pc[j] \in {"submit", "run"} => c.who = Main
       /\ pc[j] = "settle" => io[j][Main] = "pending"
       /\ pc[j] = "marking" => c.kind = "settle"

(* A call behind another: no settle has begun there, a job that is over has *)
(* only its settle there, and a job that is being submitted has none.       *)
Behind(c, d) ==
    /\ ~Begun(d)
    /\ memory[d.job].status \in Final => d.kind \in {"settle", "get"}
    /\ c.job = d.job => pc[d.job] \notin {"submit", "refused"}
AllBehind == \A i, k \in 1..Len(calls) : i < k => Behind(calls[i], calls[k])

StoreInv ==
    /\ \A j \in Jobs : RowsLast(j) /\ StatusKnown(j)
    /\ \A c \in Queued : WriteKnown(c) /\ CallsFit(c)
    /\ AllBehind

-----------------------------------------------------------------------------
(* The types of what a job and its store hold.                              *)
LEMMA Held1 ==
  ASSUME JobsInv, NEW j \in Jobs
  PROVE  /\ memory[j] \in RecordSet /\ memory[j].deadline \in Nat /\ memory[j].done \in Seqs
         /\ memory[j].status \in Statuses /\ records[j].status \in Statuses
         /\ records[j].deadline \in Nat /\ records[j].expire \in Nat /\ records[j].done \in Seqs
         /\ \A n \in Seqs : rows[j][n].expire \in Nat
         /\ Present(j) \subseteq Seqs /\ now \in Nat
  BY DEF JobsInv, JobTypes, RecordSet, Present

(* Call c is call d, orphaned perhaps.                                      *)
Kin(c, d) ==
    /\ c.job = d.job /\ c.kind = d.kind /\ c.who \in {d.who, Nobody}
    /\ c.kind \in {"save", "row"} => c.keep = d.keep
    /\ c.kind = "settle" => c.rec = d.rec /\ c.until = d.until /\ c.at = d.at

(* The tasks of job j act on the queue: its calls may be orphaned, and the  *)
(* calls N join it.                                                         *)
QueueStep(j, N) ==
    /\ \A c \in Queued' : c.job # j => c \in Queued
    /\ \A c \in Queued : c.job # j => c \in Queued'
    /\ \A c \in Queued' : c.job = j => c \in N \/ \E d \in Queued : Kin(c, d)
    /\ \A d \in Queued : d.job = j => \E c \in Queued' : Kin(c, d)
    /\ AllBehind'

(* What stands behind another call stays fit to: the place and the status   *)
(* of j stay as they were for it, or no call of j stands behind another.    *)
SameBehind(j) ==
    /\ \A k \in Jobs \ {j} : pc'[k] = pc[k] /\ memory'[k] = memory[k]
    /\ \/ /\ memory'[j].status \in Final => memory[j].status \in Final
          /\ pc'[j] \in {"submit", "refused"} => pc[j] \in {"submit", "refused"}
       \/ \A i, k \in 1..Len(calls) : i < k => calls[k].job # j

LEMMA BehindStays ==
  ASSUME JobsInv, AllBehind, NEW j \in Jobs, SameBehind(j), NEW i \in 1..Len(calls), NEW k \in 1..Len(calls), i < k,
         NEW a, a.job = calls[i].job, NEW b, Kin(b, calls[k])
  PROVE  Behind(a, b)'
<1>1. calls \in Seq(CallSet) /\ Behind(calls[i], calls[k])
  BY DEF JobsInv, JobTypes, AllBehind
<1>2. PICK d \in CallSet : d = calls[k]
  BY <1>1
<1>3. d.job \in Jobs /\ b.job = d.job /\ b.kind = d.kind /\ (Begun(b) <=> Begun(d))
  BY <1>2, CallJob DEF Kin, Begun
<1>4. /\ memory'[d.job].status \in Final => memory[d.job].status \in Final
      /\ pc'[d.job] \in {"submit", "refused"} => pc[d.job] \in {"submit", "refused"}
  BY <1>2, <1>3 DEF SameBehind
<1> QED
  BY <1>1, <1>2, <1>3, <1>4 DEF Behind, Begun

LEMMA QueueSame ==
  ASSUME JobsInv, AllBehind, NEW j \in Jobs, SameBehind(j), calls' = calls
  PROVE  QueueStep(j, {}) /\ Queued' = Queued
<1>1. Queued' = Queued /\ \A c : Kin(c, c)
  BY DEF Queued, Kin
<1>2. calls \in Seq(CallSet) /\ \A i \in 1..Len(calls) : calls[i] \in CallSet
  BY DEF JobsInv, JobTypes
<1>3. AllBehind'
  <2> SUFFICES ASSUME NEW i \in 1..Len(calls), NEW k \in 1..Len(calls), i < k,
                      NEW a, NEW b, a = calls[i], b = calls[k]
               PROVE  Behind(a, b)'
    BY DEF AllBehind
  <2> QED
    BY <1>1, BehindStays
<1> QED
  BY <1>1, <1>3 DEF QueueStep

LEMMA QueueNew ==
  ASSUME JobsInv, AllBehind, NEW j \in Jobs, SameBehind(j), NEW c \in CallSet, calls' = Append(calls, c),
         c.job = j, ~Begun(c), memory'[j].status \in Final => c.kind \in {"settle", "get"},
         pc'[j] \in {"submit", "refused"} => \A d \in Queued : d.job # j
  PROVE  QueueStep(j, {c}) /\ Queued' = Queued \cup {c}
<1>1. \A d : Kin(d, d)
  BY DEF Kin
<1>2. calls \in Seq(CallSet) /\ \A i \in 1..Len(calls) : calls[i] \in CallSet
  BY DEF JobsInv, JobTypes
<1>3. /\ Len(calls) \in Nat /\ Len(calls') = Len(calls) + 1
      /\ \A i \in 1..Len(calls) : calls'[i] = calls[i]
      /\ calls'[Len(calls) + 1] = c
      /\ Queued' = Queued \cup {c}
  BY <1>2, QueueGets
<1>4. AllBehind'
  <2> SUFFICES ASSUME NEW i \in 1..Len(calls'), NEW k \in 1..Len(calls'), i < k,
                      NEW a, NEW b, a = calls'[i], b = calls'[k]
               PROVE  Behind(a, b)'
    BY DEF AllBehind
  <2>1. i \in 1..Len(calls) /\ a = calls[i] /\ a \in CallSet
    BY <1>2, <1>3
  <2>2. CASE k \in 1..Len(calls)
    <3>1. b = calls[k]
      BY <1>3, <2>2
    <3> QED
      BY <1>1, <2>1, <2>2, <3>1, BehindStays
  <2>3. CASE k = Len(calls) + 1
    <3>1. b = c /\ a \in Queued
      BY <1>3, <2>1, <2>3 DEF Queued
    <3> QED
      BY <3>1 DEF Behind, Begun
  <2> QED
    BY <1>3, <2>2, <2>3
<1> QED
  BY <1>1, <1>3, <1>4 DEF QueueStep

LEMMA QueueCut ==
  ASSUME JobsInv, AllBehind, NEW j \in Jobs, SameBehind(j), NEW W, Nobody \notin W, calls' = Orphaned(j, W)
  PROVE  QueueStep(j, {}) /\ \A c \in Queued' : c.job = j => c.who \notin W
<1>1. calls \in Seq(CallSet) /\ \A i \in 1..Len(calls) : calls[i] \in CallSet
  BY DEF JobsInv, JobTypes
<1> DEFINE J == {j}
<1>2. /\ calls' \in Seq(CallSet) /\ Len(calls') = Len(calls) /\ Len(calls) \in Nat
      /\ \A i \in 1..Len(calls) : calls'[i] = IF calls[i].job \in J /\ calls[i].who \in W
                                              THEN [calls[i] EXCEPT !.who = Nobody] ELSE calls[i]
  <2>1. J \subseteq Jobs
    OBVIOUS
  <2>2. calls' = [i \in 1..Len(calls) |->
                    IF calls[i].job \in J /\ calls[i].who \in W
                    THEN [calls[i] EXCEPT !.who = Nobody] ELSE calls[i]]
    BY DEF Orphaned
  <2> HIDE DEF J
  <2> QED
    BY <1>1, <2>1, <2>2, QueueOrphans, ZenonT(40)
<1>3. ASSUME NEW i \in 1..Len(calls)
      PROVE  /\ Kin(calls'[i], calls[i]) /\ calls'[i] \in CallSet /\ calls[i] \in CallSet
             /\ calls[i].job # j => calls'[i] = calls[i]
             /\ calls[i].job = j => calls'[i].who \notin W
  <2>1. calls[i] \in CallSet
    BY <1>1
  <2>2. CASE calls[i].job = j /\ calls[i].who \in W
    <3>1. calls'[i] = [calls[i] EXCEPT !.who = Nobody]
      BY <1>2, <2>2
    <3> QED
      BY <2>1, <2>2, <3>1, Orphans DEF Kin
  <2>3. CASE ~(calls[i].job = j /\ calls[i].who \in W)
    <3>1. calls'[i] = calls[i]
      BY <1>2, <2>3
    <3> QED
      BY <2>1, <2>3, <3>1 DEF Kin
  <2> QED
    BY <2>2, <2>3
<1>4. AllBehind'
  <2> SUFFICES ASSUME NEW i \in 1..Len(calls), NEW k \in 1..Len(calls), i < k,
                      NEW a, NEW b, a = calls'[i], b = calls'[k]
               PROVE  Behind(a, b)'
    BY <1>2 DEF AllBehind
  <2>1. Kin(b, calls[k]) /\ a.job = calls[i].job
    BY <1>3 DEF Kin
  <2> QED
    BY <2>1, BehindStays
<1>5. \A c \in Queued' : \E i \in 1..Len(calls) : c = calls'[i]
  BY <1>2 DEF Queued
<1>6. \A i \in 1..Len(calls) : calls[i] \in Queued /\ calls'[i] \in Queued'
  BY <1>2 DEF Queued
<1>7. \A c \in Queued : \E i \in 1..Len(calls) : c = calls[i]
  BY DEF Queued
<1>8. \A c \in Queued' : \E d \in Queued : Kin(c, d) /\ (c.job # j => c = d) /\ (c.job = j => c.who \notin W)
  BY <1>3, <1>5, <1>6 DEF Kin
<1>9. \A d \in Queued : \E c \in Queued' : Kin(c, d) /\ (d.job # j => c = d)
  BY <1>3, <1>6, <1>7
<1> QED
  BY <1>4, <1>8, <1>9 DEF QueueStep

-----------------------------------------------------------------------------
(* A step of one job leaves what is known of the others alone, close()      *)
(* moving on included.                                                      *)
LEMMA Others ==
  ASSUME JobsInv, StoreInv, NEW j \in Jobs, OnlyJob(j), \A c \in Queued : c.job # j => c \in Queued',
         \/ closing'.left = closing.left
         \/ closing'.left \subseteq closing.left /\ Queued' = {} /\ tasks = {},
         closing'.got = closing.got \/ \A k \in Jobs \ {j} : pc[k] # "reading",
         RowsLast(j)', StatusKnown(j)', (\A c \in Queued : c.job = j => WriteKnown(c) /\ CallsFit(c))', AllBehind'
  PROVE  StoreInv'
<1>1. ASSUME NEW k \in Jobs, k # j
      PROVE  RowsLast(k)'
  <2>1. RowsLast(k) /\ Present(k)' = Present(k) /\ Due(k)' = Due(k)
    BY <1>1 DEF StoreInv, OnlyJob, Present, Due
  <2>2. (k \in Held)' => k \in Held
    BY <1>1 DEF OnlyJob, Held
  <2>3. phase[k] = "settling" => \E c \in Queued' : c.job = k /\ c.kind = "settle"
    BY <1>1, <2>1 DEF RowsLast
  <2>4. pc[k] = "reading" => closing'.got = closing.got
    BY <1>1
  <2> QED
    BY <1>1, <2>1, <2>2, <2>3, <2>4 DEF RowsLast, OnlyJob
<1>2. ASSUME NEW k \in Jobs, k # j
      PROVE  StatusKnown(k)'
  <2>1. StatusKnown(k) /\ JobKnown(k)
    BY DEF StoreInv, JobsInv
  <2>2. pc[k] = "stopping" => k \in closing'.left
    BY <2>1 DEF StatusKnown, JobKnown, Unended
  <2> QED
    BY <1>1, <1>2, <2>1, <2>2 DEF StatusKnown, OnlyJob
<1>3. ASSUME NEW c \in Queued', c.job # j
      PROVE  (WriteKnown(c) /\ CallsFit(c))'
  <2>1. c \in Queued /\ WriteKnown(c) /\ CallsFit(c) /\ closing'.left = closing.left
    BY <1>3 DEF OnlyJob, StoreInv
  <2>2. c.job \in Jobs \ {j}
    BY <1>3, <2>1, QueuedCalls, CallJob
  <2>3. Present(c.job)' = Present(c.job) /\ ((c.job \in Held)' <=> c.job \in Held)
    BY <2>1, <2>2 DEF OnlyJob, Present, Held
  <2>4. WriteKnown(c)'
    BY <2>1, <2>2, <2>3 DEF OnlyJob, WriteKnown
  <2>5. CallsFit(c)'
    BY <2>1, <2>2 DEF OnlyJob, CallsFit
  <2> QED
    BY <2>4, <2>5
<1> QED
  BY <1>1, <1>2, <1>3 DEF StoreInv

(* A task moves on without touching the store: the writes it leaves in the  *)
(* queue rely on what they relied on.                                       *)
LEMMA TaskStore ==
  ASSUME JobsInv, StoreInv, NEW j \in Jobs, OnlyJob(j), NEW N, QueueStep(j, N),
         records' = records, rows' = rows, phase' = phase, now' = now, closing' = closing,
         memory'[j].deadline = memory[j].deadline,
         memory'[j].status = memory[j].status \/ \A c \in Queued : c.job # j,
         pc[j] \notin {"new", "gone", "marking"}, pc'[j] \notin {"new", "gone", "marking"},
         pc[j] \in Over => pc'[j] \in Over, ~(pc'[j] = "reading" /\ io'[j][Main] = "ok"),
         j \in tasks' => j \in tasks,
         memory[j].status = "done" => \A u \in Urls : item'[j][u] = item[j][u],
         \A c \in N : WriteKnown(c)' /\ CallsFit(c)',
         \A c \in Queued : c.job = j /\ c.kind # "get" => j \in closing.left \/ j \in tasks' \/ pc'[j] = "refused",
         \A c \in Queued' : c.job = j /\ c.kind = "settle" => j \in closing.left \/ (c.who = Main /\ pc'[j] = "settle"),
         StatusKnown(j)', (\A c \in Queued : c.job = j => CallsFit(c))'
  PROVE  StoreInv'
<1>1. RowsLast(j) /\ StatusKnown(j) /\ Present(j)' = Present(j) /\ Due(j)' = Due(j)
  BY DEF StoreInv, Present, Due
<1>2. RowsLast(j)'
  <2>1. phase[j] = "settling" => \E c \in Queued' : c.job = j /\ c.kind = "settle"
    BY <1>1 DEF RowsLast, QueueStep, Kin
  <2>2. (j \in Held)' => j \in Held
    BY DEF Held
  <2> QED
    BY <1>1, <2>1, <2>2 DEF RowsLast
<1>3. ASSUME NEW c \in Queued', c.job = j
      PROVE  WriteKnown(c)'
  <2>1. CASE c \in N
    BY <2>1, SMTT(30)
  <2>2. ASSUME NEW d \in Queued, Kin(c, d)
        PROVE  WriteKnown(c)'
    <3>1. WriteKnown(d) /\ c.job = d.job /\ c.kind = d.kind
          /\ (c.kind \in {"save", "row"} => c.keep = d.keep)
          /\ (c.kind = "settle" => c.rec = d.rec /\ c.until = d.until /\ c.at = d.at)
      BY <2>2 DEF StoreInv, Kin
    <3>2. memory'[j].status = memory[j].status /\ memory'[j].deadline = memory[j].deadline
      BY <1>3, <3>1
    <3>3. c.kind # "get" => (j \in Held)' \/ pc'[j] = "refused"
      BY <1>3, <3>1 DEF Held
    <3> QED
      BY <1>1, <1>3, <3>1, <3>2, <3>3 DEF WriteKnown
  <2> QED
    BY <1>3, <2>1, <2>2 DEF QueueStep
<1>4. closing'.left = closing.left /\ closing'.got = closing.got
  OBVIOUS
<1> QED
  BY <1>2, <1>3, <1>4, Others DEF QueueStep

LEMMA SubmittedStore ==
  ASSUME JobsInv, StoreInv, NEW j \in Jobs, Submitted(j)
  PROVE  StoreInv'
<1>1. /\ pc[j] = "submit" /\ io[j][Main] \in {"ok", "error"} /\ Drop(j, Main)
      /\ \/ io[j][Main] = "ok" /\ pc' = [pc EXCEPT ![j] = "created"] /\ tasks' = tasks
         \/ pc' = [pc EXCEPT ![j] = "refused"] /\ tasks' = tasks \ {j}
      /\ UNCHANGED <<proc, memory, item, slots, closing, reader, now, records, rows, phase, faults, crashes>>
  BY DEF Submitted, batchVars, worldVars
<1>2. JobTypes /\ StatusKnown(j) /\ AllBehind
  BY DEF JobsInv, StoreInv
<1>3. /\ \A k \in Jobs \ {j} : io'[k] = io[k]
      /\ io'[j][Main] = "idle" /\ calls' = calls /\ Queued' = Queued
      /\ \A d \in Queued : d.job = j => d.who # Main
  BY <1>1, Drops, Constants
<1>4. /\ pc'[j] \in {"created", "refused"} /\ (pc'[j] = "created" => io[j][Main] = "ok")
      /\ \A k \in Jobs \ {j} : pc'[k] = pc[k] /\ (k \in tasks' <=> k \in tasks)
      /\ tasks' \subseteq tasks
  BY <1>1, <1>2 DEF JobTypes
<1>5. \A d \in Queued : d.job # j
  BY <1>1, <1>3 DEF StoreInv, CallsFit
<1>6. OnlyJob(j)
  BY <1>1, <1>3, <1>4 DEF OnlyJob
<1>7. QueueStep(j, {})
  <2>1. SameBehind(j)
    BY <1>1, <1>4 DEF SameBehind
  <2> QED
    BY <1>2, <1>3, <2>1, QueueSame
<1>8. StatusKnown(j)'
  BY <1>1, <1>2, <1>3, <1>4 DEF StatusKnown
<1> QED
  BY <1>1, <1>3, <1>4, <1>5, <1>6, <1>7, <1>8, TaskStore DEF Over

LEMMA SubmitCancelledStore ==
  ASSUME JobsInv, StoreInv, NEW j \in Jobs, SubmitCancelled(j)
  PROVE  StoreInv'
<1>1. /\ pc[j] = "submit" /\ pc' = [pc EXCEPT ![j] = "refused"] /\ tasks' = tasks \ {j}
      /\ io' = [io EXCEPT ![j][Main] = "idle"] /\ calls' = Orphaned(j, {Main})
      /\ UNCHANGED <<proc, memory, item, slots, closing, reader, now, records, rows, phase, faults, crashes>>
  BY DEF SubmitCancelled, batchVars, worldVars
<1>2. JobTypes /\ StatusKnown(j) /\ AllBehind
  BY DEF JobsInv, StoreInv
<1>3. /\ pc'[j] = "refused"
      /\ \A k \in Jobs \ {j} : pc'[k] = pc[k] /\ io'[k] = io[k] /\ (k \in tasks' <=> k \in tasks)
      /\ tasks' \subseteq tasks
  BY <1>1, <1>2 DEF JobTypes
<1>4. QueueStep(j, {})
  <2>1. SameBehind(j)
    BY <1>1, <1>3 DEF SameBehind
  <2> QED
    BY <1>1, <1>2, <2>1, QueueCut, Constants
<1>5. OnlyJob(j)
  BY <1>1, <1>3, <1>4 DEF OnlyJob, QueueStep
<1>6. \A c \in Queued : c.job = j => c.kind \notin {"settle", "get"}
  BY <1>1, QueuedCalls DEF StoreInv, CallsFit, CallKnown
<1>7. \A c \in Queued' : c.job = j => c.kind \notin {"settle", "get"}
  BY <1>4, <1>6 DEF QueueStep, Kin
<1>8. StatusKnown(j)' /\ (\A c \in Queued : c.job = j => CallsFit(c))'
  BY <1>1, <1>2, <1>3, <1>7 DEF StatusKnown, CallsFit
<1> QED
  BY <1>1, <1>3, <1>4, <1>5, <1>7, <1>8, TaskStore DEF Over

LEMMA SubmitStore ==
  ASSUME JobsInv, StoreInv, NEW j \in Jobs, Submit(j)
  PROVE  StoreInv'
<1> DEFINE record == [status |-> "queued", done |-> 0, deadline |-> now + Timeout]
           call == SaveCall(j, Main, record)
<1>1. /\ proc = "up" /\ pc[j] = "new" /\ tasks' = tasks \cup {j} /\ memory' = [memory EXCEPT ![j] = record]
      /\ Await(j, Main, SaveCall(j, Main, record)) /\ pc' = [pc EXCEPT ![j] = "submit"]
      /\ UNCHANGED <<proc, item, slots, closing, reader, now, records, rows, phase, faults, crashes>>
  BY DEF Submit, Room, batchVars, worldVars
<1>2. JobTypes /\ JobKnown(j) /\ RowsLast(j) /\ AllBehind /\ Present(j) = {} /\ now \in Nat
  BY <1>1, UnsubmittedHasNoRows DEF JobsInv, StoreInv, JobTypes
<1>3. record \in RecordSet /\ record.deadline >= now /\ record.deadline \in Nat /\ record.status = "queued"
      /\ record.done = 0 /\ record.deadline = now + Timeout
  BY <1>2, Constants DEF RecordSet, Statuses, UNFINISHED
<1>4. /\ call \in CallSet /\ call.job = j /\ call.who = Main /\ call.kind = "save"
      /\ call.keep = Ttl + Timeout
  <2>1. Keep(record) = Ttl + Timeout
    BY <1>2, <1>3, Constants DEF Keep, Monus, UNFINISHED
  <2> QED
    BY <1>2, <1>3, <2>1, CallsMade, Constants DEF SaveCall
<1> HIDE DEF call
<1>5. \A d \in Queued : d.job # j
  BY <1>1, QueuedCalls DEF CallKnown
<1>6. io' = [io EXCEPT ![j][Main] = "pending"] /\ calls' = Append(calls, call)
  BY <1>1 DEF Await, call
<1>7. /\ io'[j][Main] = "pending" /\ pc'[j] = "submit" /\ memory'[j] = record
      /\ \A k \in Jobs \ {j} : /\ pc'[k] = pc[k] /\ io'[k] = io[k] /\ memory'[k] = memory[k]
                               /\ (k \in tasks' <=> k \in tasks)
  BY <1>1, <1>2, <1>6, Constants DEF JobTypes
<1> HIDE DEF record
<1>8. QueueStep(j, {call}) /\ Queued' = Queued \cup {call}
  <2>1. SameBehind(j)
    BY <1>5, <1>7 DEF SameBehind, Queued
  <2> QED
    BY <1>2, <1>3, <1>4, <1>5, <1>6, <1>7, <2>1, QueueNew DEF Begun, Final
<1>9. OnlyJob(j)
  BY <1>1, <1>7, <1>8 DEF OnlyJob, QueueStep
<1>10. phase[j] = "open" /\ records[j].status = "none" /\ records[j] = NoStored
  BY <1>1, <1>2, Held1 DEF RowsLast, Over, JobTypes
<1>11. RowsLast(j)'
  <2>1. Present(j)' = {}
    BY <1>1, <1>2 DEF Present
  <2>2. now <= memory'[j].deadline + Slack
    BY <1>2, <1>3, <1>7, Constants
  <2> QED
    BY <1>1, <1>2, <1>7, <1>10, <2>1, <2>2 DEF RowsLast, UNFINISHED, NoStored, Stored, NoRecord
<1>12. StatusKnown(j)'
  BY <1>1, <1>3, <1>7, <1>10 DEF StatusKnown
<1>13. (\A c \in Queued : c.job = j => WriteKnown(c) /\ CallsFit(c))'
  <2> SUFFICES ASSUME NEW c \in Queued', c.job = j
               PROVE  (WriteKnown(c) /\ CallsFit(c))'
    OBVIOUS
  <2>1. c = call
    BY <1>5, <1>8
  <2>2. now + call.keep >= memory'[j].deadline + Ttl /\ call.keep >= Ttl
    BY <1>2, <1>3, <1>4, <1>7, Constants
  <2>3. (j \in Held)'
    BY <1>1 DEF Held
  <2> QED
    BY <1>1, <1>3, <1>4, <1>7, <1>10, <2>1, <2>2, <2>3 DEF WriteKnown, CallsFit, Final
<1> QED
  BY <1>1, <1>8, <1>9, <1>11, <1>12, <1>13, Others DEF QueueStep

(* What a record saved while a job is unfinished is kept for.               *)
LEMMA KeepPays ==
  ASSUME now \in Nat, NEW r, r.deadline \in Nat, r.status \in UNFINISHED
  PROVE  Keep(r) \in Nat /\ now + Keep(r) >= r.deadline + Ttl /\ Keep(r) >= Ttl
  BY Constants DEF Keep, Monus

LEMMA RunStore ==
  ASSUME JobsInv, StoreInv, NEW j \in Jobs, Run(j)
  PROVE  StoreInv'
<1> DEFINE record == [memory[j] EXCEPT !.status = "running"]
<1>1. /\ pc[j] = "created" /\ memory' = [memory EXCEPT ![j].status = "running"]
      /\ Await(j, Main, SaveCall(j, Main, memory'[j])) /\ pc' = [pc EXCEPT ![j] = "run"]
      /\ UNCHANGED <<proc, tasks, item, slots, closing, reader, now, records, rows, phase, faults, crashes>>
  BY DEF Run, batchVars, worldVars
<1>2. JobTypes /\ JobKnown(j) /\ RowsLast(j) /\ StatusKnown(j) /\ AllBehind /\ now \in Nat
  BY DEF JobsInv, StoreInv, JobTypes
<1>3. /\ record \in RecordSet /\ record.status = "running" /\ record.deadline = memory[j].deadline
      /\ memory'[j] = record /\ \A k \in Jobs \ {j} : memory'[k] = memory[k]
  BY <1>1, <1>2 DEF JobTypes, RecordSet, Statuses, UNFINISHED
<1> HIDE DEF record
<1>4. PICK call \in CallSet :
         /\ call = SaveCall(j, Main, record) /\ call.job = j /\ call.who = Main /\ call.kind = "save"
         /\ now + call.keep >= memory'[j].deadline + Ttl /\ call.keep >= Ttl
  <2>1. SaveCall(j, Main, record).keep = Keep(record)
    BY DEF SaveCall
  <2> QED
    BY <1>2, <1>3, <2>1, CallsMade, KeepPays, Constants DEF UNFINISHED, RecordSet
<1>5. \A d \in Queued : d.job # j
  BY <1>1 DEF StoreInv, CallsFit
<1>6. io' = [io EXCEPT ![j][Main] = "pending"] /\ calls' = Append(calls, call)
  BY <1>1, <1>3, <1>4 DEF Await
<1>7. /\ io'[j][Main] = "pending" /\ pc'[j] = "run"
      /\ \A k \in Jobs \ {j} : pc'[k] = pc[k] /\ io'[k] = io[k]
  BY <1>1, <1>2, <1>6, Constants DEF JobTypes
<1>8. QueueStep(j, {call}) /\ Queued' = Queued \cup {call}
  <2>1. SameBehind(j)
    BY <1>3, <1>5, <1>7 DEF SameBehind, Queued
  <2> QED
    BY <1>2, <1>3, <1>4, <1>6, <1>7, <2>1, QueueNew DEF Begun, Final
<1>9. OnlyJob(j)
  BY <1>1, <1>3, <1>7, <1>8 DEF OnlyJob, QueueStep
<1>10. phase[j] = "open" /\ records[j].status = "queued" /\ records[j].deadline = memory[j].deadline
       /\ records[j].expire >= memory[j].deadline + Ttl
  BY <1>1, <1>2 DEF RowsLast, StatusKnown, Over, JobTypes, Due, UNFINISHED
<1>11. StatusKnown(j)'
  BY <1>1, <1>3, <1>7, <1>10 DEF StatusKnown, UNFINISHED
<1>12. WriteKnown(call)' /\ CallsFit(call)'
  <2>1. (j \in Held)'
    BY <1>1, <1>2 DEF Held, JobKnown, Unended
  <2> QED
    BY <1>1, <1>3, <1>4, <1>7, <1>10, <2>1 DEF WriteKnown, CallsFit, Final, UNFINISHED
<1>13. (\A c \in Queued : c.job = j => CallsFit(c))'
  BY <1>5, <1>8, <1>12
<1>14. \A c \in Queued' : c.job = j => c.kind = "save"
  BY <1>4, <1>5, <1>8
<1>15. memory[j].status = "queued"
  BY <1>1, <1>2 DEF StatusKnown
<1> QED
  BY <1>1, <1>3, <1>5, <1>7, <1>8, <1>9, <1>11, <1>12, <1>13, <1>14, <1>15, TaskStore DEF Over

LEMMA RunningStore ==
  ASSUME JobsInv, StoreInv, NEW j \in Jobs, Running(j)
  PROVE  StoreInv'
<1>1. /\ pc[j] = "run" /\ io[j][Main] \in {"ok", "error"} /\ Drop(j, Main)
      /\ \/ io[j][Main] = "ok" /\ pc' = [pc EXCEPT ![j] = "batch"] /\ tasks' = tasks
            /\ item' = [item EXCEPT ![j] = [u \in Urls |-> "queued"]]
         \/ pc' = [pc EXCEPT ![j] = "end"] /\ tasks' = tasks \ {j} /\ item' = item
      /\ UNCHANGED <<proc, memory, slots, closing, reader, now, records, rows, phase, faults, crashes>>
  BY DEF Running, batchVars, worldVars
<1>2. JobTypes /\ StatusKnown(j) /\ AllBehind
  BY DEF JobsInv, StoreInv
<1>3. /\ \A k \in Jobs \ {j} : io'[k] = io[k]
      /\ io'[j][Main] = "idle" /\ calls' = calls /\ Queued' = Queued
      /\ \A d \in Queued : d.job = j => d.who # Main
  BY <1>1, Drops, Constants
<1>4. /\ pc'[j] \in {"batch", "end"} /\ (pc'[j] = "batch" => io[j][Main] = "ok")
      /\ \A k \in Jobs \ {j} : pc'[k] = pc[k] /\ item'[k] = item[k] /\ (k \in tasks' <=> k \in tasks)
      /\ tasks' \subseteq tasks
  BY <1>1, <1>2 DEF JobTypes
<1>5. \A d \in Queued : d.job # j
  BY <1>1, <1>3 DEF StoreInv, CallsFit
<1>6. OnlyJob(j)
  BY <1>1, <1>3, <1>4 DEF OnlyJob
<1>7. QueueStep(j, {})
  <2>1. SameBehind(j)
    BY <1>1, <1>4 DEF SameBehind
  <2> QED
    BY <1>2, <1>3, <2>1, QueueSame
<1>8. memory[j].status = "running"
  BY <1>1, <1>2 DEF StatusKnown
<1>9. StatusKnown(j)'
  BY <1>1, <1>2, <1>4, <1>8 DEF StatusKnown
<1> QED
  BY <1>1, <1>3, <1>4, <1>5, <1>6, <1>7, <1>8, <1>9, TaskStore DEF Over

-----------------------------------------------------------------------------
(* While the batch runs the record says so and nothing is settled.          *)
LEMMA BatchFacts ==
  ASSUME JobsInv, StoreInv, NEW j \in Jobs, pc[j] = "batch"
  PROVE  /\ memory[j].status = "running" /\ records[j].status = "running" /\ phase[j] = "open"
         /\ records[j].expire >= memory[j].deadline + Ttl /\ j \in tasks /\ io[j][Main] = "idle"
         /\ \A c \in Queued : c.job = j => c.kind \in {"save", "row"}
<1>1. RowsLast(j) /\ StatusKnown(j) /\ JobKnown(j) /\ JobTypes
  BY DEF StoreInv, JobsInv
<1>2. ASSUME NEW c \in Queued, c.job = j
      PROVE  c.kind \in {"save", "row"}
  <2>1. CallKnown(c) /\ CallsFit(c) /\ c.kind \in {"save", "row", "settle", "get"}
    BY QueuedCalls, CallParts DEF StoreInv
  <2> QED
    BY <1>2, <2>1 DEF CallKnown, CallsFit
<1> QED
  BY <1>1, <1>2, Constants DEF RowsLast, StatusKnown, JobKnown, JobTypes, Over, Unended, Due, UNFINISHED

LEMMA BatchStore ==
  ASSUME JobsInv, StoreInv, NEW j \in Jobs, pc[j] = "batch", OnlyJob(j), NEW N, QueueStep(j, N),
         UNCHANGED <<tasks, pc, closing, now, records, rows, phase>>,
         memory'[j].deadline = memory[j].deadline, memory'[j].status = memory[j].status,
         \A c \in N : c.kind \in {"save", "row"} /\ WriteKnown(c)'
  PROVE  StoreInv'
<1>1. /\ memory[j].status = "running" /\ records[j].status = "running" /\ j \in tasks
      /\ \A c \in Queued : c.job = j => c.kind \in {"save", "row"}
  BY BatchFacts
<1>2. \A c \in Queued' : c.job = j => c.kind \in {"save", "row"}
  BY <1>1 DEF QueueStep, Kin
<1>3. StatusKnown(j)'
  BY <1>1 DEF StatusKnown
<1>4. \A c \in N : c.job = j => CallsFit(c)'
  BY DEF CallsFit
<1>5. (\A c \in Queued : c.job = j => CallsFit(c))'
  BY <1>2 DEF CallsFit
<1>6. QueueStep(j, {c \in N : c.job = j})
  BY DEF QueueStep
<1> HIDE DEF QueueStep
<1> DEFINE M == {c \in N : c.job = j}
<1>7. \A c \in M : WriteKnown(c)' /\ CallsFit(c)'
  BY <1>4
<1>8. QueueStep(j, M)
  BY <1>6
<1> HIDE DEF M
<1> QED
  BY <1>1, <1>2, <1>3, <1>5, <1>7, <1>8, TaskStore DEF Over

(* The batch moves on without a storage call.                               *)
LEMMA ItemStore ==
  ASSUME JobsInv, StoreInv, NEW j \in Jobs, NEW u \in Urls, Acquire(j, u) \/ CrawlEnds(j, u) \/ QueueExpires(j, u)
  PROVE  StoreInv'
<1>1. /\ item[j][u] \in {"queued", "crawl"}
      /\ UNCHANGED <<proc, tasks, pc, memory, io, calls, closing, reader, now, records, rows, phase, faults, crashes>>
      /\ \A k \in Jobs \ {j} : item'[k] = item[k] /\ slots'[k] = slots[k]
  BY DEF Acquire, CrawlEnds, QueueExpires, ioVars, worldVars, JobsInv, JobTypes
<1>2. pc[j] = "batch" /\ AllBehind
  BY <1>1, OnlyInBatch DEF StoreInv
<1>3. SameBehind(j)
  BY <1>1 DEF SameBehind
<1>4. QueueStep(j, {}) /\ Queued' = Queued
  BY <1>1, <1>2, <1>3, QueueSame
<1>5. OnlyJob(j)
  BY <1>1, <1>4 DEF OnlyJob
<1> QED
  BY <1>1, <1>2, <1>4, <1>5, BatchStore

LEMMA WriteRowStore ==
  ASSUME JobsInv, StoreInv, NEW j \in Jobs, NEW u \in Urls, WriteRow(j, u)
  PROVE  StoreInv'
<1>1. /\ item[j][u] = "lock" /\ item' = [item EXCEPT ![j][u] = "write"]
      /\ Await(j, u, RowCall(j, u, memory[j].done))
      /\ UNCHANGED <<proc, tasks, pc, memory, slots, closing, reader, now, records, rows, phase, faults, crashes>>
  BY DEF WriteRow, worldVars
<1>2. JobTypes /\ AllBehind /\ memory[j].done \in Seqs /\ memory[j].deadline \in Nat /\ now \in Nat
  BY Held1 DEF JobsInv, StoreInv
<1>3. pc[j] = "batch"
  BY <1>1, OnlyInBatch
<1>4. /\ memory[j].status = "running" /\ records[j].status = "running" /\ phase[j] = "open"
      /\ records[j].expire >= memory[j].deadline + Ttl /\ j \in tasks
  BY <1>3, BatchFacts
<1>5. PICK c \in CallSet : /\ c = RowCall(j, u, memory[j].done) /\ c.job = j /\ c.kind = "row"
                           /\ now + c.keep >= memory[j].deadline + Ttl
  <2>1. RowCall(j, u, memory[j].done).keep = Keep(memory[j])
    BY DEF RowCall
  <2>2. now + Keep(memory[j]) >= memory[j].deadline + Ttl
    BY <1>2, <1>4, KeepPays DEF UNFINISHED
  <2> DEFINE n == memory[j].done
  <2>3. n \in Seqs
    BY <1>2
  <2>4. now + RowCall(j, u, n).keep >= memory[j].deadline + Ttl
    BY <2>1, <2>2
  <2> HIDE DEF n
  <2>5. RowCall(j, u, n) \in CallSet /\ RowCall(j, u, n).job = j /\ RowCall(j, u, n).kind = "row"
    BY <1>2, <2>3, CallsMade
  <2> QED
    BY <2>4, <2>5 DEF n
<1>6. /\ calls' = Append(calls, c) /\ \A k \in Jobs \ {j} : item'[k] = item[k] /\ io'[k] = io[k]
  BY <1>1, <1>2, <1>5 DEF Await, JobTypes
<1>7. SameBehind(j)
  BY <1>1 DEF SameBehind
<1>8. QueueStep(j, {c})
  BY <1>1, <1>2, <1>3, <1>4, <1>5, <1>6, <1>7, QueueNew DEF Begun, Final
<1>9. OnlyJob(j)
  BY <1>1, <1>6, <1>8 DEF OnlyJob, QueueStep
<1>10. WriteKnown(c)'
  <2>1. (j \in Held)'
    BY <1>1, <1>4 DEF Held
  <2> QED
    BY <1>1, <1>4, <1>5, <2>1 DEF WriteKnown
<1> QED
  BY <1>1, <1>3, <1>5, <1>8, <1>9, <1>10, BatchStore

LEMMA RowWrittenStore ==
  ASSUME JobsInv, StoreInv, NEW j \in Jobs, NEW u \in Urls, RowWritten(j, u)
  PROVE  StoreInv'
<1>1. /\ item[j][u] = "write" /\ io[j][u] \in {"ok", "error"}
      /\ \/ Drop(j, u) /\ (memory' = memory \/ memory' = [memory EXCEPT ![j] = Counted(@)])
         \/ Await(j, u, SaveCall(j, u, memory'[j])) /\ memory' = [memory EXCEPT ![j] = Counted(@)]
      /\ \A k \in Jobs \ {j} : item'[k] = item[k] /\ slots'[k] = slots[k]
      /\ UNCHANGED <<proc, tasks, pc, closing, reader, now, records, rows, phase, faults, crashes>>
  BY DEF RowWritten, worldVars, Release, JobsInv, JobTypes
<1>2. JobTypes /\ AllBehind /\ memory[j] \in RecordSet /\ memory[j].deadline \in Nat /\ now \in Nat /\ u \in Waiters
  BY Held1, Constants DEF JobsInv, StoreInv
<1>3. pc[j] = "batch"
  BY <1>1, OnlyInBatch
<1>4. /\ memory[j].status = "running" /\ records[j].status = "running" /\ phase[j] = "open"
      /\ records[j].expire >= memory[j].deadline + Ttl /\ j \in tasks
  BY <1>3, BatchFacts
<1>5. /\ memory'[j].deadline = memory[j].deadline /\ memory'[j].status = memory[j].status
      /\ \A k \in Jobs \ {j} : memory'[k] = memory[k]
  BY <1>1, <1>2 DEF Counted, RecordSet, JobTypes
<1>6. SameBehind(j)
  BY <1>1, <1>5 DEF SameBehind
<1>7. CASE Drop(j, u)
  <2>1. calls' = calls /\ \A k \in Jobs \ {j} : io'[k] = io[k]
    BY <1>1, <1>2, <1>7, Drops
  <2>2. QueueStep(j, {})
    BY <1>2, <1>6, <2>1, QueueSame
  <2>3. OnlyJob(j)
    BY <1>1, <1>5, <2>1, <2>2 DEF OnlyJob, QueueStep
  <2> QED
    BY <1>1, <1>3, <1>5, <2>2, <2>3, BatchStore
<1>8. CASE Await(j, u, SaveCall(j, u, memory'[j]))
  <2>1. PICK c \in CallSet : /\ c = SaveCall(j, u, memory'[j]) /\ c.job = j /\ c.kind = "save"
                             /\ now + c.keep >= memory[j].deadline + Ttl /\ c.keep >= Ttl
    <3> DEFINE r == memory'[j]
    <3>1. r.deadline = memory[j].deadline /\ r.status = "running"
      BY <1>4, <1>5
    <3> HIDE DEF r
    <3>2. Keep(r) \in Nat /\ now + Keep(r) >= memory[j].deadline + Ttl /\ Keep(r) >= Ttl
      BY <1>2, <3>1, KeepPays DEF UNFINISHED
    <3>3. /\ SaveCall(j, u, r).job = j /\ SaveCall(j, u, r).kind = "save" /\ SaveCall(j, u, r).keep = Keep(r)
          /\ SaveCall(j, u, r) \in CallSet
      BY <1>2, <3>2 DEF SaveCall, CallSet, SaveCalls
    <3> QED
      BY <3>2, <3>3 DEF r
  <2>2. calls' = Append(calls, c) /\ \A k \in Jobs \ {j} : io'[k] = io[k]
    BY <1>2, <1>8, <2>1 DEF Await, JobTypes
  <2>3. QueueStep(j, {c})
    BY <1>1, <1>2, <1>3, <1>4, <1>5, <1>6, <2>1, <2>2, QueueNew DEF Begun, Final
  <2>4. OnlyJob(j)
    BY <1>1, <1>5, <2>2, <2>3 DEF OnlyJob, QueueStep
  <2>5. WriteKnown(c)'
    <3>1. (j \in Held)'
      BY <1>1, <1>4 DEF Held
    <3> QED
      BY <1>1, <1>4, <1>5, <2>1, <3>1 DEF WriteKnown, UNFINISHED, Final
  <2> QED
    BY <1>1, <1>3, <1>5, <2>1, <2>3, <2>4, <2>5, BatchStore
<1> QED
  BY <1>1, <1>7, <1>8

LEMMA ProgressSavedStore ==
  ASSUME JobsInv, StoreInv, NEW j \in Jobs, NEW u \in Urls, ProgressSaved(j, u)
  PROVE  StoreInv'
<1>1. /\ item[j][u] = "save" /\ io[j][u] \in {"ok", "error"} /\ Drop(j, u)
      /\ \A k \in Jobs \ {j} : item'[k] = item[k] /\ slots'[k] = slots[k]
      /\ UNCHANGED <<proc, tasks, pc, memory, closing, reader, now, records, rows, phase, faults, crashes>>
  BY DEF ProgressSaved, worldVars, Release, JobsInv, JobTypes
<1>2. pc[j] = "batch" /\ AllBehind /\ u \in Waiters
  BY <1>1, OnlyInBatch, Constants DEF StoreInv
<1>3. calls' = calls /\ \A k \in Jobs \ {j} : io'[k] = io[k]
  BY <1>1, <1>2, Drops
<1>4. SameBehind(j)
  BY <1>1 DEF SameBehind
<1>5. QueueStep(j, {})
  BY <1>2, <1>3, <1>4, QueueSame
<1>6. OnlyJob(j)
  BY <1>1, <1>3, <1>5 DEF OnlyJob, QueueStep
<1> QED
  BY <1>1, <1>2, <1>5, <1>6, BatchStore

LEMMA GroupAbortsStore ==
  ASSUME JobsInv, StoreInv, NEW j \in Jobs, GroupAborts(j)
  PROVE  StoreInv'
<1>1. /\ pc[j] = "batch" /\ calls' = Orphaned(j, Waiters)
      /\ \A k \in Jobs \ {j} : item'[k] = item[k] /\ slots'[k] = slots[k] /\ io'[k] = io[k]
      /\ UNCHANGED <<proc, tasks, pc, memory, closing, reader, now, records, rows, phase, faults, crashes>>
  BY DEF GroupAborts, CancelItems, worldVars, JobsInv, JobTypes
<1>2. AllBehind /\ Nobody \notin Waiters
  BY Constants DEF StoreInv
<1>3. SameBehind(j)
  BY <1>1 DEF SameBehind
<1>4. QueueStep(j, {})
  BY <1>1, <1>2, <1>3, QueueCut
<1>5. OnlyJob(j)
  BY <1>1, <1>4 DEF OnlyJob, QueueStep
<1> QED
  BY <1>1, <1>4, <1>5, BatchStore

-----------------------------------------------------------------------------
(* _settle: the calls still in the queue were orphaned when a delivery      *)
(* failed, and of those only the one being worked on is left.               *)
LEMMA LastCall ==
  ASSUME JobsInv, NEW j \in Jobs, pc[j] \in {"batch", "stopping"}, BatchOver(j), CancelsDelivered(j)
  PROVE  \A i, k \in 1..Len(calls) : i < k => calls[k].job # j
<1> SUFFICES ASSUME NEW i \in 1..Len(calls), NEW k \in 1..Len(calls), i < k, calls[k].job = j
             PROVE  FALSE
  OBVIOUS
<1>1. calls[k] \in Queued /\ k \in 2..Len(calls)
  BY DEF Queued, JobsInv, JobTypes
<1>2. calls[k].who # Nobody
  BY <1>1 DEF CancelsDelivered
<1>3. CallKnown(calls[k]) /\ calls[k].who \in Waiters \cup {Nobody}
  BY <1>1, QueuedCalls, CallParts
<1>4. io[j][calls[k].who] = "pending" /\ calls[k].who \in Urls \cup {Main}
  BY <1>2, <1>3, Constants DEF CallKnown
<1>5. JobKnown(j)
  BY DEF JobsInv
<1> QED
  BY <1>4, <1>5 DEF JobKnown, BatchOver, Ended

LEMMA BatchEndsStore ==
  ASSUME JobsInv, StoreInv, NEW j \in Jobs, BatchEnds(j)
  PROVE  StoreInv'
<1> DEFINE outcome == IF \A u \in Urls : item[j][u] = "done" THEN "done" ELSE "failed"
<1>1. /\ pc[j] \in {"batch", "stopping"} /\ BatchOver(j) /\ CancelsDelivered(j)
      /\ memory' = [memory EXCEPT ![j].status = outcome]
      /\ Await(j, Main, SettleCall(j, memory'[j])) /\ Phase(j, "settling")
      /\ pc' = [pc EXCEPT ![j] = "settle"]
      /\ UNCHANGED <<proc, tasks, item, slots, closing, reader, now, records, rows, faults, crashes>>
  BY DEF BatchEnds, batchVars
<1>2. /\ JobTypes /\ RowsLast(j) /\ StatusKnown(j) /\ JobKnown(j) /\ RowsKnown(j) /\ AllBehind /\ j \in tasks
      /\ memory[j] \in RecordSet /\ memory[j].deadline \in Nat /\ now \in Nat /\ Present(j) \subseteq Seqs
      /\ memory[j].done \in Seqs
  BY <1>1, Held1 DEF JobsInv, StoreInv, JobKnown, Unended
<1>3. /\ memory'[j] \in RecordSet /\ memory'[j].status = outcome /\ memory'[j].done = memory[j].done
      /\ memory'[j].deadline = memory[j].deadline /\ \A k \in Jobs \ {j} : memory'[k] = memory[k]
      /\ outcome \in {"done", "failed"} /\ (outcome = "done" => \A u \in Urls : item[j][u] = "done")
  BY <1>1, <1>2 DEF JobTypes, RecordSet, Statuses, Final
<1> HIDE DEF outcome
<1>4. /\ records[j].status = "running" /\ phase[j] = "open" /\ records[j].deadline = memory[j].deadline
      /\ records[j].expire >= memory[j].deadline + Ttl
      /\ \A n \in Present(j) : rows[j][n].expire >= memory[j].deadline + Ttl
  BY <1>1, <1>2 DEF RowsLast, StatusKnown, Over, JobTypes, Due, UNFINISHED
<1>5. phase'[j] = "settling" /\ \A k \in Jobs \ {j} : phase'[k] = phase[k]
  BY <1>1, <1>2, <1>4 DEF Phase, JobTypes
<1>6. PICK c \in CallSet : /\ c = SettleCall(j, memory'[j]) /\ c.job = j /\ c.kind = "settle" /\ c.who = Main
                           /\ c.rec.status = outcome /\ c.rec.done = memory[j].done
                           /\ c.rec.deadline = memory[j].deadline /\ c.at = 0
  <2> DEFINE r == memory'[j]
  <2>1. r \in RecordSet /\ r.status = outcome /\ r.done = memory[j].done /\ r.deadline = memory[j].deadline
    BY <1>3
  <2> HIDE DEF r
  <2>2. /\ SettleCall(j, r) \in CallSet /\ SettleCall(j, r).job = j /\ SettleCall(j, r).kind = "settle"
        /\ SettleCall(j, r).who = Main /\ SettleCall(j, r).rec = r /\ SettleCall(j, r).at = 0
    BY <1>2, <2>1, CallsMade
  <2> QED
    BY <2>1, <2>2 DEF r
<1>7. /\ calls' = Append(calls, c) /\ io'[j][Main] = "pending" /\ pc'[j] = "settle"
      /\ \A k \in Jobs \ {j} : io'[k] = io[k] /\ pc'[k] = pc[k]
  BY <1>1, <1>2, <1>6, Constants DEF Await, JobTypes
<1>8. SameBehind(j)
  BY <1>1, <1>3, <1>7, LastCall DEF SameBehind
<1>9. QueueStep(j, {c}) /\ Queued' = Queued \cup {c}
  <2>1. ~Begun(c) /\ c.kind \in {"settle", "get"}
    BY <1>6 DEF Begun
  <2>2. calls' = Append(calls, c) /\ c.job = j /\ pc'[j] \notin {"submit", "refused"}
    BY <1>6, <1>7
  <2> QED
    BY <1>2, <1>8, <2>1, <2>2, QueueNew
<1>10. OnlyJob(j)
  BY <1>1, <1>3, <1>5, <1>7, <1>9 DEF OnlyJob, QueueStep
<1>11. Present(j)' = Present(j) /\ Due(j)' = memory[j].deadline
  BY <1>1, <1>3, <1>7 DEF Present, Due
<1>12. RowsLast(j)'
  <2>1. \E d \in Queued' : d.job = j /\ d.kind = "settle"
    BY <1>6, <1>9
  <2>2. (j \in Held)' => j \in Held
    BY <1>1 DEF Held
  <2> QED
    BY <1>1, <1>2, <1>3, <1>4, <1>5, <1>7, <1>11, <2>1, <2>2 DEF RowsLast, Over, UNFINISHED
<1>13. StatusKnown(j)'
  BY <1>1, <1>3, <1>4, <1>7 DEF StatusKnown, Final
<1>14. (j \in Held)'
  BY <1>1, <1>2 DEF Held
<1>15. ASSUME NEW d \in Queued, d.job = j
       PROVE  (WriteKnown(d) /\ CallsFit(d))'
  <2>1. d.kind \in {"save", "row"}
    <3>1. CallKnown(d) /\ CallsFit(d) /\ d.kind \in {"save", "row", "settle", "get"}
      BY QueuedCalls, CallParts DEF StoreInv
    <3> QED
      BY <1>1, <1>15, <3>1 DEF CallKnown, CallsFit
  <2>2. WriteKnown(d)
    BY DEF StoreInv
  <2>3. WriteKnown(d)'
    BY <1>1, <1>3, <1>4, <1>5, <1>14, <1>15, <2>1, <2>2 DEF WriteKnown, Final, UNFINISHED
  <2>4. CallsFit(d)'
    BY <1>7, <1>15, <2>1 DEF CallsFit
  <2> QED
    BY <2>3, <2>4
<1>16. (WriteKnown(c) /\ CallsFit(c))'
  <2>1. \A n \in Seqs : n < c.rec.done => n \in Present(j)
    <3> DEFINE d == memory[j].done
    <3>1. (Present(j) = 0..(d - 1) \/ Present(j) = 0..d) /\ d \in Nat /\ c.rec.done = d
      BY <1>1, <1>2, <1>6, Constants DEF RowsKnown
    <3> HIDE DEF d
    <3>2. \A n \in Nat : n < d => n \in Present(j)
      BY <3>1
    <3> QED
      BY <3>1, <3>2, Constants
  <2>2. \A n \in Present(j) : ~(n < c.at)
    <3>1. Present(j) \subseteq Nat
      BY <1>2, Constants
    <3> QED
      BY <1>6, <3>1
  <2>3. (\A n \in Seqs : n < c.rec.done => n \in Present(j))'
    BY <1>11, <2>1
  <2>4. (\A n \in Present(j) : IF n < c.at THEN rows[j][n].expire = c.until
                               ELSE rows[j][n].expire >= memory[j].deadline + Ttl)'
    BY <1>1, <1>3, <1>4, <1>11, <2>2
  <2>5. WriteKnown(c)'
    BY <1>1, <1>3, <1>4, <1>5, <1>6, <1>7, <1>14, <2>3, <2>4 DEF WriteKnown, Final
  <2> QED
    BY <1>6, <1>7, <2>5 DEF CallsFit
<1>17. (\A d \in Queued : d.job = j => WriteKnown(d) /\ CallsFit(d))'
  BY <1>9, <1>15, <1>16
<1> QED
  BY <1>1, <1>9, <1>10, <1>12, <1>13, <1>17, Others DEF QueueStep

LEMMA SettledStore ==
  ASSUME JobsInv, StoreInv, NEW j \in Jobs, Settled(j)
  PROVE  StoreInv'
<1>1. /\ pc[j] = "settle" /\ io[j][Main] \in {"ok", "error"} /\ Drop(j, Main)
      /\ pc' = [pc EXCEPT ![j] = "end"] /\ tasks' = tasks \ {j}
      /\ UNCHANGED <<proc, memory, item, slots, closing, reader, now, records, rows, phase, faults, crashes>>
  BY DEF Settled, batchVars, worldVars
<1>2. JobTypes /\ StatusKnown(j) /\ AllBehind
  BY DEF JobsInv, StoreInv
<1>3. calls' = calls /\ Queued' = Queued /\ \A k \in Jobs \ {j} : io'[k] = io[k]
  BY <1>1, Drops, Constants
<1>4. /\ pc'[j] = "end" /\ \A k \in Jobs \ {j} : pc'[k] = pc[k] /\ (k \in tasks' <=> k \in tasks)
      /\ tasks' \subseteq tasks
  BY <1>1, <1>2 DEF JobTypes
<1>5. \A d \in Queued : d.job # j
  BY <1>1 DEF StoreInv, CallsFit
<1>6. SameBehind(j)
  BY <1>1, <1>4 DEF SameBehind
<1>7. QueueStep(j, {})
  BY <1>2, <1>3, <1>6, QueueSame
<1>8. OnlyJob(j)
  BY <1>1, <1>3, <1>4 DEF OnlyJob
<1>9. StatusKnown(j)'
  BY <1>1, <1>2, <1>4 DEF StatusKnown
<1> QED
  BY <1>1, <1>3, <1>4, <1>5, <1>7, <1>8, <1>9, TaskStore DEF Over

LEMMA BatchCancelledStore ==
  ASSUME JobsInv, StoreInv, NEW j \in Jobs, BatchCancelled(j)
  PROVE  StoreInv'
<1>1. /\ pc[j] = "stopping" /\ pc' = [pc EXCEPT ![j] = "end"] /\ tasks' = tasks \ {j}
      /\ UNCHANGED <<proc, memory, item, slots, io, calls, closing, reader, now, records, rows, phase, faults, crashes>>
  BY DEF BatchCancelled, batchVars, ioVars, worldVars
<1>2. JobTypes /\ StatusKnown(j) /\ AllBehind /\ j \in closing.left
  BY <1>1 DEF JobsInv, StoreInv, StatusKnown
<1>3. Queued' = Queued
  BY <1>1 DEF Queued
<1>4. /\ pc'[j] = "end" /\ \A k \in Jobs \ {j} : pc'[k] = pc[k] /\ (k \in tasks' <=> k \in tasks)
      /\ tasks' \subseteq tasks
  BY <1>1, <1>2 DEF JobTypes
<1>5. \A c \in Queued : c.job = j => CallsFit(c)'
  BY <1>1, <1>4 DEF StoreInv, CallsFit
<1>6. SameBehind(j)
  BY <1>1, <1>4 DEF SameBehind
<1>7. QueueStep(j, {})
  BY <1>1, <1>2, <1>6, QueueSame
<1>8. OnlyJob(j)
  BY <1>1, <1>3, <1>4 DEF OnlyJob
<1>9. StatusKnown(j)'
  BY <1>1, <1>2, <1>4 DEF StatusKnown
<1> QED
  BY <1>1, <1>2, <1>3, <1>4, <1>5, <1>7, <1>8, <1>9, TaskStore DEF Over

-----------------------------------------------------------------------------
(* close() finds each record alone: its task has ended and the queue is     *)
(* empty by the time an answer is looked at.                                *)
LEMMA CloseReadsStore ==
  ASSUME JobsInv, StoreInv, NEW j \in Jobs, CloseReads(j)
  PROVE  StoreInv'
<1>1. /\ proc = "closing" /\ tasks = {} /\ j \in closing.left /\ io[j][Main] = "idle"
      /\ Await(j, Main, GetCall(j)) /\ pc' = [pc EXCEPT ![j] = "reading"]
      /\ UNCHANGED <<proc, tasks, memory, item, slots, closing, reader, now, records, rows, phase, faults, crashes>>
  BY DEF CloseReads, batchVars, worldVars
<1>2. JobTypes /\ JobKnown(j) /\ StatusKnown(j) /\ AllBehind /\ CloseKnown
  BY DEF JobsInv, StoreInv
<1>3. pc[j] = "end"
  BY <1>1, <1>2 DEF CloseKnown, JobKnown, JobTypes, Unended, AtClose
<1>4. PICK c \in CallSet : c = GetCall(j) /\ c.job = j /\ c.who = Main /\ c.kind = "get"
  <2>1. GetCall(j) \in CallSet /\ GetCall(j).job = j /\ GetCall(j).who = Main /\ GetCall(j).kind = "get"
    BY <1>2, CallsMade
  <2> QED
    BY <2>1
<1>5. /\ calls' = Append(calls, c) /\ io'[j][Main] = "pending" /\ pc'[j] = "reading"
      /\ \A k \in Jobs \ {j} : io'[k] = io[k] /\ pc'[k] = pc[k]
  BY <1>1, <1>2, <1>4, Constants DEF Await, JobTypes
<1>6. SameBehind(j)
  BY <1>1, <1>5 DEF SameBehind
<1>7. QueueStep(j, {c}) /\ Queued' = Queued \cup {c}
  <2>1. ~Begun(c)
    BY <1>4 DEF Begun
  <2> QED
    BY <1>2, <1>4, <1>5, <1>6, <2>1, QueueNew
<1>8. OnlyJob(j)
  BY <1>1, <1>5, <1>7 DEF OnlyJob, QueueStep
<1>9. StatusKnown(j)'
  BY <1>1, <1>2, <1>3, <1>5 DEF StatusKnown
<1>10. WriteKnown(c)' /\ CallsFit(c)'
  BY <1>4, <1>5 DEF WriteKnown, CallsFit
<1>11. (\A d \in Queued : d.job = j => CallsFit(d))'
  <2> SUFFICES ASSUME NEW d \in Queued', d.job = j
               PROVE  CallsFit(d)'
    OBVIOUS
  <2>1. CASE d = c
    BY <1>10, <2>1
  <2>2. CASE d \in Queued
    <3>1. CallsFit(d)
      BY <2>2 DEF StoreInv
    <3> QED
      BY <1>5, <3>1 DEF CallsFit
  <2> QED
    BY <1>7, <2>1, <2>2
<1> QED
  BY <1>1, <1>3, <1>5, <1>7, <1>8, <1>9, <1>10, <1>11, TaskStore DEF Over

(* ... and then moves on.                                                   *)
LEMMA CloseMoves ==
  ASSUME JobsInv, StoreInv, NEW j \in Jobs, pc[j] \in AtClose, io[j][Main] \in {"ok", "error"}, Drop(j, Main),
         pc' = [pc EXCEPT ![j] = "end"], closing'.left \subseteq closing.left,
         UNCHANGED <<tasks, memory, item, slots, now, records, rows, phase>>
  PROVE  StoreInv'
<1>1. JobTypes /\ RowsLast(j) /\ StatusKnown(j) /\ AllBehind /\ CloseKnown
  BY DEF JobsInv, StoreInv
<1>2. /\ calls = <<>> /\ tasks = {} /\ \A k \in Jobs \ {j} : pc[k] # "reading"
  BY <1>1 DEF CloseKnown, AtClose
<1>3. calls' = calls /\ Queued' = Queued /\ \A k \in Jobs \ {j} : io'[k] = io[k]
  BY Drops, Constants
<1>4. pc'[j] = "end" /\ \A k \in Jobs \ {j} : pc'[k] = pc[k]
  BY <1>1 DEF JobTypes
<1>5. Queued = {} /\ Len(calls) = 0
  BY <1>2 DEF Queued
<1>6. OnlyJob(j)
  BY <1>3, <1>4 DEF OnlyJob
<1>7. AllBehind'
  BY <1>3, <1>5 DEF AllBehind
<1>8. RowsLast(j)'
  <2>1. Present(j)' = Present(j) /\ Due(j)' = Due(j) /\ phase[j] # "settling"
    BY <1>1, <1>4, <1>5 DEF RowsLast, Present, Due, AtClose
  <2>2. (j \in Held)' => j \in Held
    BY DEF Held
  <2> QED
    BY <1>1, <1>4, <2>1, <2>2 DEF RowsLast, Over, AtClose
<1>9. StatusKnown(j)'
  BY <1>1, <1>4 DEF StatusKnown, AtClose
<1> QED
  BY <1>2, <1>3, <1>5, <1>6, <1>7, <1>8, <1>9, Others

LEMMA CloseSettledStore ==
  ASSUME JobsInv, StoreInv, NEW j \in Jobs, CloseSettled(j)
  PROVE  StoreInv'
<1>1. /\ pc[j] = "marking" /\ io[j][Main] \in {"ok", "error"} /\ Drop(j, Main) /\ pc' = [pc EXCEPT ![j] = "end"]
      /\ closing'.left \subseteq closing.left
      /\ UNCHANGED <<proc, tasks, memory, item, slots, reader, now, records, rows, phase, faults, crashes>>
  BY DEF CloseSettled, batchVars, storeVars
<1> QED
  BY <1>1, CloseMoves DEF AtClose

LEMMA CloseReadStore ==
  ASSUME JobsInv, StoreInv, NEW j \in Jobs, CloseRead(j)
  PROVE  StoreInv'
<1>1. /\ pc[j] = "reading" /\ io[j][Main] \in {"ok", "error"}
      /\ UNCHANGED <<proc, tasks, memory, item, slots, reader, now, records, rows, faults, crashes>>
  BY DEF CloseRead, batchVars
<1>2. CASE ~(io[j][Main] = "ok" /\ closing.got.status \in UNFINISHED)
  <2>1. /\ Drop(j, Main) /\ pc' = [pc EXCEPT ![j] = "end"] /\ closing'.left \subseteq closing.left /\ phase' = phase
    BY <1>2 DEF CloseRead
  <2> QED
    BY <1>1, <2>1, CloseMoves DEF AtClose
<1>3. CASE io[j][Main] = "ok" /\ closing.got.status \in UNFINISHED
  <2> DEFINE rec == [closing.got EXCEPT !.status = "failed"]
  <2>1. /\ Await(j, Main, SettleCall(j, rec)) /\ Phase(j, "settling")
        /\ pc' = [pc EXCEPT ![j] = "marking"] /\ closing' = closing
    BY <1>3 DEF CloseRead
  <2>2. /\ JobTypes /\ RowsLast(j) /\ StatusKnown(j) /\ JobKnown(j) /\ AllBehind /\ CloseKnown
        /\ Present(j) \subseteq Seqs /\ closing.got \in RecordSet
    BY Held1 DEF JobsInv, StoreInv, JobTypes
  <2>3. calls = <<>> /\ j \in closing.left /\ tasks = {} /\ Queued = {} /\ Len(calls) = 0
    BY <1>1, <2>2 DEF CloseKnown, AtClose, Queued
  <2>4. closing.got = Fields(records[j]) /\ records[j].status \in UNFINISHED
    <3>1. closing.got # NoRecord
      BY <1>3 DEF NoRecord, UNFINISHED
    <3>2. closing.got = Fields(records[j])
      BY <1>1, <1>3, <2>2, <3>1 DEF RowsLast
    <3> QED
      BY <1>3, <3>2 DEF Fields
  <2>5. /\ rec \in RecordSet /\ rec.status = "failed" /\ rec.deadline = records[j].deadline
        /\ rec.done = records[j].done
    BY <2>2, <2>4 DEF Fields, RecordSet, Statuses, Final
  <2> HIDE DEF rec
  <2>6. PICK c \in CallSet : /\ c = SettleCall(j, rec) /\ c.job = j /\ c.kind = "settle" /\ c.who = Main
                             /\ c.rec.status = "failed" /\ c.rec.done = records[j].done
                             /\ c.rec.deadline = records[j].deadline /\ c.at = 0
    <3>1. /\ SettleCall(j, rec) \in CallSet /\ SettleCall(j, rec).job = j /\ SettleCall(j, rec).kind = "settle"
          /\ SettleCall(j, rec).who = Main /\ SettleCall(j, rec).rec = rec /\ SettleCall(j, rec).at = 0
      BY <2>2, <2>5, CallsMade
    <3> QED
      BY <2>5, <3>1
  <2>7. /\ calls' = Append(calls, c) /\ io'[j][Main] = "pending" /\ pc'[j] = "marking"
        /\ \A k \in Jobs \ {j} : io'[k] = io[k] /\ pc'[k] = pc[k]
    BY <2>1, <2>2, <2>6, Constants DEF Await, JobTypes
  <2>8. QueueStep(j, {c}) /\ Queued' = {c}
    <3>1. SameBehind(j)
      BY <1>1, <2>7 DEF SameBehind
    <3>2. ~Begun(c)
      BY <2>6 DEF Begun
    <3> QED
      BY <2>2, <2>3, <2>6, <2>7, <3>1, <3>2, QueueNew
  <2>9. /\ phase[j] \in {"open", "cut"} /\ phase'[j] = IF phase[j] = "cut" THEN "cut" ELSE "settling"
        /\ \A k \in Jobs \ {j} : phase'[k] = phase[k]
    <3>1. phase[j] # "settling" /\ phase[j] # "settled"
      BY <2>2, <2>3, <2>4 DEF RowsLast, UNFINISHED, Final
    <3> QED
      BY <2>1, <2>2, <3>1 DEF Phase, JobTypes
  <2>10. OnlyJob(j)
    BY <1>1, <2>7, <2>8, <2>9 DEF OnlyJob, QueueStep
  <2>11. Present(j)' = Present(j) /\ Due(j)' = Due(j) /\ Due(j) = memory[j].deadline
         /\ records[j].deadline = memory[j].deadline /\ records[j].expire >= memory[j].deadline + Ttl
    BY <1>1, <2>2, <2>4, <2>7 DEF Present, Due, RowsLast, UNFINISHED
  <2>12. RowsLast(j)'
    <3>1. \E d \in Queued' : d.job = j /\ d.kind = "settle"
      BY <2>6, <2>8
    <3>2. (j \in Held)' => j \in Held
      BY <1>1, <2>1 DEF Held
    <3> QED
      BY <1>1, <2>2, <2>7, <2>9, <2>11, <3>1, <3>2 DEF RowsLast, Over
  <2>13. StatusKnown(j)'
    BY <1>1, <2>2, <2>7 DEF StatusKnown
  <2>14. (WriteKnown(c) /\ CallsFit(c))'
    <3>1. (\A n \in Seqs : n < c.rec.done => n \in Present(j))'
      BY <2>2, <2>6, <2>11 DEF RowsLast
    <3>2. (phase[j] = "settling" => \A n \in Present(j) : IF n < c.at THEN rows[j][n].expire = c.until
                                 ELSE rows[j][n].expire >= memory[j].deadline + Ttl)'
      <4>1. phase'[j] = "settling" => phase[j] = "open"
        BY <2>9
      <4>2. \A n \in Present(j) : ~(n < c.at)
        <5>1. Present(j) \subseteq Nat
          BY <2>2, Constants
        <5> QED
          BY <2>6, <5>1
      <4> QED
        BY <1>1, <2>2, <2>11, <4>1, <4>2 DEF RowsLast
    <3>3. (j \in Held)' /\ j \in closing'.left
      BY <2>1, <2>3 DEF Held
    <3>4. WriteKnown(c)'
      BY <1>1, <2>4, <2>6, <2>7, <2>9, <2>11, <3>1, <3>2, <3>3 DEF WriteKnown, Final, UNFINISHED
    <3> QED
      BY <2>6, <2>7, <3>4 DEF CallsFit
  <2>15. (\A d \in Queued : d.job = j => WriteKnown(d) /\ CallsFit(d))'
    BY <2>8, <2>14
  <2> QED
    BY <2>1, <2>8, <2>10, <2>12, <2>13, <2>15, Others DEF QueueStep
<1> QED
  BY <1>2, <1>3

-----------------------------------------------------------------------------
(* The storage thread is done with a call, or drops it: the rest of the     *)
(* queue stands as it stood.                                                *)
LEMMA CallGone ==
  ASSUME JobsInv, AllBehind, NEW i \in 1..Len(calls), NEW c, c = calls[i], calls' = AfterCall(i),
         UNCHANGED <<pc, memory>>
  PROVE  /\ AllBehind' /\ Queued' \subseteq Queued
         /\ \A d \in Queued : d # c => d \in Queued'
         /\ \A d \in Queued' : d.job = c.job /\ c.kind = "settle" => d.kind # "settle" /\ (i = 1 => d.kind = "get")
         /\ \A d \in Queued' : i = 1 => Behind(c, d)
<1>1. calls \in Seq(CallSet) /\ QueueKnown
  BY DEF JobsInv, JobTypes
<1>2. /\ Len(calls) \in Nat /\ Len(calls') = Len(calls) - 1
      /\ \A k \in 1..Len(calls') : k + 1 \in 1..Len(calls) /\ calls'[k] = IF k < i THEN calls[k] ELSE calls[k + 1]
      /\ \A d \in Queued' : \E k \in 1..Len(calls) : k # i /\ d = calls[k]
      /\ \A k \in 1..Len(calls) : k # i => calls[k] \in Queued'
      /\ Queued' \subseteq Queued
  BY <1>1, QueueLoses
<1>3. AllBehind'
  <2> SUFFICES ASSUME NEW a \in 1..Len(calls'), NEW b \in 1..Len(calls'), a < b,
                      NEW x, NEW y, x = calls'[a], y = calls'[b]
               PROVE  Behind(x, y)'
    BY DEF AllBehind
  <2>1. PICK k \in 1..Len(calls) : x = calls[k] /\ k = IF a < i THEN a ELSE a + 1
    BY <1>2
  <2>2. PICK l \in 1..Len(calls) : y = calls[l] /\ l = IF b < i THEN b ELSE b + 1
    BY <1>2, SMTT(30)
  <2>3. k < l
    BY <1>2, <2>1, <2>2
  <2>4. Behind(x, y)
    BY <2>1, <2>2, <2>3 DEF AllBehind
  <2> QED
    BY <2>4 DEF Behind, Begun
<1>4. \A d \in Queued : d # c => d \in Queued'
  BY <1>2 DEF Queued
<1>5. ASSUME NEW d \in Queued'
      PROVE  /\ d.job = c.job /\ c.kind = "settle" => d.kind # "settle" /\ (i = 1 => d.kind = "get")
             /\ i = 1 => Behind(c, d)
  <2>1. PICK k \in 1..Len(calls) : k # i /\ d = calls[k]
    BY <1>2
  <2>2. CASE i < k
    <3>1. InOrder(c, d) /\ Behind(c, d)
      BY <1>1, <2>1, <2>2 DEF QueueKnown, AllBehind
    <3> QED
      BY <3>1 DEF InOrder
  <2>3. CASE k < i
    <3>1. InOrder(d, c) /\ i # 1
      BY <1>1, <2>1, <2>3 DEF QueueKnown
    <3> QED
      BY <3>1 DEF InOrder
  <2> QED
    BY <2>1, <2>2, <2>3
<1> QED
  BY <1>2, <1>3, <1>4, <1>5

(* A call that changes neither record nor rows: it failed, was dropped, or  *)
(* was a read.                                                              *)
LEMMA CallEndsStore ==
  ASSUME JobsInv, StoreInv, NEW i \in 1..Len(calls), i = 1 \/ calls[i].who = Nobody, calls' = AfterCall(i),
         NEW c, c = calls[i], NEW r \in {"ok", "error"}, Return(c, r), CutShort(c),
         UNCHANGED <<proc, tasks, pc, memory, item, slots, records, rows, now>>, closing'.left = closing.left,
         r = "ok" => c.kind = "get",
         \/ closing'.got = closing.got /\ r = "error"
         \/ c.kind = "get" /\ closing'.got \in {NoRecord, Fields(records[c.job])}
  PROVE  StoreInv'
<1> DEFINE j == c.job
<1>1. /\ Queued' \subseteq Queued /\ c \in CallSet /\ CallKnown(c) /\ c \in Queued /\ j \in Jobs
      /\ \A k \in Jobs \ {j} : io'[k] = io[k]
      /\ \A w \in Waiters : w # c.who => io'[j][w] = io[j][w]
      /\ c.who # Nobody => io[j][c.who] = "pending" /\ io'[j][c.who] = r
      /\ \A d \in Queued' : d.job = j => (d.who = c.who => d.who = Nobody)
  BY CallLeaves
<1>2. /\ AllBehind' /\ \A d \in Queued : d # c => d \in Queued'
      /\ \A d \in Queued' : d.job = j /\ c.kind = "settle" => d.kind # "settle" /\ (i = 1 => d.kind = "get")
  BY CallGone DEF StoreInv
<1>3. /\ WriteKnown(c) /\ CallsFit(c) /\ c.kind \in {"save", "row", "settle", "get"}
      /\ c.kind = "settle" => c.at \in Nat
  BY <1>1, CallParts DEF StoreInv
<1>4. pc[j] \notin {"new", "gone"} /\ (c.who = Main => c.kind = "settle" \/ pc[j] \in {"submit", "run", "reading"})
  BY <1>1, CallParts, Constants DEF CallKnown
<1> HIDE DEF j
<1>5. JobTypes /\ RowsLast(j) /\ StatusKnown(j) /\ CloseKnown /\ JobKnown(j) /\ Present(j)' = Present(j) /\ Due(j)' = Due(j)
      /\ Due(j) = memory[j].deadline
  BY <1>1, <1>4 DEF StoreInv, JobsInv, Present, Due
<1>6. /\ \A k \in Jobs \ {j} : phase'[k] = phase[k]
      /\ c.kind # "settle" => phase'[j] = phase[j]
      /\ c.kind = "settle" => phase'[j] = IF phase[j] = "cut" \/ c.at > 0 THEN "cut" ELSE "open"
  BY <1>1, <1>5 DEF CutShort, Phase, Begun, JobTypes, j
<1>7. OnlyJob(j)
  BY <1>1, <1>6 DEF OnlyJob
<1>8. c.kind = "get" => c.who = Main /\ pc[j] = "reading" /\ \A k \in Jobs \ {j} : pc[k] # "reading"
  BY <1>1, <1>3, <1>5, SMTT(30) DEF CallsFit, CallKnown, CloseKnown, AtClose, j
<1>9. c.kind = "settle" => pc[j] \in Over /\ phase[j] \in {"settling", "cut"}
  BY <1>1, <1>3, <1>5 DEF WriteKnown, RowsLast, j
<1>10. RowsLast(j)'
  <2>1. (phase[j] # "open" => pc[j] \in Over)'
    BY <1>5, <1>6, <1>9 DEF RowsLast
  <2>2. (phase[j] = "open" => \A n \in Present(j) : rows[j][n].expire >= Due(j) + Ttl)'
    <3>1. CASE c.kind # "settle"
      BY <1>5, <1>6, <3>1 DEF RowsLast
    <3>2. CASE c.kind = "settle" /\ phase'[j] = "open"
      <4>1. c.at = 0 /\ phase[j] = "settling"
        BY <1>3, <1>6, <1>9, <3>2
      <4>2. \A n \in Present(j) : n \in Nat
        BY Constants DEF Present
      <4>3. \A n \in Present(j) : ~(n < c.at)
        BY <4>1, <4>2
      <4> QED
        BY <1>3, <1>5, <3>2, <4>1, <4>3 DEF WriteKnown, j
    <3> QED
      BY <3>1, <3>2
  <2>3. (phase[j] = "settling" => \E d \in Queued : d.job = j /\ d.kind = "settle")'
    BY <1>2, <1>5, <1>6 DEF RowsLast
  <2>4. (phase[j] = "settled" => /\ records[j].status \in Final
                                 /\ \A n \in Present(j) : rows[j][n].expire = records[j].expire)'
    BY <1>5, <1>6 DEF RowsLast
  <2>5. (pc[j] = "reading" /\ io[j][Main] = "ok" => closing.got \in {NoRecord, Fields(records[j])})'
    <3> SUFFICES ASSUME pc[j] = "reading", io'[j][Main] = "ok"
                 PROVE  closing'.got \in {NoRecord, Fields(records[j])}
      OBVIOUS
    <3>1. io[j][Main] = "pending"
      BY <1>1, <1>5 DEF CloseKnown, AtClose
    <3>2. c.who = Main /\ r = "ok"
      BY <1>1, <3>1, Constants
    <3> QED
      BY <3>2 DEF j
  <2>6. (j \in Held)' <=> j \in Held
    BY DEF Held
  <2> QED
    BY <1>5, <2>1, <2>2, <2>3, <2>4, <2>5, <2>6 DEF RowsLast
<1>11. StatusKnown(j)'
  <2>1. pc[j] \in {"submit", "run"} => (io'[j][Main] = "ok" <=> io[j][Main] = "ok")
    <3>1. CASE c.who = Main
      <4>1. io[j][Main] = "pending" /\ io'[j][Main] = r
        BY <1>1, <3>1, Constants
      <4> QED
        BY <1>8, <4>1
    <3>2. CASE c.who # Main
      BY <1>1, <3>2, Constants
    <3> QED
      BY <3>1, <3>2
  <2> QED
    BY <1>5, <2>1 DEF StatusKnown
<1>12. (\A d \in Queued : d.job = j => WriteKnown(d) /\ CallsFit(d))'
  <2> SUFFICES ASSUME NEW d \in Queued', d.job = j
               PROVE  (WriteKnown(d) /\ CallsFit(d))'
    OBVIOUS
  <2>1. WriteKnown(d) /\ CallsFit(d)
    BY <1>1 DEF StoreInv
  <2>2. /\ phase'[j] = "settled" => phase[j] = "settled"
        /\ d.kind = "settle" => phase'[j] = phase[j]
    BY <1>2, <1>6
  <2>3. (j \in Held)' <=> j \in Held
    BY DEF Held
  <2>4. WriteKnown(d)'
    BY <1>5, <2>1, <2>2, <2>3 DEF WriteKnown
  <2>5. ASSUME pc[j] = "settle"
        PROVE  io'[j][Main] = "pending"
    <3>1. io[j][Main] = "pending"
      BY <2>1, <2>5 DEF CallsFit
    <3>2. CASE c.who = Main
      <4>1. c.kind = "settle" /\ i = 1
        BY <1>4, <2>5, <3>2, Constants DEF j
      <4>2. d.kind = "get"
        BY <1>2, <4>1
      <4> QED
        BY <1>1, <2>1, <3>2, <4>2, Constants DEF CallsFit
    <3>3. CASE c.who # Main
      BY <1>1, <3>1, <3>3, Constants
    <3> QED
      BY <3>2, <3>3
  <2>6. CallsFit(d)'
    BY <2>1, <2>5 DEF CallsFit
  <2> QED
    BY <2>4, <2>6
<1>13. \A d \in Queued : d.job # j => d \in Queued'
  BY <1>2 DEF j
<1>14. closing'.got = closing.got \/ \A k \in Jobs \ {j} : pc[k] # "reading"
  BY <1>8
<1> QED
  BY <1>1, <1>2, <1>7, <1>10, <1>11, <1>12, <1>13, <1>14, Others

LEMMA ThreadFailsStore ==
  ASSUME JobsInv, StoreInv, ThreadFails
  PROVE  StoreInv'
<1>1. PICK i \in Working :
        /\ Return(calls[i], "error") /\ CutShort(calls[i]) /\ calls' = AfterCall(i)
        /\ UNCHANGED <<proc, tasks, pc, memory, item, slots, records, rows, closing, reader, now, crashes>>
  BY DEF ThreadFails, runVars
<1>2. PICK c : c = calls[1]
  OBVIOUS
<1>3. i = 1 /\ 1 \in 1..Len(calls)
  BY <1>1, OneThread
<1>4. PICK r \in {"ok", "error"} : r = "error"
  OBVIOUS
<1>5. Return(c, r) /\ CutShort(c) /\ calls' = AfterCall(1)
  BY <1>1, <1>2, <1>3, <1>4
<1> QED
  BY <1>1, <1>2, <1>3, <1>4, <1>5, CallEndsStore

LEMMA ThreadSkipsStore ==
  ASSUME JobsInv, StoreInv, ThreadSkips
  PROVE  StoreInv'
<1>1. PICK i \in 1..Len(calls) :
        /\ calls[i].who = Nobody /\ CutShort(calls[i]) /\ calls' = AfterCall(i)
        /\ UNCHANGED <<proc, tasks, pc, memory, item, slots, io, records, rows, closing, reader, now, faults, crashes>>
  BY DEF ThreadSkips, runVars
<1>2. PICK c : c = calls[i]
  OBVIOUS
<1>3. PICK r \in {"ok", "error"} : r = "error"
  OBVIOUS
<1>4. Return(c, r) /\ CutShort(c)
  BY <1>1, <1>2 DEF Return
<1> QED
  BY <1>1, <1>2, <1>3, <1>4, CallEndsStore

(* What is known of the call the storage thread works on, and of the task   *)
(* it answers.                                                              *)
LEMMA HeadCall ==
  ASSUME JobsInv, StoreInv, 1 \in 1..Len(calls), calls' = AfterCall(1), NEW c, c = calls[1], NEW j, j = c.job,
         Return(c, "ok"), UNCHANGED <<proc, tasks, pc, memory, item, slots, now>>, closing'.left = closing.left
  PROVE  /\ c \in CallSet /\ CallKnown(c) /\ c \in Queued /\ j \in Jobs /\ WriteKnown(c) /\ CallsFit(c)
         /\ \A k \in Jobs \ {j} : io'[k] = io[k]
         /\ IF c.who = Main THEN io[j][Main] = "pending" /\ io'[j][Main] = "ok" ELSE io'[j][Main] = io[j][Main]
         /\ Queued' \subseteq Queued /\ AllBehind' /\ \A d \in Queued : d # c => d \in Queued'
         /\ \A d \in Queued' : /\ Behind(c, d) /\ WriteKnown(d) /\ CallsFit(d) /\ CallKnown(d) /\ d \in CallSet
                               /\ d.job = j /\ c.kind = "settle" => d.kind = "get"
         /\ JobTypes /\ RowsLast(j) /\ StatusKnown(j) /\ JobKnown(j) /\ RowsKnown(j) /\ CloseKnown
         /\ pc[j] \notin {"new", "gone"} /\ Due(j) = memory[j].deadline
         /\ pc[j] = "reading" /\ io[j][Main] = "ok" => FALSE
<1>1. /\ Queued' \subseteq Queued /\ c \in CallSet /\ CallKnown(c) /\ c \in Queued /\ j \in Jobs
      /\ \A k \in Jobs \ {j} : io'[k] = io[k]
      /\ \A w \in Waiters : w # c.who => io'[j][w] = io[j][w]
      /\ c.who # Nobody => io[j][c.who] = "pending" /\ io'[j][c.who] = "ok"
  <2>1. "ok" \in {"ok", "error"}
    OBVIOUS
  <2> QED
    BY <2>1, CallLeaves
<1>2. /\ AllBehind' /\ \A d \in Queued : d # c => d \in Queued'
      /\ \A d \in Queued' : Behind(c, d) /\ (d.job = j /\ c.kind = "settle" => d.kind = "get")
  BY CallGone DEF StoreInv
<1>3. /\ \A d \in Queued : WriteKnown(d) /\ CallsFit(d) /\ CallKnown(d) /\ d \in CallSet
      /\ JobTypes /\ RowsLast(j) /\ StatusKnown(j) /\ JobKnown(j) /\ RowsKnown(j) /\ CloseKnown
  BY <1>1, QueuedCalls DEF StoreInv, JobsInv
<1>4. pc[j] \notin {"new", "gone"} /\ Due(j) = memory[j].deadline
  BY <1>1 DEF CallKnown, Due
<1>5. pc[j] = "reading" /\ io[j][Main] = "ok" => FALSE
  BY <1>1, <1>3 DEF CloseKnown, AtClose
<1> QED
  BY <1>1, <1>2, <1>3, <1>4, <1>5, Constants

LEMMA SaveLands ==
  ASSUME JobsInv, StoreInv, 1 \in 1..Len(calls), calls' = AfterCall(1), NEW c, c = calls[1],
         Return(c, "ok"), c.kind = "save",
         records' = [records EXCEPT ![c.job] = Stored(memory[c.job], now + c.keep)],
         UNCHANGED <<proc, tasks, pc, memory, item, slots, rows, phase, now, closing>>
  PROVE  StoreInv'
<1>1. PICK j : j = c.job
  OBVIOUS
<1>2. /\ c \in CallSet /\ CallKnown(c) /\ c \in Queued /\ j \in Jobs /\ WriteKnown(c) /\ CallsFit(c)
      /\ \A k \in Jobs \ {j} : io'[k] = io[k]
      /\ IF c.who = Main THEN io[j][Main] = "pending" /\ io'[j][Main] = "ok" ELSE io'[j][Main] = io[j][Main]
      /\ Queued' \subseteq Queued /\ AllBehind' /\ \A d \in Queued : d # c => d \in Queued'
      /\ \A d \in Queued' : Behind(c, d) /\ WriteKnown(d) /\ CallsFit(d)
      /\ JobTypes /\ RowsLast(j) /\ StatusKnown(j) /\ RowsKnown(j)
      /\ pc[j] \notin {"new", "gone"} /\ Due(j) = memory[j].deadline
      /\ pc[j] = "reading" /\ io[j][Main] = "ok" => FALSE
  BY <1>1, HeadCall
<1>3. /\ now + c.keep >= memory[j].deadline + Ttl /\ phase[j] # "settled" /\ c.keep \in Nat
      /\ c.who = Main => pc[j] \in {"submit", "run"}
      /\ pc[j] # "created" /\ (pc[j] \in {"submit", "run"} => c.who = Main) /\ pc[j] # "marking"
  BY <1>1, <1>2, CallParts DEF WriteKnown, CallsFit, CallKnown
<1>4. /\ \A k \in Jobs \ {j} : records'[k] = records[k]
      /\ records'[j].status = memory[j].status /\ records'[j].done = memory[j].done
      /\ records'[j].deadline = memory[j].deadline /\ records'[j].expire = now + c.keep
  BY <1>1, <1>2 DEF JobTypes, Stored
<1>5. memory[j].status \in {"queued", "running"} \cup Final /\ memory[j].status # "none"
  BY <1>2, Held1 DEF StatusKnown, Statuses, UNFINISHED, Final
<1>6. memory[j].status = "queued" => \A d \in Queued' : d.job # j
  <2>1. memory[j].status = "queued" => pc[j] \in {"submit", "refused"}
    BY <1>1, <1>2 DEF WriteKnown, StatusKnown
  <2> QED
    BY <1>1, <1>2, <2>1 DEF Behind
<1>7. OnlyJob(j)
  BY <1>2, <1>4 DEF OnlyJob
<1>8. Present(j)' = Present(j) /\ Due(j)' = Due(j) /\ ((j \in Held)' <=> j \in Held)
  BY <1>2 DEF Present, Due, Held
<1>9. \A n \in Seqs : n < memory[j].done => n \in Present(j)
  <2> DEFINE d == memory[j].done
  <2>1. (Present(j) = 0..(d - 1) \/ Present(j) = 0..d) /\ d \in Nat
    BY <1>2, Held1, Constants DEF RowsKnown
  <2> HIDE DEF d
  <2>2. \A n \in Nat : n < d => n \in Present(j)
    BY <2>1
  <2> QED
    BY <2>1, <2>2, Constants DEF d
<1>10. RowsLast(j)'
  <2>1. (phase[j] = "settling" => \E d \in Queued : d.job = j /\ d.kind = "settle")'
    BY <1>2 DEF RowsLast
  <2>2. pc[j] = "reading" => io'[j][Main] # "ok"
    BY <1>2, <1>3
  <2>3. (\A n \in Seqs : n < records[j].done => n \in Present(j))'
    BY <1>4, <1>8, <1>9
  <2> QED
    BY <1>2, <1>3, <1>4, <1>5, <1>8, <2>1, <2>2, <2>3 DEF RowsLast
<1>11. StatusKnown(j)'
  BY <1>2, <1>3, <1>4, <1>5 DEF StatusKnown, UNFINISHED
<1>12. (\A d \in Queued : d.job = j => WriteKnown(d) /\ CallsFit(d))'
  <2> SUFFICES ASSUME NEW d \in Queued', d.job = j
               PROVE  (WriteKnown(d) /\ CallsFit(d))'
    OBVIOUS
  <2>1. WriteKnown(d) /\ CallsFit(d) /\ Behind(c, d)
    BY <1>2
  <2>2. memory[j].status \in Final => d.kind \in {"settle", "get"}
    BY <2>1 DEF Behind
  <2>3. memory[j].status = "running" \/ memory[j].status \in Final
    BY <1>5, <1>6
  <2>4. d.kind = "settle" => d.rec.status = memory[j].status \/ memory[j].status = "running"
    BY <1>3, <2>1, <2>3 DEF WriteKnown
  <2>5. WriteKnown(d)'
    BY <1>3, <1>4, <1>8, <2>1, <2>2, <2>3, <2>4 DEF WriteKnown, UNFINISHED, Final
  <2>6. CallsFit(d)'
    BY <1>2, <1>3, <2>1 DEF CallsFit
  <2> QED
    BY <2>5, <2>6
<1> QED
  BY <1>1, <1>2, <1>7, <1>10, <1>11, <1>12, Others

(* A row keeps at least as long as the settle to come may take.             *)
LEMMA RowStored ==
  ASSUME JobsInv, StoreInv, 1 \in 1..Len(calls), calls' = AfterCall(1), NEW c, c = calls[1],
         Return(c, "ok"), c.kind = "row",
         rows' = [rows EXCEPT ![c.job][c.seq] = [url |-> c.url, expire |-> now + c.keep]],
         UNCHANGED <<proc, tasks, pc, memory, item, slots, records, phase, now, closing>>
  PROVE  StoreInv'
<1>1. PICK j : j = c.job
  OBVIOUS
<1>2. /\ c \in CallSet /\ CallKnown(c) /\ c \in Queued /\ j \in Jobs /\ WriteKnown(c) /\ CallsFit(c)
      /\ \A k \in Jobs \ {j} : io'[k] = io[k]
      /\ IF c.who = Main THEN io[j][Main] = "pending" /\ io'[j][Main] = "ok" ELSE io'[j][Main] = io[j][Main]
      /\ Queued' \subseteq Queued /\ AllBehind' /\ \A d \in Queued : d # c => d \in Queued'
      /\ \A d \in Queued' : Behind(c, d) /\ WriteKnown(d) /\ CallsFit(d) /\ d \in CallSet
      /\ JobTypes /\ RowsLast(j) /\ StatusKnown(j) /\ RowsKnown(j)
      /\ pc[j] \notin {"new", "gone"} /\ Due(j) = memory[j].deadline
      /\ pc[j] = "reading" /\ io[j][Main] = "ok" => FALSE
  BY <1>1, HeadCall
<1>3. /\ now + c.keep >= memory[j].deadline + Ttl /\ phase[j] # "settled" /\ c.keep \in Nat /\ c.seq \in Seqs
      /\ c.who # Main /\ c.url \in Urls
  <2>1. c.who \in Urls \cup {Nobody} /\ c.keep \in Nat /\ c.seq \in Seqs /\ c.url \in Urls
    BY <1>2, CallParts
  <2> QED
    BY <1>1, <1>2, <2>1, Constants DEF WriteKnown
<1>4. io'[j][Main] = io[j][Main]
  BY <1>2, <1>3
<1>5. PICK m \in Seqs : m = c.seq
  BY <1>3
<1>6. /\ \A k \in Jobs \ {j} : rows'[k] = rows[k]
      /\ rows'[j][m] = [url |-> c.url, expire |-> now + c.keep] /\ \A n \in Seqs \ {m} : rows'[j][n] = rows[j][n]
  <2>1. rows \in [Jobs -> [Seqs -> [url : Urls \cup {Nobody}, expire : Nat]]]
    BY <1>2 DEF JobTypes
  <2> QED
    BY <1>1, <1>2, <1>5, <2>1
<1>7. Present(j)' = Present(j) \cup {m}
  <2>1. rows'[j][m] # NoRow
    <3>1. rows'[j][m].url # Nobody
      BY <1>3, <1>6, Constants
    <3> QED
      BY <3>1 DEF NoRow
  <2> QED
    BY <1>6, <2>1 DEF Present
<1>8. OnlyJob(j)
  BY <1>2, <1>6 DEF OnlyJob
<1>9. Due(j)' = Due(j) /\ ((j \in Held)' <=> j \in Held)
  BY DEF Due, Held
<1>10. RowsLast(j)'
  <2>1. (phase[j] = "settling" => \E d \in Queued : d.job = j /\ d.kind = "settle")'
    BY <1>2 DEF RowsLast
  <2>2. (phase[j] = "open" => \A n \in Present(j) : rows[j][n].expire >= Due(j) + Ttl)'
    <3> SUFFICES ASSUME phase[j] = "open", NEW n \in Present(j)'
                 PROVE  rows'[j][n].expire >= Due(j) + Ttl
      BY <1>9
    <3>1. CASE n = m
      <4>1. rows'[j][n].expire = now + c.keep
        BY <1>6, <3>1
      <4> QED
        BY <1>2, <1>3, <4>1
    <3>2. CASE n # m
      <4>1. n \in Present(j) /\ rows'[j][n] = rows[j][n]
        BY <1>6, <1>7, <3>2 DEF Present
      <4> QED
        BY <1>2, <4>1 DEF RowsLast
    <3> QED
      BY <3>1, <3>2
  <2>3. (\A n \in Seqs : n < records[j].done => n \in Present(j))'
    BY <1>2, <1>7 DEF RowsLast
  <2> QED
    BY <1>2, <1>3, <1>4, <1>9, <2>1, <2>2, <2>3 DEF RowsLast
<1>11. StatusKnown(j)'
  BY <1>2, <1>4 DEF StatusKnown
<1>12. (\A d \in Queued : d.job = j => WriteKnown(d) /\ CallsFit(d))'
  <2> SUFFICES ASSUME NEW d \in Queued', d.job = j
               PROVE  (WriteKnown(d) /\ CallsFit(d))'
    OBVIOUS
  <2>1. WriteKnown(d) /\ CallsFit(d) /\ Behind(c, d) /\ (d.kind = "settle" => d.at \in Nat)
    BY <1>2, CallParts
  <2>2. ASSUME d.kind = "settle"
        PROVE  /\ (\A n \in Seqs : n < d.rec.done => n \in Present(j))'
               /\ (phase[j] = "settling" => \A n \in Present(j) :
                     IF n < d.at THEN rows[j][n].expire = d.until
                     ELSE rows[j][n].expire >= memory[j].deadline + Ttl)'
    <3>1. \A n \in Seqs : n < d.rec.done => n \in Present(j)
      BY <2>1, <2>2 DEF WriteKnown
    <3>2. ~(m < d.at)
      <4>1. d.at = 0
        BY <2>1, <2>2 DEF Behind, Begun
      <4>2. m \in Nat
        BY Constants
      <4> QED
        BY <4>1, <4>2
    <3>3. ASSUME phase[j] = "settling", NEW n \in Present(j)'
          PROVE  IF n < d.at THEN rows'[j][n].expire = d.until ELSE rows'[j][n].expire >= memory[j].deadline + Ttl
      <4>1. CASE n = m
        <5>1. rows'[j][n].expire = now + c.keep
          BY <1>6, <4>1
        <5> QED
          BY <1>3, <3>2, <4>1, <5>1
      <4>2. CASE n # m
        <5>1. n \in Present(j) /\ rows'[j][n] = rows[j][n]
          BY <1>6, <1>7, <4>2 DEF Present
        <5> QED
          BY <2>1, <2>2, <3>3, <5>1 DEF WriteKnown
      <4> QED
        BY <4>1, <4>2
    <3> QED
      BY <1>7, <3>1, <3>3
  <2>3. WriteKnown(d)'
    BY <1>9, <2>1, <2>2 DEF WriteKnown
  <2>4. CallsFit(d)'
    BY <1>4, <2>1 DEF CallsFit
  <2> QED
    BY <2>3, <2>4
<1> QED
  BY <1>1, <1>2, <1>8, <1>10, <1>11, <1>12, Others

(* The settle gives up at the first row that is gone, and while the job is  *)
(* within Slack of its deadline none of its rows is: they were stored to    *)
(* last for the ttl beyond it.                                              *)
LEMMA SettleLands ==
  ASSUME JobsInv, StoreInv, Slack < Ttl, 1 \in 1..Len(calls), calls' = AfterCall(1), NEW c, c = calls[1],
         Return(c, "ok"), c.kind = "settle", ~SettlesOn(c), Phase(c.job, "settled"),
         records' = [records EXCEPT ![c.job] = Stored(c.rec, c.until)],
         UNCHANGED <<proc, tasks, pc, memory, item, slots, rows, now, closing>>
  PROVE  StoreInv'
<1>1. PICK j : j = c.job
  OBVIOUS
<1>2. /\ c \in CallSet /\ CallKnown(c) /\ c \in Queued /\ j \in Jobs /\ WriteKnown(c) /\ CallsFit(c)
      /\ \A k \in Jobs \ {j} : io'[k] = io[k]
      /\ IF c.who = Main THEN io[j][Main] = "pending" /\ io'[j][Main] = "ok" ELSE io'[j][Main] = io[j][Main]
      /\ Queued' \subseteq Queued /\ AllBehind' /\ \A d \in Queued : d # c => d \in Queued'
      /\ \A d \in Queued' : WriteKnown(d) /\ CallsFit(d) /\ CallKnown(d) /\ (d.job = j => d.kind = "get")
      /\ JobTypes /\ RowsLast(j) /\ StatusKnown(j) /\ RowsKnown(j) /\ JobKnown(j)
      /\ pc[j] \notin {"new", "gone"} /\ Due(j) = memory[j].deadline
      /\ pc[j] = "reading" /\ io[j][Main] = "ok" => FALSE
  BY <1>1, HeadCall
<1>3. /\ j \in closing.left \/ (c.who = Main /\ pc[j] = "settle")
      /\ c.rec.status \in Final /\ c.rec.deadline = memory[j].deadline
      /\ c.rec.status = memory[j].status \/ pc[j] = "marking"
      /\ \A n \in Seqs : n < c.rec.done => n \in Present(j)
      /\ phase[j] \in {"settling", "cut"}
      /\ phase[j] = "settling" =>
           \A n \in Present(j) : IF n < c.at THEN rows[j][n].expire = c.until
                                 ELSE rows[j][n].expire >= memory[j].deadline + Ttl
      /\ c.at \in Nat /\ pc[j] \in {"settle", "end", "reading", "marking"}
      /\ c.who = Main => pc[j] \in {"settle", "marking"}
  <2>1. c.at \in Nat
    BY <1>2, CallParts
  <2>2. c.kind = "settle" /\ c.job = j
    BY <1>1
  <2>3. pc[j] \in {"settle", "end", "reading", "marking"} /\ (c.who = Main => pc[j] \in {"settle", "marking"})
    BY <1>2, <2>2 DEF CallKnown
  <2> QED
    BY <1>2, <2>1, <2>2, <2>3 DEF WriteKnown
<1>4. /\ \A k \in Jobs \ {j} : records'[k] = records[k] /\ phase'[k] = phase[k]
      /\ records'[j].status = c.rec.status /\ records'[j].done = c.rec.done
      /\ records'[j].deadline = c.rec.deadline /\ records'[j].expire = c.until
      /\ phase'[j] = IF phase[j] = "cut" THEN "cut" ELSE "settled"
  BY <1>1, <1>2 DEF JobTypes, Stored, Phase
<1>5. OnlyJob(j)
  BY <1>2, <1>4 DEF OnlyJob
<1>6. Present(j)' = Present(j) /\ Due(j)' = Due(j) /\ ((j \in Held)' <=> j \in Held)
  BY <1>2 DEF Present, Due, Held
<1>7. j \in Held /\ now <= memory[j].deadline + Slack
  <2>1. pc[j] = "settle" => j \in tasks
    BY <1>2 DEF JobKnown, Unended
  <2>2. j \in Held
    BY <1>3, <2>1 DEF Held
  <2> QED
    BY <1>2, <2>2 DEF RowsLast
<1>8. ASSUME phase[j] = "settling", NEW n \in Present(j)
      PROVE  n < c.at
  <2> SUFFICES ASSUME ~(n < c.at)
               PROVE  FALSE
    OBVIOUS
  <2>1. n \in Nat /\ \E k \in Nat : Present(j) = 0..(k - 1)
    BY <1>2, Constants DEF RowsKnown, Present
  <2>2. c.at \in Present(j)
    BY <1>3, <2>1
  <2>3. c.at \in Seqs /\ rows[j][c.at].expire >= memory[j].deadline + Ttl
    BY <1>3, <1>8, <2>2 DEF Present
  <2>4. rows[j][c.at].expire > now
    <3>1. memory[j].deadline \in Nat /\ now \in Nat /\ rows[j][c.at].expire \in Nat
      BY <1>2, <2>3, Held1
    <3> QED
      BY <1>7, <2>3, <3>1, Constants, SMTT(30)
  <2> QED
    BY <1>1, <2>3, <2>4 DEF SettlesOn, Live
<1>9. phase'[j] = "settled" => \A n \in Present(j) : rows[j][n].expire = c.until
  BY <1>3, <1>4, <1>8
<1>10. c.rec.status \notin UNFINISHED /\ c.rec.status # "none"
  BY <1>3 DEF Final, UNFINISHED
<1>11. RowsLast(j)'
  <2>1. (phase[j] # "open" => pc[j] \in Over)'
    BY <1>2, <1>3 DEF Over
  <2>2. phase'[j] \in {"cut", "settled"}
    BY <1>4
  <2>3. (pc[j] = "reading" /\ io[j][Main] = "ok" => FALSE)'
    BY <1>2, <1>3
  <2>4. pc'[j] # "new" /\ records'[j].status # "none" /\ records'[j].status \notin UNFINISHED
    BY <1>2, <1>3, <1>4, <1>10
  <2>5. records'[j].deadline = Due(j)'
    BY <1>2, <1>3, <1>4, <1>6
  <2>6. (\A n \in Seqs : n < records[j].done => n \in Present(j))'
    BY <1>3, <1>4, <1>6
  <2>7. phase'[j] = "settled" => /\ records'[j].status \in Final
                                /\ \A n \in Present(j)' : rows'[j][n].expire = records'[j].expire
    BY <1>2, <1>3, <1>4, <1>6, <1>9
  <2>8. (j \in Held => now <= memory[j].deadline + Slack)'
    BY <1>2, <1>6, <1>7
  <2> QED
    BY <2>1, <2>2, <2>3, <2>4, <2>5, <2>6, <2>7, <2>8 DEF RowsLast
<1>12. StatusKnown(j)'
  BY <1>2, <1>3, <1>4, <1>10 DEF StatusKnown
<1>13. (\A d \in Queued : d.job = j => WriteKnown(d) /\ CallsFit(d))'
  <2> SUFFICES ASSUME NEW d \in Queued', d.job = j
               PROVE  (WriteKnown(d) /\ CallsFit(d))'
    OBVIOUS
  <2>1. d.kind = "get" /\ CallsFit(d) /\ CallKnown(d)
    BY <1>2
  <2>2. d.who = Main
    BY <2>1, Zenon DEF CallsFit
  <2>3. pc[j] = "reading"
    BY <2>1, <2>2, Zenon DEF CallKnown
  <2> QED
    <3>1. WriteKnown(d)'
      BY <2>1 DEF WriteKnown
    <3>2. pc'[j] = "reading"
      BY <1>2, <2>3
    <3>3. CallsFit(d)'
      BY <2>1, <2>2, <3>2 DEF CallsFit
    <3> QED
      BY <3>1, <3>3
<1> QED
  BY <1>1, <1>2, <1>5, <1>11, <1>12, <1>13, Others

(* A touch moves the expiry of one row and nothing else.                    *)
LEMMA HeadTouches ==
  ASSUME JobsInv, ThreadTouches
  PROVE  \E c \in Queued :
           /\ 1 \in 1..Len(calls) /\ c = calls[1] /\ c.kind = "settle" /\ c.at \in Seqs
           /\ \A k \in Jobs \ {c.job} : rows'[k] = rows[k]
           /\ \A n \in Seqs \ {c.at} : rows'[c.job][n] = rows[c.job][n]
           /\ rows'[c.job][c.at].expire = c.until /\ rows'[c.job][c.at].url = rows[c.job][c.at].url
           /\ Present(c.job)' = Present(c.job)
           /\ calls' = [calls EXCEPT ![1] = [c EXCEPT !.at = @ + 1]]
           /\ UNCHANGED <<proc, tasks, pc, memory, item, slots, io, records, phase, closing, reader, now, faults, crashes>>
<1>1. PICK i \in Working :
        /\ SettlesOn(calls[i])
        /\ rows' = [rows EXCEPT ![calls[i].job][calls[i].at].expire = calls[i].until]
        /\ calls' = [calls EXCEPT ![i].at = @ + 1]
        /\ UNCHANGED <<proc, tasks, pc, memory, item, slots, io, records, phase, closing, reader, now, faults, crashes>>
  BY DEF ThreadTouches, runVars
<1>2. i = 1 /\ 1 \in 1..Len(calls)
  BY <1>1, OneThread
<1>3. PICK c : c = calls[1]
  OBVIOUS
<1>4. PICK j : j = c.job
  OBVIOUS
<1>5. PICK m : m = c.at
  OBVIOUS
<1>6. c \in Queued /\ j \in Jobs
  <2>1. c \in Queued
    BY <1>2, <1>3 DEF Queued
  <2> QED
    BY <1>4, <2>1, QueuedCalls, CallJob
<1>7. /\ c.kind = "settle" /\ m \in Seqs /\ rows[j][m].expire > now
      /\ rows' = [rows EXCEPT ![j][m].expire = c.until] /\ calls' = [calls EXCEPT ![1] = [c EXCEPT !.at = @ + 1]]
  BY <1>1, <1>2, <1>3, <1>4, <1>5 DEF SettlesOn, Live
<1>8. /\ rows \in [Jobs -> [Seqs -> [url : Urls \cup {Nobody}, expire : Nat]]] /\ now \in Nat
      /\ rows[j][m] \in [url : Urls \cup {Nobody}, expire : Nat]
  BY <1>6, <1>7 DEF JobsInv, JobTypes
<1> DEFINE old == rows[j][m]
<1>9. PICK row : row = [old EXCEPT !.expire = c.until]
  OBVIOUS
<1>10. rows' = [rows EXCEPT ![j][m] = row]
  BY <1>7, <1>9
<1>11. row.expire = c.until /\ row.url = old.url
  <2>1. old \in [url : Urls \cup {Nobody}, expire : Nat]
    BY <1>8
  <2> HIDE DEF old
  <2> QED
    BY <1>9, <2>1
<1> HIDE DEF old
<1>12. /\ \A k \in Jobs \ {j} : rows'[k] = rows[k]
       /\ \A n \in Seqs \ {m} : rows'[j][n] = rows[j][n]
       /\ rows'[j][m] = row
  BY <1>6, <1>7, <1>8, <1>10
<1>13. rows'[j][m].expire = c.until /\ rows'[j][m].url = rows[j][m].url
  BY <1>11, <1>12 DEF old
<1>14. rows[j][m] # NoRow
  BY <1>7, <1>8 DEF NoRow
<1>15. rows[j][m].url \in Urls
  <2>1. m \in Present(j) /\ RowsKnown(j)
    BY <1>6, <1>7, <1>14 DEF Present, JobsInv
  <2> QED
    BY <2>1 DEF RowsKnown
<1>16. rows'[j][m] # NoRow
  BY <1>13, <1>15, Constants DEF NoRow
<1>17. Present(j)' = Present(j)
  <2>1. \A n \in Seqs : rows'[j][n] # NoRow <=> rows[j][n] # NoRow
    BY <1>12, <1>14, <1>16, Zenon
  <2> QED
    BY <2>1, Zenon DEF Present
<1> QED
  BY <1>1, <1>2, <1>3, <1>4, <1>5, <1>6, <1>7, <1>12, <1>13, <1>17, ZenonT(40)

(* A touched row lasts as long as the record will.                          *)
LEMMA ThreadTouchesStore ==
  ASSUME JobsInv, StoreInv, ThreadTouches
  PROVE  StoreInv'
<1>1. PICK c \in Queued :
        /\ 1 \in 1..Len(calls) /\ c = calls[1] /\ c.kind = "settle" /\ c.at \in Seqs
        /\ \A k \in Jobs \ {c.job} : rows'[k] = rows[k]
        /\ \A n \in Seqs \ {c.at} : rows'[c.job][n] = rows[c.job][n]
        /\ rows'[c.job][c.at].expire = c.until /\ Present(c.job)' = Present(c.job)
        /\ calls' = [calls EXCEPT ![1] = [c EXCEPT !.at = @ + 1]]
        /\ UNCHANGED <<proc, tasks, pc, memory, item, slots, io, records, phase, closing, reader, now, faults, crashes>>
  BY HeadTouches
<1>2. 1 \in 1..Len(calls)
  BY <1>1
<1>3. c = calls[1]
  BY <1>1
<1>4. PICK e : e = [c EXCEPT !.at = @ + 1]
  OBVIOUS
<1>5. PICK j : j = c.job
  OBVIOUS
<1>6. PICK m : m = c.at
  OBVIOUS
<1>7. c \in CallSet /\ CallKnown(c) /\ c \in Queued /\ WriteKnown(c) /\ CallsFit(c) /\ j \in Jobs
  BY <1>5, QueuedCalls, CallJob DEF StoreInv
<1>8. c.kind = "settle" /\ m \in Seqs /\ calls' = [calls EXCEPT ![1] = e]
  BY <1>1, <1>4, <1>6
<1>9. /\ e.job = j /\ e.who = c.who /\ e.kind = "settle" /\ e.rec = c.rec /\ e.until = c.until /\ e.at = m + 1
      /\ c.until \in Nat /\ m \in Nat
  <2>1. c \in SettleCalls
    BY <1>7, <1>8 DEF CallSet, SaveCalls, RowCalls, SettleCalls, GetCalls
  <2> QED
    BY <1>4, <1>5, <1>6, <2>1 DEF SettleCalls
<1>10. JobTypes /\ RowsLast(j) /\ StatusKnown(j) /\ QueueKnown /\ AllBehind
       /\ rows \in [Jobs -> [Seqs -> [url : Urls \cup {Nobody}, expire : Nat]]] /\ calls \in Seq(CallSet) /\ now \in Nat
  BY <1>7 DEF JobsInv, JobTypes, StoreInv
<1>11. /\ Len(calls') = Len(calls) /\ calls'[1] = e
       /\ \A k \in 1..Len(calls) : k # 1 => calls'[k] = calls[k]
  BY <1>2, <1>8, <1>10
<1>12. /\ e \in Queued' /\ \A d \in Queued' : d = e \/ (d \in Queued /\ InOrder(c, d))
       /\ \A d \in Queued : d = c \/ d \in Queued'
  <2>1. \A k \in 1..Len(calls) : k = 1 \/ 1 < k
    BY <1>10
  <2>2. e \in Queued' /\ \A d \in Queued : d = c \/ d \in Queued'
    BY <1>2, <1>3, <1>11 DEF Queued
  <2>3. \A d \in Queued' : d = e \/ \E k \in 1..Len(calls) : 1 < k /\ d = calls[k]
    BY <1>11, <2>1 DEF Queued
  <2>4. \A k \in 1..Len(calls) : 1 < k => calls[k] \in Queued /\ InOrder(c, calls[k])
    BY <1>2, <1>3, <1>10 DEF Queued, QueueKnown
  <2> QED
    BY <2>2, <2>3, <2>4
<1>13. AllBehind'
  <2> SUFFICES ASSUME NEW a \in 1..Len(calls'), NEW b \in 1..Len(calls'), a < b,
                      NEW x, NEW y, x = calls'[a], y = calls'[b]
               PROVE  Behind(x, y)'
    BY DEF AllBehind
  <2>1. b # 1 /\ y = calls[b] /\ a \in 1..Len(calls) /\ b \in 1..Len(calls)
    BY <1>10, <1>11
  <2>2. x.job = calls[a].job
    BY <1>3, <1>5, <1>9, <1>11, <2>1
  <2>3. Behind(calls[a], y)
    BY <1>10, <2>1 DEF AllBehind
  <2> QED
    BY <1>1, <2>2, <2>3 DEF Behind, Begun
<1>14. /\ \A k \in Jobs \ {j} : rows'[k] = rows[k]
       /\ \A n \in Seqs \ {m} : rows'[j][n] = rows[j][n]
       /\ rows'[j][m].expire = c.until /\ Present(j)' = Present(j)
  BY <1>1, <1>5, <1>6
<1>15. Present(j)' = Present(j)
  BY <1>14
<1>16. /\ j \in closing.left \/ (c.who = Main /\ pc[j] = "settle")
       /\ phase[j] \in {"settling", "cut"}
       /\ phase[j] = "settling" =>
            \A n \in Present(j) : IF n < m THEN rows[j][n].expire = c.until
                                  ELSE rows[j][n].expire >= memory[j].deadline + Ttl
       /\ pc[j] \notin {"new", "gone"}
  BY <1>5, <1>6, <1>7, <1>8 DEF WriteKnown, CallKnown
<1>17. OnlyJob(j)
  BY <1>1, <1>5, <1>9, <1>12, <1>14 DEF OnlyJob
<1>18. Due(j)' = Due(j) /\ ((j \in Held)' <=> j \in Held)
  BY <1>1 DEF Due, Held
<1>19. RowsLast(j)'
  BY <1>1, <1>9, <1>10, <1>12, <1>15, <1>16, <1>18 DEF RowsLast
<1>20. StatusKnown(j)'
  BY <1>1, <1>10 DEF StatusKnown
<1>21. (\A d \in Queued : d.job = j => WriteKnown(d) /\ CallsFit(d))'
  <2>1. (WriteKnown(e) /\ CallsFit(e))'
    <3>1. (phase[j] = "settling" => \A n \in Present(j) : IF n < e.at THEN rows[j][n].expire = e.until
                                 ELSE rows[j][n].expire >= memory[j].deadline + Ttl)'
      <4> SUFFICES ASSUME phase[j] = "settling", NEW n \in Present(j)
                   PROVE  IF n < m + 1 THEN rows'[j][n].expire = c.until
                          ELSE rows'[j][n].expire >= memory[j].deadline + Ttl
        BY <1>1, <1>9, <1>15
      <4>1. n \in Nat /\ n \in Seqs
        BY Constants DEF Present
      <4>2. CASE n = m
        BY <1>9, <1>14, <4>2
      <4>3. CASE n # m
        <5>1. rows'[j][n] = rows[j][n] /\ (n < m + 1 <=> n < m)
          BY <1>9, <1>14, <4>1, <4>3
        <5> QED
          BY <1>16, <5>1
      <4> QED
        BY <4>2, <4>3
    <3>2. WriteKnown(e)'
      <4>1. /\ j \in Held \/ pc[j] = "refused"
            /\ phase[j] # "settled"
            /\ records[j].status # "none" => records[j].expire >= memory[j].deadline + Ttl
            /\ c.rec.status \in Final /\ c.rec.deadline = memory[j].deadline
            /\ records[j].status \in {"queued", "running", c.rec.status}
            /\ c.rec.status = "done" => memory[j].status = "done" /\ records[j].status # "queued"
            /\ c.rec.status = memory[j].status \/ pc[j] = "marking"
            /\ \A n \in Seqs : n < c.rec.done => n \in Present(j)
        BY <1>5, <1>7, <1>8 DEF WriteKnown
      <4> QED
        BY <1>1, <1>9, <1>15, <1>16, <1>18, <3>1, <4>1 DEF WriteKnown
    <3>3. CallsFit(e)'
      BY <1>1, <1>5, <1>7, <1>8, <1>9 DEF CallsFit
    <3> QED
      BY <3>2, <3>3
  <2>2. ASSUME NEW d \in Queued, InOrder(c, d), d.job = j
        PROVE  (WriteKnown(d) /\ CallsFit(d))'
    <3>1. d.kind = "get" /\ CallsFit(d)
      BY <1>5, <1>8, <2>2 DEF InOrder, StoreInv
    <3> QED
      BY <1>1, <3>1 DEF WriteKnown, CallsFit
  <2> QED
    BY <1>12, <2>1, <2>2
<1>22. \A d \in Queued : d.job # j => d \in Queued'
  BY <1>5, <1>12
<1> QED
  BY <1>1, <1>7, <1>13, <1>17, <1>19, <1>20, <1>21, <1>22, Others

(* What the storage thread does with the call at the head of its queue.     *)
LEMMA HeadRuns ==
  ASSUME JobsInv, ThreadRuns
  PROVE  \E c \in Queued :
           /\ 1 \in 1..Len(calls) /\ c = calls[1] /\ ~SettlesOn(c)
           /\ c.kind = "save" => records' = [records EXCEPT ![c.job] = Stored(memory[c.job], now + c.keep)]
           /\ c.kind = "settle" => /\ records' = [records EXCEPT ![c.job] = Stored(c.rec, c.until)]
                                   /\ Phase(c.job, "settled")
           /\ c.kind \notin {"save", "settle"} => records' = records
           /\ c.kind # "settle" => phase' = phase
           /\ c.kind = "row" =>
                rows' = [rows EXCEPT ![c.job][c.seq] = [url |-> c.url, expire |-> now + c.keep]]
           /\ c.kind # "row" => rows' = rows
           /\ closing' = Fetched(c) /\ Return(c, "ok") /\ calls' = AfterCall(1)
           /\ UNCHANGED <<proc, tasks, pc, memory, item, slots, reader, now, faults, crashes>>
<1>1. PICK i \in Working :
        LET call == calls[i]
            j == call.job
        IN /\ ~SettlesOn(call)
           /\ records' =
                CASE call.kind = "save" ->
                       [records EXCEPT ![j] = Stored(memory[j], now + call.keep)]
                  [] call.kind = "settle" ->
                       [records EXCEPT ![j] = Stored(call.rec, call.until)]
                  [] OTHER -> records
           /\ rows' = IF call.kind = "row"
                      THEN [rows EXCEPT ![j][call.seq] = [url |-> call.url, expire |-> now + call.keep]]
                      ELSE rows
           /\ IF call.kind = "settle" THEN Phase(j, "settled") ELSE UNCHANGED phase
           /\ closing' = Fetched(call)
           /\ Return(call, "ok")
           /\ calls' = AfterCall(i)
           /\ UNCHANGED <<proc, tasks, pc, memory, item, slots, reader, now, faults, crashes>>
  BY DEF ThreadRuns, runVars
<1>2. PICK c : c = calls[1]
  OBVIOUS
<1>3. i = 1 /\ 1 \in 1..Len(calls)
  BY <1>1, OneThread
<1>4. c \in Queued
  BY <1>2, <1>3 DEF Queued
<1>5. /\ c.kind = "save" => records' = [records EXCEPT ![c.job] = Stored(memory[c.job], now + c.keep)]
      /\ c.kind = "settle" => records' = [records EXCEPT ![c.job] = Stored(c.rec, c.until)] /\ Phase(c.job, "settled")
      /\ c.kind \notin {"save", "settle"} => records' = records
      /\ c.kind # "settle" => phase' = phase
      /\ c.kind = "row" => rows' = [rows EXCEPT ![c.job][c.seq] = [url |-> c.url, expire |-> now + c.keep]]
      /\ c.kind # "row" => rows' = rows
      /\ ~SettlesOn(c) /\ closing' = Fetched(c) /\ Return(c, "ok") /\ calls' = AfterCall(1)
      /\ UNCHANGED <<proc, tasks, pc, memory, item, slots, reader, now, faults, crashes>>
  BY <1>1, <1>2, <1>3
<1> QED
  BY <1>2, <1>3, <1>4, <1>5

LEMMA ThreadRunsStore ==
  ASSUME JobsInv, StoreInv, Slack < Ttl, ThreadRuns
  PROVE  StoreInv'
<1>1. PICK c \in Queued :
        /\ 1 \in 1..Len(calls) /\ c = calls[1] /\ ~SettlesOn(c)
        /\ c.kind = "save" => records' = [records EXCEPT ![c.job] = Stored(memory[c.job], now + c.keep)]
        /\ c.kind = "settle" => /\ records' = [records EXCEPT ![c.job] = Stored(c.rec, c.until)]
                                /\ Phase(c.job, "settled")
        /\ c.kind \notin {"save", "settle"} => records' = records
        /\ c.kind # "settle" => phase' = phase
        /\ c.kind = "row" =>
             rows' = [rows EXCEPT ![c.job][c.seq] = [url |-> c.url, expire |-> now + c.keep]]
        /\ c.kind # "row" => rows' = rows
        /\ closing' = Fetched(c) /\ Return(c, "ok") /\ calls' = AfterCall(1)
        /\ UNCHANGED <<proc, tasks, pc, memory, item, slots, reader, now, faults, crashes>>
  BY HeadRuns
<1>2. c \in CallSet /\ CallsFit(c) /\ c.kind \in {"save", "row", "settle", "get"}
  BY QueuedCalls, CallParts DEF StoreInv
<1>3. c.kind # "get" => closing' = closing
  BY <1>1 DEF Fetched
<1>4. CASE c.kind = "save"
  BY <1>1, <1>3, <1>4, SaveLands
<1>5. CASE c.kind = "row"
  BY <1>1, <1>3, <1>5, RowStored
<1>6. CASE c.kind = "settle"
  BY <1>1, <1>3, <1>6, SettleLands
<1>7. CASE c.kind = "get"
  <2>1. PICK r \in {"ok", "error"} : r = "ok"
    OBVIOUS
  <2>2. CutShort(c)
    BY <1>1, <1>7 DEF CutShort
  <2>3. closing'.left = closing.left /\ closing'.got \in {NoRecord, Fields(records[c.job])}
    <3>1. c.who = Main /\ closing \in [left : SUBSET Jobs, got : RecordSet]
      BY <1>2, <1>7 DEF CallsFit, JobsInv, JobTypes
    <3> QED
      BY <1>1, <1>7, <3>1, Constants DEF Fetched
  <2>4. records' = records /\ rows' = rows
    BY <1>1, <1>7
  <2> QED
    BY <1>1, <1>7, <2>1, <2>2, <2>3, <2>4, CallEndsStore
<1> QED
  BY <1>2, <1>4, <1>5, <1>6, <1>7

-----------------------------------------------------------------------------
(* Steps that leave jobs, queue and store alone.                            *)
LEMMA StoreRests ==
  ASSUME JobsInv, StoreInv, UNCHANGED <<tasks, pc, memory, item, io, calls, records, rows, phase, closing>>,
         now' \in Nat, now' >= now, \A j \in Held : now' <= memory[j].deadline + Slack
  PROVE  StoreInv'
<1>1. Queued' = Queued /\ Held' = Held
  BY DEF Queued, Held
<1>2. ASSUME NEW j \in Jobs
      PROVE  RowsLast(j)' /\ StatusKnown(j)'
  <2>1. RowsLast(j) /\ StatusKnown(j) /\ Present(j)' = Present(j) /\ Due(j)' = Due(j)
    BY DEF StoreInv, Present, Due
  <2>2. RowsLast(j)'
    BY <1>1, <2>1 DEF RowsLast
  <2>3. StatusKnown(j)'
    BY <2>1 DEF StatusKnown
  <2> QED
    BY <2>2, <2>3
<1>3. ASSUME NEW c \in Queued
      PROVE  WriteKnown(c)' /\ CallsFit(c)'
  <2>1. WriteKnown(c) /\ CallsFit(c) /\ c \in CallSet /\ c.job \in Jobs
    BY QueuedCalls, CallJob DEF StoreInv
  <2>2. Present(c.job)' = Present(c.job) /\ ((c.job \in Held)' <=> c.job \in Held)
    BY <1>1 DEF Present
  <2>3. /\ c.kind \in {"save", "row"} => c.keep \in Nat
        /\ now \in Nat /\ memory[c.job].deadline \in Nat
    BY <2>1, CallParts, Held1
  <2>4. /\ c.kind = "save" => now' + c.keep >= memory[c.job].deadline + Ttl
        /\ c.kind = "row" => now' + c.keep >= memory[c.job].deadline + Ttl
    <3>1. c.kind \in {"save", "row"} => now + c.keep >= memory[c.job].deadline + Ttl
      BY <2>1 DEF WriteKnown
    <3> QED
      BY <2>3, <3>1, Constants
  <2>5. WriteKnown(c)'
    BY <2>1, <2>2, <2>4 DEF WriteKnown
  <2>6. CallsFit(c)'
    BY <2>1 DEF CallsFit
  <2> QED
    BY <2>5, <2>6
<1>4. AllBehind'
  BY DEF StoreInv, AllBehind, Behind, Begun
<1> QED
  BY <1>1, <1>2, <1>3, <1>4 DEF StoreInv

(* Time only passes while no job is later than a live process leaves it.    *)
LEMMA TickStore ==
  ASSUME JobsInv, StoreInv, Tick
  PROVE  StoreInv'
<1>1. /\ now' = now + 1 /\ \A j \in Held : ~Overdue(j)
      /\ UNCHANGED <<tasks, pc, memory, item, io, calls, records, rows, phase, closing>>
  BY DEF Tick, runVars, ioVars, storeVars, Held
<1>2. now \in Nat /\ \A j \in Held : memory[j].deadline \in Nat
  BY DEF JobsInv, JobTypes, RecordSet, Held
<1>3. \A j \in Held : now' <= memory[j].deadline + Slack
  BY <1>1, <1>2, Constants DEF Overdue
<1> QED
  BY <1>1, <1>2, <1>3, StoreRests

LEMMA QuietStore ==
  ASSUME JobsInv, StoreInv,
         UNCHANGED <<tasks, pc, memory, item, io, calls, records, rows, phase, closing, now>>
  PROVE  StoreInv'
<1>1. now' \in Nat /\ now' >= now
  BY DEF JobsInv, JobTypes
<1>2. \A j \in Held : now' <= memory[j].deadline + Slack
  BY DEF StoreInv, RowsLast, Held, JobsInv, JobTypes
<1> QED
  BY <1>1, <1>2, StoreRests

(* A crash loses the dicts: what is left of a deadline is in the record, or *)
(* nothing was saved.  A settle that had not begun leaves the rows to the   *)
(* deadline of the job.                                                     *)
LEMMA CrashStore ==
  ASSUME JobsInv, StoreInv, Crash
  PROVE  StoreInv'
<1>1. /\ tasks' = {} /\ pc' = [j \in Jobs |-> IF pc[j] = "new" THEN "new" ELSE "gone"]
      /\ memory' = [j \in Jobs |-> NoRecord]
      /\ calls' = <<>> /\ closing' = [left |-> {}, got |-> NoRecord]
      /\ phase' = [j \in Jobs |-> IF phase[j] # "settling" THEN phase[j]
                                  ELSE IF \E i \in 1..Len(calls) : calls[i].job = j /\ Begun(calls[i])
                                  THEN "cut" ELSE "open"]
      /\ UNCHANGED <<records, rows, reader, now, faults>>
  BY DEF Crash
<1>2. Queued' = {} /\ AllBehind' /\ Held' = {}
  BY <1>1 DEF Queued, AllBehind, Held
<1>3. ASSUME NEW j \in Jobs
      PROVE  RowsLast(j)' /\ StatusKnown(j)'
  <2>1. /\ RowsLast(j) /\ StatusKnown(j) /\ Present(j)' = Present(j)
        /\ pc'[j] = IF pc[j] = "new" THEN "new" ELSE "gone"
        /\ phase'[j] = IF phase[j] # "settling" THEN phase[j]
                       ELSE IF \E i \in 1..Len(calls) : calls[i].job = j /\ Begun(calls[i])
                       THEN "cut" ELSE "open"
        /\ memory'[j].status = "none"
    BY <1>1 DEF StoreInv, Present, NoRecord
  <2>2. /\ memory[j].deadline \in Nat /\ records[j].deadline \in Nat /\ now \in Nat
        /\ \A n \in Seqs : rows[j][n].expire \in Nat
    BY Held1
  <2>3. CASE pc[j] = "new"
    <3>1. Present(j) = {} /\ phase[j] \notin {"settling", "cut", "settled"}
      BY <2>1, <2>3, UnsubmittedHasNoRows DEF RowsLast, Over
    <3>2. phase'[j] = "open" /\ pc'[j] = "new"
      BY <1>1, <2>1, <2>3, <3>1 DEF JobsInv, JobTypes
    <3>3. records'[j] = NoStored /\ records[j].status = "none" /\ records[j].done = 0
      BY <1>1, <2>1, <2>3 DEF RowsLast, NoStored, Stored, NoRecord
    <3>4. \A n \in Seqs : ~(n < 0)
      BY Constants
    <3> QED
      BY <1>1, <1>2, <2>1, <3>1, <3>2, <3>3, <3>4 DEF RowsLast, StatusKnown, UNFINISHED
  <2>4. CASE pc[j] # "new"
    <3>1. pc'[j] = "gone" /\ Due(j)' = records[j].deadline
      BY <1>1, <2>1, <2>4 DEF Due
    <3>2. phase'[j] = "open" => \A n \in Present(j) : rows[j][n].expire >= records[j].deadline + Ttl
      <4> SUFFICES ASSUME phase'[j] = "open", NEW n \in Present(j)
                   PROVE  rows[j][n].expire >= records[j].deadline + Ttl
        OBVIOUS
      <4>1. records[j].deadline <= Due(j) /\ Due(j) \in Nat /\ rows[j][n].expire \in Nat
        BY <2>1, <2>2 DEF RowsLast, Due, NoStored, Stored, NoRecord, Present
      <4>2. rows[j][n].expire >= Due(j) + Ttl
        <5>1. CASE phase[j] = "open"
          BY <2>1, <5>1 DEF RowsLast
        <5>2. CASE phase[j] = "settling"
          <6>1. PICK c \in Queued : c.job = j /\ c.kind = "settle"
            BY <2>1, <5>2 DEF RowsLast
          <6>2. c.at = 0 /\ pc[j] # "gone" /\ WriteKnown(c)
            <7>1. PICK i \in 1..Len(calls) : c = calls[i]
              BY DEF Queued
            <7>2. ~Begun(c)
              BY <2>1, <5>2, <6>1, <7>1
            <7>3. c.at \in Nat /\ CallKnown(c)
              BY <6>1, QueuedCalls, CallParts
            <7> QED
              BY <6>1, <7>2, <7>3 DEF Begun, CallKnown, StoreInv
          <6>3. n \in Nat
            BY Constants DEF Present
          <6> QED
            BY <5>2, <6>1, <6>2, <6>3 DEF WriteKnown, Due
        <5> QED
          BY <2>1, <5>1, <5>2
      <4> QED
        BY <2>2, <4>1, <4>2, Constants
    <3>3. phase'[j] # "settling" /\ (phase'[j] = "settled" => phase[j] = "settled")
      BY <2>1
    <3>4. RowsLast(j)'
      BY <1>1, <1>2, <2>1, <3>1, <3>2, <3>3 DEF RowsLast, Over
    <3>5. StatusKnown(j)'
      BY <2>1, <3>1 DEF StatusKnown
    <3> QED
      BY <3>4, <3>5
  <2> QED
    BY <2>3, <2>4
<1> QED
  BY <1>2, <1>3 DEF StoreInv

(* Shutdown: every place close() will look at is one the process still had. *)
LEMMA CloseStore ==
  ASSUME JobsInv, StoreInv, Close
  PROVE  StoreInv'
<1>1. /\ proc = "up" /\ closing' = [left |-> tasks, got |-> NoRecord]
      /\ \A j \in Jobs : pc[j] # "submit"
      /\ pc' = [j \in Jobs |-> IF j \notin tasks THEN pc[j]
                               ELSE IF pc[j] = "batch" THEN "stopping" ELSE "end"]
      /\ item' = [j \in Jobs |-> IF j \notin tasks \/ pc[j] # "batch" THEN item[j]
                                 ELSE [u \in Urls |-> IF Ended(j, u) THEN item[j][u] ELSE "cancelled"]]
      /\ io' = [j \in Jobs |-> [w \in Waiters |-> "idle"]]
      /\ calls' = [i \in 1..Len(calls) |-> [calls[i] EXCEPT !.who = Nobody]]
      /\ tasks' = {j \in tasks : pc[j] = "batch"}
      /\ UNCHANGED <<memory, reader, now, records, rows, phase, faults, crashes>>
  BY DEF Close, PendingAtClose, storeVars
<1>2. /\ JobTypes /\ CloseKnown /\ calls \in Seq(CallSet) /\ closing.left = {} /\ AllBehind
      /\ \A j \in Jobs : JobKnown(j) /\ RowsLast(j) /\ StatusKnown(j)
  BY <1>1 DEF JobsInv, JobTypes, CloseKnown, StoreInv
<1>3. ASSUME NEW j \in Jobs
      PROVE  /\ pc'[j] = IF j \notin tasks THEN pc[j] ELSE IF pc[j] = "batch" THEN "stopping" ELSE "end"
             /\ j \in tasks <=> pc[j] \in Unended
             /\ pc[j] \notin AtClose \cup {"stopping", "submit"} /\ pc'[j] \notin AtClose \cup {"submit"}
             /\ \A u \in Urls : item[j][u] = "done" => item'[j][u] = "done"
             /\ \A w \in Waiters : io'[j][w] = "idle"
             /\ Present(j)' = Present(j)
  <2>1. pc[j] \notin AtClose \cup {"stopping", "submit"}
    BY <1>1, <1>2 DEF CloseKnown, StatusKnown
  <2>2. pc'[j] = IF j \notin tasks THEN pc[j] ELSE IF pc[j] = "batch" THEN "stopping" ELSE "end"
    BY <1>1
  <2>3. \A u \in Urls : item[j][u] = "done" => item'[j][u] = "done"
    BY <1>1 DEF Ended
  <2> QED
    BY <1>1, <1>2, <2>1, <2>2, <2>3 DEF JobKnown, Present, AtClose
<1>4. /\ Len(calls') = Len(calls) /\ Len(calls) \in Nat
      /\ \A i \in 1..Len(calls) : calls'[i] = [calls[i] EXCEPT !.who = Nobody]
  <2>1. calls' \in [1..Len(calls) -> CallSet] /\ Len(calls) \in Nat
    BY <1>1, <1>2, Orphans
  <2>2. calls' \in Seq(CallSet)
    BY <2>1, SeqDef
  <2>3. Len(calls') = Len(calls)
    BY <2>1, <2>2, LenProperties
  <2> QED
    BY <1>1, <2>1, <2>3
<1>5. ASSUME NEW i \in 1..Len(calls)
      PROVE  Kin(calls'[i], calls[i]) /\ calls'[i].who = Nobody /\ calls[i] \in Queued
  <2>1. PICK c \in CallSet : c = calls[i]
    BY <1>2
  <2>2. calls'[i] = [c EXCEPT !.who = Nobody] /\ c \in Queued
    BY <1>4, <2>1 DEF Queued
  <2>3. Kin([c EXCEPT !.who = Nobody], c) /\ [c EXCEPT !.who = Nobody].who = Nobody
    BY Orphans DEF Kin
  <2> QED
    BY <2>1, <2>2, <2>3
<1>6. /\ \A c \in Queued' : c.who = Nobody /\ \E d \in Queued : Kin(c, d)
      /\ \A d \in Queued : \E c \in Queued' : Kin(c, d)
  <2>1. \A c \in Queued' : \E i \in 1..Len(calls) : c = calls'[i]
    BY <1>4 DEF Queued
  <2>2. \A i \in 1..Len(calls) : calls'[i] \in Queued'
    BY <1>4 DEF Queued
  <2>3. \A d \in Queued : \E i \in 1..Len(calls) : d = calls[i]
    BY DEF Queued
  <2> QED
    BY <1>5, <2>1, <2>2, <2>3
<1>7. Held = tasks /\ Held' = tasks
  BY <1>1, <1>2 DEF Held
<1>8. AllBehind'
  <2> SUFFICES ASSUME NEW a \in 1..Len(calls), NEW b \in 1..Len(calls), a < b,
                      NEW x, NEW y, x = calls'[a], y = calls'[b]
               PROVE  Behind(x, y)'
    BY <1>4 DEF AllBehind
  <2>1. Kin(x, calls[a]) /\ Kin(y, calls[b]) /\ Behind(calls[a], calls[b])
    BY <1>2, <1>5 DEF AllBehind
  <2>2. PICK d \in Queued : d = calls[b]
    BY <1>5
  <2>3. d.job \in Jobs /\ Kin(y, d) /\ Behind(calls[a], d)
    BY <2>1, <2>2, QueuedCalls, CallJob
  <2>4. pc'[d.job] \in {"submit", "refused"} => pc[d.job] \in {"submit", "refused"}
    BY <1>3, <2>3
  <2>5. x.job = calls[a].job /\ y.job = d.job /\ y.kind = d.kind /\ (Begun(y) <=> Begun(d))
    BY <2>1, <2>3 DEF Kin, Begun
  <2> QED
    BY <1>1, <2>3, <2>4, <2>5 DEF Behind, Begun
<1>9. ASSUME NEW j \in Jobs
      PROVE  RowsLast(j)'
  <2>1. Due(j)' = Due(j) /\ (pc'[j] = "new" => pc[j] = "new")
    BY <1>1, <1>3 DEF Due, Unended
  <2>2. pc[j] \in Over => pc'[j] \in Over
    BY <1>3 DEF Over
  <2>3. phase[j] = "settling" => \E c \in Queued' : c.job = j /\ c.kind = "settle"
    BY <1>2, <1>6 DEF RowsLast, Kin
  <2>4. pc'[j] # "reading"
    BY <1>3 DEF AtClose
  <2> QED
    BY <1>1, <1>2, <1>3, <1>7, <2>1, <2>2, <2>3, <2>4 DEF RowsLast
<1>10. ASSUME NEW j \in Jobs
       PROVE  StatusKnown(j)'
  <2>1. StatusKnown(j) /\ memory'[j] = memory[j] /\ records'[j] = records[j] /\ closing'.left = tasks
    BY <1>1, <1>2
  <2>2. CASE j \notin tasks
    <3>1. pc'[j] = pc[j] /\ pc[j] \notin Unended
      BY <1>3, <2>2
    <3> QED
      BY <1>3, <2>1, <3>1 DEF StatusKnown, Unended
  <2>3. CASE j \in tasks
    <3>1. pc'[j] = IF pc[j] = "batch" THEN "stopping" ELSE "end"
      BY <1>3, <2>3
    <3>2. pc[j] \notin {"new", "gone", "submit", "refused"}
      BY <1>3, <2>3 DEF Unended
    <3> QED
      BY <1>3, <2>1, <2>3, <3>1, <3>2 DEF StatusKnown
  <2> QED
    BY <2>2, <2>3
<1>11. ASSUME NEW c \in Queued'
       PROVE  (WriteKnown(c) /\ CallsFit(c))'
  <2>1. PICK d \in Queued : Kin(c, d)
    BY <1>6
  <2>2. d \in CallSet /\ d.job \in Jobs /\ CallKnown(d) /\ WriteKnown(d) /\ CallsFit(d) /\ c.who = Nobody
    BY <1>6, <2>1, QueuedCalls, CallJob DEF StoreInv
  <2> DEFINE j == d.job
  <2>3. c.job = j /\ c.kind = d.kind /\ (c.kind \in {"save", "row"} => c.keep = d.keep)
        /\ (c.kind = "settle" => c.rec = d.rec /\ c.until = d.until /\ c.at = d.at)
    BY <2>1 DEF Kin
  <2>4. d.kind # "get"
    BY <1>3, <2>2 DEF CallsFit, CallKnown, AtClose
  <2>5. (j \in tasks <=> pc[j] \in Unended) /\ pc[j] \notin AtClose /\ Present(j)' = Present(j)
        /\ (pc'[j] = "refused" <=> pc[j] = "refused") /\ pc'[j] \notin {"created", "run", "submit", "settle", "marking"}
    BY <1>3, <2>2 DEF AtClose, Unended, CallsFit
  <2> HIDE DEF j
  <2>6. WriteKnown(c)'
    <3>1. d.kind = "settle" => j \in tasks
      BY <1>2, <2>2, <2>5 DEF WriteKnown, Unended, j
    <3>2. j \in tasks \/ pc[j] = "refused"
      BY <1>7, <2>2, <2>4 DEF WriteKnown, j
    <3>3. closing'.left = tasks /\ pc[j] # "marking"
      BY <1>1, <2>5 DEF AtClose
    <3> QED
      BY <1>1, <1>7, <2>2, <2>3, <2>4, <2>5, <3>1, <3>2, <3>3 DEF WriteKnown, j
  <2>7. CallsFit(c)'
    BY <2>3, <2>4, <2>5 DEF CallsFit
  <2> QED
    BY <2>6, <2>7
<1> QED
  BY <1>8, <1>9, <1>10, <1>11 DEF StoreInv

-----------------------------------------------------------------------------
LEMMA StoreInvInit == Init => StoreInv
<1> SUFFICES ASSUME Init PROVE StoreInv
  OBVIOUS
<1>1. Queued = {} /\ AllBehind
  BY DEF Init, Queued, AllBehind
<1>2. ASSUME NEW j \in Jobs
      PROVE  RowsLast(j) /\ StatusKnown(j)
  <2>1. /\ pc[j] = "new" /\ memory[j].status = "none" /\ records[j] = NoStored /\ records[j].status = "none"
        /\ records[j].done = 0 /\ phase[j] = "open" /\ Present(j) = {} /\ j \notin Held
    BY DEF Init, NoRecord, NoStored, Stored, Present, Held
  <2>2. \A n \in Seqs : ~(n < 0)
    BY Constants
  <2> QED
    BY <2>1, <2>2 DEF RowsLast, StatusKnown, UNFINISHED
<1> QED
  BY <1>1, <1>2 DEF StoreInv

LEMMA StoreInvNext ==
  ASSUME Slack < Ttl
  PROVE  JobsInv /\ StoreInv /\ [Next]_vars => StoreInv'
<1> SUFFICES ASSUME JobsInv, StoreInv, [Next]_vars PROVE StoreInv'
  OBVIOUS
<1>1. ASSUME NEW j \in Jobs, Submit(j) \/ SubmitCancelled(j) \/ LoopStep(j)
      PROVE  StoreInv'
  BY <1>1, SubmitStore, SubmitCancelledStore, SubmittedStore, RunStore, RunningStore, GroupAbortsStore,
     BatchEndsStore, SettledStore, BatchCancelledStore, CloseReadsStore, CloseReadStore, CloseSettledStore
  DEF LoopStep
<1>2. ASSUME NEW j \in Jobs, Read(j)
      PROVE  StoreInv'
  BY <1>2, QuietStore DEF Read, ReadRecord, ReadRow, EndPage, runVars, ioVars, storeVars
<1>3. ASSUME NEW j \in Jobs, NEW u \in Urls, ItemStep(j, u)
      PROVE  StoreInv'
  BY <1>3, ItemStore, WriteRowStore, RowWrittenStore, ProgressSavedStore DEF ItemStep
<1>4. ASSUME ThreadStep
      PROVE  StoreInv'
  BY <1>4, ThreadTouchesStore, ThreadRunsStore, ThreadFailsStore, ThreadSkipsStore DEF ThreadStep
<1>5. ASSUME Close \/ Crash \/ Tick
      PROVE  StoreInv'
  BY <1>5, CloseStore, CrashStore, TickStore
<1>6. ASSUME Closed \/ Restart
      PROVE  StoreInv'
  BY <1>6, QuietStore DEF Closed, Restart, runVars, ioVars, storeVars, worldVars
<1>7. ASSUME UNCHANGED vars
      PROVE  StoreInv'
  BY <1>7, QuietStore DEF vars
<1> QED
  BY <1>1, <1>2, <1>3, <1>4, <1>5, <1>6, <1>7 DEF Next

LEMMA StoreInvHolds ==
  ASSUME Slack < Ttl
  PROVE  Spec => []StoreInv
  BY JobsInvInit, JobsInvHolds, StoreInvInit, StoreInvNext, PTL DEF Spec

(* What a readable record promises, its rows keep: until it is settled they *)
(* last for the deadline and the ttl together, and once it is, exactly as   *)
(* long as the record (jobs.py, _keep and _settle).  The process ends a job *)
(* sooner after its deadline than the ttl runs out.                         *)
THEOREM RowsBackTheirRecord ==
  ASSUME Slack < Ttl
  PROVE  Spec => []RowsBackRecord
<1>1. JobsInv /\ StoreInv => RowsBackRecord
  <2> SUFFICES ASSUME JobsInv, StoreInv, NEW j \in Jobs, Live(records[j])
               PROVE  /\ phase[j] \in {"open", "settled"} =>
                           \A n \in Seqs : n < records[j].done =>
                               Live(rows[j][n]) \/ now >= records[j].deadline + Ttl
                      /\ phase[j] = "settled" =>
                           \A n \in Present(j) : rows[j][n].expire = records[j].expire
    BY DEF RowsBackRecord
  <2>1. RowsLast(j)
    BY DEF StoreInv
  <2>2. ASSUME phase[j] \in {"open", "settled"}, NEW n \in Seqs, n < records[j].done
        PROVE  Live(rows[j][n]) \/ now >= records[j].deadline + Ttl
    <3>1. n \in Present(j) /\ n \in Nat
      BY <2>1, <2>2, Constants DEF RowsLast
    <3>2. CASE phase[j] = "settled"
      BY <2>1, <3>1, <3>2 DEF RowsLast, Live
    <3>3. CASE phase[j] = "open"
      <4>1. records[j].status # "none"
        BY <2>1, <2>2, <3>1 DEF RowsLast, NoStored, Stored, NoRecord
      <4>2. rows[j][n].expire >= records[j].deadline + Ttl
        BY <2>1, <3>1, <3>3, <4>1 DEF RowsLast
      <4>3. rows[j][n].expire \in Nat /\ records[j].deadline + Ttl \in Nat /\ now \in Nat
        BY Held1, Constants
      <4> QED
        BY <4>2, <4>3 DEF Live
    <3> QED
      BY <2>2, <3>2, <3>3
  <2> QED
    BY <2>1, <2>2 DEF RowsLast
<1> QED
  BY <1>1, JobsInvHolds, StoreInvHolds, PTL

-----------------------------------------------------------------------------
(* What a client can see of the store does not change in most steps.        *)
StoreStill ==
    /\ records' = records /\ now' = now
    /\ \A k \in Jobs : Present(k)' = Present(k) /\ \A n \in Present(k) : rows'[k][n].url = rows[k][n].url

LEMMA StoreMoves ==
  ASSUME JobsInv, [Next]_vars
  PROVE  StoreStill \/ Tick \/ ThreadRuns
<1>1. UNCHANGED <<records, rows, now>> => StoreStill
  BY DEF StoreStill, Present
<1>2. ASSUME NEW j \in Jobs, Submit(j) \/ SubmitCancelled(j) \/ LoopStep(j)
      PROVE  StoreStill
  BY <1>1, <1>2 DEF LoopStep, Submit, SubmitCancelled, Submitted, Run, Running, GroupAborts, BatchEnds, Settled,
     BatchCancelled, CloseReads, CloseRead, CloseSettled, worldVars, storeVars
<1>3. ASSUME NEW j \in Jobs, Read(j)
      PROVE  StoreStill
  BY <1>1, <1>3 DEF Read, ReadRecord, ReadRow, EndPage, storeVars
<1>4. ASSUME NEW j \in Jobs, NEW u \in Urls, ItemStep(j, u)
      PROVE  StoreStill
  BY <1>1, <1>4 DEF ItemStep, Acquire, CrawlEnds, QueueExpires, WriteRow, RowWritten, ProgressSaved, worldVars
<1>5. ASSUME ThreadTouches
      PROVE  StoreStill
  <2>1. PICK c \in Queued :
          /\ c.at \in Seqs
          /\ \A k \in Jobs \ {c.job} : rows'[k] = rows[k]
          /\ \A n \in Seqs \ {c.at} : rows'[c.job][n] = rows[c.job][n]
          /\ rows'[c.job][c.at].url = rows[c.job][c.at].url /\ Present(c.job)' = Present(c.job)
          /\ records' = records /\ now' = now
    BY <1>5, HeadTouches
  <2>2. c.job \in Jobs
    BY QueuedCalls, CallJob
  <2>3. ASSUME NEW k \in Jobs
        PROVE  Present(k)' = Present(k) /\ \A n \in Present(k) : rows'[k][n].url = rows[k][n].url
    BY <2>1, <2>2 DEF Present
  <2> QED
    BY <2>1, <2>3 DEF StoreStill
<1>6. ASSUME ThreadFails \/ ThreadSkips \/ Close \/ Closed \/ Crash \/ Restart \/ UNCHANGED vars
      PROVE  StoreStill
  BY <1>1, <1>6 DEF ThreadFails, ThreadSkips, Close, Closed, Crash, Restart, vars, worldVars, storeVars
<1> QED
  BY <1>2, <1>3, <1>4, <1>5, <1>6 DEF Next, ThreadStep

(* A row that was stored stays stored, if only beyond its expiry.           *)
LEMMA RowsStored ==
  ASSUME JobsInv, [Next]_vars, NEW j \in Jobs
  PROVE  Present(j) \subseteq Present(j)'
<1>1. CASE StoreStill
  BY <1>1 DEF StoreStill
<1>2. CASE Tick
  BY <1>2 DEF Tick, storeVars, Present
<1>3. CASE ThreadRuns
  <2>1. PICK c \in Queued :
          /\ c.kind = "row" =>
               rows' = [rows EXCEPT ![c.job][c.seq] = [url |-> c.url, expire |-> now + c.keep]]
          /\ c.kind # "row" => rows' = rows
    BY <1>3, HeadRuns
  <2>2. c \in CallSet
    BY QueuedCalls
  <2>3. CASE c.kind # "row"
    BY <2>1, <2>3 DEF Present
  <2>4. CASE c.kind = "row"
    <3>1. c.job \in Jobs /\ c.seq \in Seqs /\ c.url \in Urls
      BY <2>2, <2>4, CallParts
    <3>2. PICK row : row = [url |-> c.url, expire |-> now + c.keep]
      OBVIOUS
    <3>3. row # NoRow
      BY <3>1, <3>2, Constants DEF NoRow
    <3>4. rows' = [rows EXCEPT ![c.job][c.seq] = row] /\ rows \in [Jobs -> [Seqs -> [url : Urls \cup {Nobody}, expire : Nat]]]
      BY <2>1, <2>4, <3>2 DEF JobsInv, JobTypes
    <3>5. \A n \in Seqs : rows'[j][n] = rows[j][n] \/ rows'[j][n] = row
      BY <3>1, <3>4
    <3> QED
      BY <3>3, <3>5 DEF Present
  <2> QED
    BY <2>3, <2>4
<1> QED
  BY <1>1, <1>2, <1>3, StoreMoves

(* A client has only rows that were stored, from the first on.              *)
Clients == [at : {"idle", "page", "end"}, seen : Statuses \cup {"lost"}, paged : Nat, got : Nat]
ReaderInv ==
    /\ reader \in [Jobs -> Clients]
    /\ \A j \in Jobs : \A n \in Nat : n < reader[j].got => n \in Present(j)

LEMMA FreshClients == Unread \in Clients /\ Done \in Clients /\ Unread.got = 0 /\ Done.got = 0
BY DEF Unread, Done, Clients, Statuses

LEMMA ReaderInvInit == Init => ReaderInv
<1> SUFFICES ASSUME Init PROVE ReaderInv
  OBVIOUS
<1>1. reader = [j \in Jobs |-> Unread]
  BY DEF Init
<1> QED
  BY <1>1, FreshClients DEF ReaderInv

LEMMA ReaderInvNext == JobsInv /\ ReaderInv /\ [Next]_vars => ReaderInv'
<1> SUFFICES ASSUME JobsInv, ReaderInv, [Next]_vars PROVE ReaderInv'
  OBVIOUS
<1>1. /\ reader \in [Jobs -> Clients]
      /\ \A j \in Jobs : \A n \in Nat : n < reader[j].got => n \in Present(j)
      /\ \A j \in Jobs : Present(j) \subseteq Present(j)'
  BY RowsStored DEF ReaderInv
<1>2. CASE reader' = reader
  BY <1>1, <1>2 DEF ReaderInv
<1>3. ASSUME NEW j \in Jobs, NEW r \in Clients, reader' = [reader EXCEPT ![j] = r],
             \A n \in Nat : n < r.got => n \in Present(j)'
      PROVE  ReaderInv'
  <2>1. reader' \in [Jobs -> Clients]
    BY <1>1, <1>3
  <2>2. reader'[j] = r /\ \A k \in Jobs \ {j} : reader'[k] = reader[k]
    BY <1>1, <1>3
  <2>3. ASSUME NEW k \in Jobs, NEW n \in Nat, n < reader'[k].got
        PROVE  n \in Present(k)'
    <3>1. CASE k = j
      BY <1>3, <2>2, <2>3, <3>1
    <3>2. CASE k # j
      BY <1>1, <2>2, <2>3, <3>2
    <3> QED
      BY <3>1, <3>2
  <2> QED
    BY <2>1, <2>3 DEF ReaderInv
<1>4. ASSUME NEW j \in Jobs, reader' = [reader EXCEPT ![j] = Done]
      PROVE  ReaderInv'
  <2>1. PICK r \in Clients : r = Done /\ r.got = 0
    BY FreshClients
  <2>2. \A n \in Nat : n < r.got => n \in Present(j)'
    BY <2>1
  <2>3. reader' = [reader EXCEPT ![j] = r]
    BY <1>4, <2>1
  <2> QED
    BY <1>3, <2>2, <2>3
<1>5. ASSUME NEW j \in Jobs, ReadRecord(j)
      PROVE  ReaderInv'
  <2>1. reader[j] \in Clients /\ Poll(j) \in Statuses \cup {"lost"}
    BY <1>1, Held1 DEF Poll, Statuses
  <2>2. PICK r : r = [reader[j] EXCEPT !.at = "page", !.seen = Poll(j)]
    OBVIOUS
  <2>3. r \in Clients /\ r.got = reader[j].got
    BY <2>1, <2>2 DEF Clients
  <2>4. reader' = [reader EXCEPT ![j] = IF Poll(j) = "none" THEN Done ELSE r]
    <3>1. r = [reader[j] EXCEPT !.at = "page", !.seen = Poll(j)]
      BY <2>2
    <3> HIDE DEF Done
    <3> QED
      BY <1>5, <3>1, Zenon DEF ReadRecord
  <2> QED
    BY <1>1, <1>3, <1>4, <2>3, <2>4
<1>6. ASSUME NEW j \in Jobs, ReadRow(j)
      PROVE  ReaderInv'
  <2>1. reader[j] \in Clients /\ Live(NextRow(j))
    BY <1>1, <1>6 DEF ReadRow
  <2>2. PICK m \in Nat : m = reader[j].got
    BY <2>1 DEF Clients
  <2>3. m \in Present(j)
    <3>1. now \in Nat
      BY DEF JobsInv, JobTypes
    <3>2. NextRow(j) # NoRow
      BY <2>1, <3>1 DEF Live, NoRow
    <3>3. m \in Seqs /\ NextRow(j) = rows[j][m]
      BY <2>2, <3>2 DEF NextRow
    <3> QED
      BY <3>2, <3>3 DEF Present
  <2>4. PICK r : r = [reader[j] EXCEPT !.got = m + 1, !.paged = reader[j].paged + 1]
    OBVIOUS
  <2>5. r \in Clients /\ r.got = m + 1
    <3>1. PICK c : c = reader[j]
      OBVIOUS
    <3>2. c \in Clients /\ r = [c EXCEPT !.got = m + 1, !.paged = c.paged + 1]
      BY <2>1, <2>4, <3>1
    <3> QED
      <4>1. c.paged \in Nat
        BY <3>2 DEF Clients
      <4>2. PICK p \in Nat, g \in Nat : p = c.paged + 1 /\ g = m + 1
        BY <4>1
      <4>3. r = [c EXCEPT !.got = g, !.paged = p]
        BY <3>2, <4>2
      <4>4. r \in Clients /\ r.got = g
        BY <3>2, <4>2, <4>3 DEF Clients
      <4> QED
        BY <4>2, <4>4
  <2>6. reader' = [reader EXCEPT ![j] = r]
    BY <1>1, <1>6, <2>2, <2>4 DEF ReadRow
  <2>7. \A n \in Nat : n < m + 1 => n \in Present(j)
    BY <1>1, <2>2, <2>3
  <2> QED
    BY <1>1, <1>3, <2>5, <2>6, <2>7
<1>7. ASSUME NEW j \in Jobs, EndPage(j)
      PROVE  ReaderInv'
  <2>1. reader[j] \in Clients
    BY <1>1
  <2>2. PICK r : r = [Unread EXCEPT !.got = reader[j].got]
    OBVIOUS
  <2>3. r \in Clients /\ r.got = reader[j].got
    BY <2>1, <2>2 DEF Clients, Unread, Statuses
  <2>4. reader' = [reader EXCEPT ![j] = IF LastPage(j) THEN Done ELSE r]
    BY <1>7, <2>2 DEF EndPage
  <2> QED
    BY <1>1, <1>3, <1>4, <2>3, <2>4
<1>8. (\E j \in Jobs : Read(j)) \/ reader' = reader
  <2>1. ASSUME NEW j \in Jobs, Submit(j) \/ SubmitCancelled(j) \/ LoopStep(j)
        PROVE  reader' = reader
    BY <2>1 DEF LoopStep, Submit, SubmitCancelled, Submitted, Run, Running, GroupAborts, BatchEnds, Settled,
       BatchCancelled, CloseReads, CloseRead, CloseSettled, worldVars
  <2>2. ASSUME NEW j \in Jobs, NEW u \in Urls, ItemStep(j, u)
        PROVE  reader' = reader
    BY <2>2, SMTT(30) DEF ItemStep, Acquire, CrawlEnds, QueueExpires, WriteRow, RowWritten, ProgressSaved, worldVars
  <2>3. ASSUME ThreadStep \/ Close \/ Closed \/ Crash \/ Restart \/ Tick \/ UNCHANGED vars
        PROVE  reader' = reader
    BY <2>3 DEF ThreadStep, ThreadTouches, ThreadRuns, ThreadFails, ThreadSkips, Close, Closed, Crash, Restart, Tick,
       vars, worldVars
  <2> QED
    BY <2>1, <2>2, <2>3 DEF Next
<1> QED
  BY <1>2, <1>5, <1>6, <1>7, <1>8 DEF Read

(* A client that stops at the empty page of a job whose record says it      *)
(* ended has every row of it, as long as the record is there and was        *)
(* settled: rows never expire before it (jobs.py, rows).                    *)
THEOREM ClientsMissNoRow ==
  ASSUME Slack < Ttl
  PROVE  Spec => ReaderComplete
<1> DEFINE Complete == \A j \in Jobs :
              /\ EndPage(j) /\ LastPage(j)
              /\ reader[j].seen \in Final /\ Live(records[j]) /\ phase[j] = "settled"
              => reader[j].got = Cardinality(Present(j))
<1>1. Spec => []ReaderInv
  BY ReaderInvInit, ReaderInvNext, JobsInvHolds, PTL DEF Spec
<1>2. JobsInv /\ StoreInv /\ ReaderInv => [Complete]_vars
  <2> SUFFICES ASSUME JobsInv, StoreInv, ReaderInv, NEW j \in Jobs, EndPage(j), LastPage(j),
                      Live(records[j]), phase[j] = "settled"
               PROVE  reader[j].got = Cardinality(Present(j))
    OBVIOUS
  <2>1. RowsLast(j) /\ RowsKnown(j)
    BY DEF StoreInv, JobsInv
  <2>2. PICK k \in Nat : Present(j) = 0..(k - 1)
    BY <2>1 DEF RowsKnown
  <2>3. Cardinality(Present(j)) = k
    BY <2>2, FS_Interval
  <2>4. PICK m \in Nat : m = reader[j].got
    BY DEF ReaderInv, Clients
  <2>5. ~Live(NextRow(j))
    <3>1. reader[j].paged = 0
      BY DEF LastPage
    <3>2. ~PageFull(j)
      BY <3>1, JobsAssumption DEF PageFull
    <3> QED
      BY <3>2 DEF EndPage
  <2>6. m \notin Present(j)
    <3> SUFFICES ASSUME m \in Present(j) PROVE FALSE
      OBVIOUS
    <3>1. m \in Seqs /\ NextRow(j) = rows[j][m]
      BY <2>4 DEF Present, NextRow
    <3>2. rows[j][m].expire = records[j].expire
      BY <2>1 DEF RowsLast
    <3> QED
      BY <2>5, <3>1, <3>2 DEF Live
  <2>7. m <= k
    <3> SUFFICES ASSUME k < m PROVE FALSE
      BY <2>2, <2>4
    <3>1. k \in Present(j)
      BY <2>4 DEF ReaderInv
    <3> QED
      BY <2>2, <3>1
  <2> QED
    BY <2>2, <2>3, <2>4, <2>6, <2>7
<1> QED
  BY <1>1, <1>2, JobsInvHolds, StoreInvHolds, PTL DEF ReaderComplete

-----------------------------------------------------------------------------
(* The rows of a job as the contract shows them.                            *)
ShownRows(j) ==
    IF Live(records[j]) THEN [n \in 1..Cardinality(Present(j)) |-> rows[j][n - 1].url] ELSE <<>>

LEMMA ShownLength ==
  ASSUME JobsInv, NEW j \in Jobs, Live(records[j])
  PROVE  \E k \in Nat : /\ Present(j) = 0..(k - 1) /\ Cardinality(Present(j)) = k
                        /\ ShownRows(j) = [n \in 1..k |-> rows[j][n - 1].url]
                        /\ ShownRows(j) \in Seq(Urls) /\ Len(ShownRows(j)) = k
<1>1. RowsKnown(j)
  BY DEF JobsInv
<1>2. PICK k \in Nat : Present(j) = 0..(k - 1)
  BY <1>1 DEF RowsKnown
<1>3. Cardinality(Present(j)) = k
  BY <1>2, FS_Interval
<1>4. ShownRows(j) = [n \in 1..k |-> rows[j][n - 1].url]
  BY <1>3 DEF ShownRows
<1>5. \A n \in 1..k : n - 1 \in Present(j)
  BY <1>2
<1>6. \A n \in 1..k : rows[j][n - 1].url \in Urls
  BY <1>1, <1>5 DEF RowsKnown
<1>7. ShownRows(j) \in Seq(Urls) /\ Len(ShownRows(j)) = k
  BY <1>4, <1>6
<1> QED
  BY <1>2, <1>3, <1>4, <1>7

(* A job is shown the same rows as long as they and its place in the store  *)
(* are the same.                                                            *)
LEMMA ShownSame ==
  ASSUME JobsInv, NEW j \in Jobs, Live(records[j])' <=> Live(records[j]), Present(j)' = Present(j),
         \A n \in Present(j) : rows'[j][n].url = rows[j][n].url
  PROVE  ShownRows(j)' = ShownRows(j)
<1>1. CASE ~Live(records[j])
  BY <1>1 DEF ShownRows
<1>2. CASE Live(records[j])
  <2>1. PICK k \in Nat : /\ Present(j) = 0..(k - 1) /\ Cardinality(Present(j)) = k
                         /\ ShownRows(j) = [n \in 1..k |-> rows[j][n - 1].url]
    BY <1>2, ShownLength
  <2>2. ShownRows(j)' = [n \in 1..k |-> rows'[j][n - 1].url]
    BY <1>2, <2>1 DEF ShownRows
  <2>3. \A n \in 1..k : n - 1 \in Present(j)
    BY <2>1
  <2> QED
    BY <2>1, <2>2, <2>3
<1> QED
  BY <1>1, <1>2

(* The steps of the contract, in terms of the store.                        *)
LEMMA ContractStill ==
  ASSUME \A k \in Jobs : StoredStatus(k)' = StoredStatus(k) /\ ShownRows(k)' = ShownRows(k)
  PROVE  UNCHANGED Contract!contractVars
<1>1. [k \in Jobs |-> StoredStatus(k)]' = [k \in Jobs |-> StoredStatus(k)]
  OBVIOUS
<1>2. [k \in Jobs |-> ShownRows(k)]' = [k \in Jobs |-> ShownRows(k)]
  OBVIOUS
<1> QED
  BY <1>1, <1>2 DEF Contract!contractVars, ShownRows

LEMMA ContractMoves ==
  ASSUME NEW j \in Jobs, NEW s, StoredStatus(j)' = s,
         \A k \in Jobs \ {j} : StoredStatus(k)' = StoredStatus(k), \A k \in Jobs : ShownRows(k)' = ShownRows(k),
         \/ StoredStatus(j) = "absent" /\ s = "queued"
         \/ StoredStatus(j) = "queued" /\ s = "running"
         \/ /\ StoredStatus(j) \in UNFINISHED /\ s \in Final
            /\ s = "done" => /\ StoredStatus(j) = "running"
                             /\ {ShownRows(j)[i] : i \in 1..Len(ShownRows(j))} = Urls
  PROVE  Contract!ContractNext
<1> DEFINE old == [k \in Jobs |-> StoredStatus(k)]
           row == [k \in Jobs |-> ShownRows(k)]
<1>1. [k \in Jobs |-> StoredStatus(k)]' = [old EXCEPT ![j] = s]
  OBVIOUS
<1>2. [k \in Jobs |-> ShownRows(k)]' = row
  OBVIOUS
<1>3. old[j] = StoredStatus(j) /\ row[j] = ShownRows(j)
  OBVIOUS
<1>4. ASSUME StoredStatus(j) = "absent" /\ s = "queued"
      PROVE  Contract!Accept(j)
  BY <1>1, <1>2, <1>3, <1>4 DEF Contract!Accept, ShownRows
<1>5. ASSUME StoredStatus(j) = "queued" /\ s = "running"
      PROVE  Contract!Begin(j)
  BY <1>1, <1>2, <1>3, <1>5 DEF Contract!Begin, ShownRows
<1>6. ASSUME StoredStatus(j) \in UNFINISHED, s \in Final,
             s = "done" => /\ StoredStatus(j) = "running"
                           /\ {ShownRows(j)[i] : i \in 1..Len(ShownRows(j))} = Urls
      PROVE  Contract!Finish(j, s)
  <2>1. old[j] \in {"queued", "running"}
    BY <1>3, <1>6 DEF UNFINISHED
  <2>2. s = "done" => old[j] = "running" /\ {row[j][i] : i \in 1..Len(row[j])} = Urls
    BY <1>3, <1>6
  <2> QED
    BY <1>1, <1>2, <2>1, <2>2 DEF Contract!Finish, Contract!RowsOf, Contract!Unfinished, ShownRows
<1>7. Final = Contract!Final
  BY DEF Final, Contract!Final
<1> QED
  BY <1>4, <1>5, <1>6, <1>7 DEF Contract!ContractNext

LEMMA ContractRow ==
  ASSUME NEW j \in Jobs, NEW u \in Urls, \A k \in Jobs : StoredStatus(k)' = StoredStatus(k),
         StoredStatus(j) = "running", ShownRows(j)' = Append(ShownRows(j), u),
         u \notin {ShownRows(j)[i] : i \in 1..Len(ShownRows(j))},
         \A k \in Jobs \ {j} : ShownRows(k)' = ShownRows(k)
  PROVE  Contract!ContractNext
<1> DEFINE old == [k \in Jobs |-> StoredStatus(k)]
           row == [k \in Jobs |-> ShownRows(k)]
<1>1. [k \in Jobs |-> StoredStatus(k)]' = old
  OBVIOUS
<1>2. [k \in Jobs |-> ShownRows(k)]' = [row EXCEPT ![j] = Append(@, u)]
  OBVIOUS
<1>3. old[j] = StoredStatus(j) /\ row[j] = ShownRows(j)
  OBVIOUS
<1>4. Contract!AddRow(j, u)
  BY <1>1, <1>2, <1>3 DEF Contract!AddRow, Contract!RowsOf, ShownRows
<1> QED
  BY <1>4 DEF Contract!ContractNext

LEMMA ContractExpires ==
  ASSUME NEW S \in SUBSET Jobs, S # {},
         \A k \in S : /\ StoredStatus(k) \in UNFINISHED \cup Final
                      /\ StoredStatus(k)' = "expired" /\ ShownRows(k)' = <<>>,
         \A k \in Jobs \ S : StoredStatus(k)' = StoredStatus(k) /\ ShownRows(k)' = ShownRows(k)
  PROVE  Contract!ContractNext
<1> DEFINE old == [k \in Jobs |-> StoredStatus(k)]
           row == [k \in Jobs |-> ShownRows(k)]
<1>1. [k \in Jobs |-> StoredStatus(k)]' = [k \in Jobs |-> IF k \in S THEN "expired" ELSE old[k]]
  OBVIOUS
<1>2. [k \in Jobs |-> ShownRows(k)]' = [k \in Jobs |-> IF k \in S THEN <<>> ELSE row[k]]
  OBVIOUS
<1>3. \A k \in S : old[k] \in UNFINISHED \cup Final
  OBVIOUS
<1>4. Contract!Expire(S)
  BY <1>1, <1>2, <1>3
  DEF Contract!Expire, Contract!Unfinished, Contract!Final, UNFINISHED, Final, ShownRows
<1> QED
  BY <1>4 DEF Contract!ContractNext

LEMMA StillKeepsContract ==
  ASSUME JobsInv, StoreStill
  PROVE  UNCHANGED Contract!contractVars
<1>1. ASSUME NEW k \in Jobs
      PROVE  StoredStatus(k)' = StoredStatus(k) /\ ShownRows(k)' = ShownRows(k)
  <2>1. (Live(records[k])' <=> Live(records[k])) /\ records'[k] = records[k]
    BY DEF StoreStill, Live
  <2>2. StoredStatus(k)' = StoredStatus(k)
    BY <2>1 DEF StoredStatus
  <2>3. ShownRows(k)' = ShownRows(k)
    BY <2>1, ShownSame DEF StoreStill
  <2> QED
    BY <2>2, <2>3
<1> QED
  BY <1>1, ContractStill

(* A tick of the clock expires the records whose time has come.             *)
LEMMA TickExpires ==
  ASSUME JobsInv, StoreInv, Tick
  PROVE  [Contract!ContractNext]_(Contract!contractVars)
<1> DEFINE S == {k \in Jobs : Live(records[k]) /\ ~(records[k].expire > now + 1)}
<1>1. now \in Nat /\ now' = now + 1 /\ records' = records /\ rows' = rows
  BY DEF Tick, storeVars, JobsInv, JobTypes
<1>2. ASSUME NEW k \in Jobs
      PROVE  /\ Live(records[k])' <=> Live(records[k]) /\ k \notin S
             /\ Present(k)' = Present(k)
             /\ Live(records[k]) => records[k].status \in UNFINISHED \cup Final
  <2>1. Live(records[k])' <=> records[k].expire > now + 1
    BY <1>1 DEF Live
  <2>2. records[k].expire \in Nat /\ records[k].status \in Statuses
    BY Held1
  <2>3. Live(records[k]) => records[k].status # "none"
    BY <1>1 DEF StoreInv, RowsLast, Live, NoStored, Stored
  <2>4. records[k].expire > now + 1 => Live(records[k])
    BY <1>1, <2>2 DEF Live
  <2>5. Present(k)' = Present(k)
    BY <1>1 DEF Present
  <2> QED
    BY <2>1, <2>2, <2>3, <2>4, <2>5 DEF Statuses
<1>3. ASSUME NEW k \in Jobs \ S
      PROVE  StoredStatus(k)' = StoredStatus(k) /\ ShownRows(k)' = ShownRows(k)
  <2>1. (Live(records[k])' <=> Live(records[k])) /\ Present(k)' = Present(k)
    BY <1>2
  <2>2. StoredStatus(k)' = StoredStatus(k)
    BY <1>1, <2>1 DEF StoredStatus
  <2>3. ShownRows(k)' = ShownRows(k)
    BY <1>1, <2>1, ShownSame
  <2> QED
    BY <2>2, <2>3
<1>4. ASSUME NEW k \in S
      PROVE  /\ StoredStatus(k) \in UNFINISHED \cup Final
             /\ StoredStatus(k)' = "expired" /\ ShownRows(k)' = <<>>
  <2>1. k \in Jobs /\ Live(records[k]) /\ ~Live(records[k])' /\ records[k].status \in UNFINISHED \cup Final
    BY <1>2
  <2>2. records[k].status # "none"
    BY <2>1 DEF UNFINISHED, Final
  <2>3. ShownRows(k)' = <<>>
    BY <2>1 DEF ShownRows
  <2>4. StoredStatus(k)' = "expired"
    BY <1>1, <2>1, <2>2 DEF StoredStatus
  <2> QED
    BY <2>1, <2>2, <2>3, <2>4 DEF StoredStatus
<1>5. S \in SUBSET Jobs
  OBVIOUS
<1> HIDE DEF S
<1>6. CASE S = {}
  BY <1>3, <1>6, ContractStill
<1>7. CASE S # {}
  BY <1>3, <1>4, <1>5, <1>7, ContractExpires
<1> QED
  BY <1>6, <1>7

(* A write of a live process finds the record of its job there, if it was   *)
(* ever stored: the ttl outlasts what the process takes beyond a deadline.  *)
LEMMA WriteFindsRecord ==
  ASSUME JobsInv, StoreInv, Slack < Ttl, NEW c \in Queued, NEW j, j = c.job, c.kind # "get"
  PROVE  /\ j \in Jobs
         /\ records[j].status # "none" /\ (memory[j].status # "queued" \/ pc[j] # "refused") => Live(records[j])
         /\ c.kind = "settle" /\ records[j].status # "none" => Live(records[j])
         /\ records[j].status = "none" => records[j] = NoStored /\ ~Live(records[j])
<1>1. c \in CallSet /\ j \in Jobs /\ WriteKnown(c) /\ CallKnown(c)
  BY QueuedCalls, CallJob DEF StoreInv, JobsInv
<1>2. RowsLast(j) /\ StatusKnown(j) /\ JobKnown(j)
  BY <1>1 DEF StoreInv, JobsInv
<1>3. now \in Nat /\ records[j].expire \in Nat /\ memory[j].deadline \in Nat /\ Slack \in Nat /\ Ttl \in Nat
  BY <1>1, Held1, Constants, JobsAssumption
<1>4. ASSUME j \in Held, records[j].status # "none"
      PROVE  Live(records[j])
  <2>1. now <= memory[j].deadline + Slack
    BY <1>2, <1>4 DEF RowsLast
  <2>2. records[j].expire >= memory[j].deadline + Ttl
    BY <1>1, <1>4 DEF WriteKnown
  <2>3. records[j].expire > now
    BY <1>3, <2>1, <2>2
  <2> QED
    BY <2>3 DEF Live
<1>5. j \in Held \/ (pc[j] = "refused" /\ memory[j].status = "queued")
  BY <1>1, <1>2 DEF WriteKnown, StatusKnown
<1>6. c.kind = "settle" => j \in Held
  BY <1>1, <1>2 DEF WriteKnown, JobKnown, Held, Unended
<1>7. records[j].status = "none" => records[j] = NoStored /\ ~Live(records[j])
  BY <1>2, <1>3 DEF RowsLast, NoStored, Stored, Live
<1> QED
  BY <1>1, <1>4, <1>5, <1>6, <1>7

(* A job whose items are all done shows a row for every URL.                *)
LEMMA DoneShowsAll ==
  ASSUME JobsInv, NEW j \in Jobs, Live(records[j]), \A u \in Urls : item[j][u] = "done"
  PROVE  {ShownRows(j)[i] : i \in 1..Len(ShownRows(j))} = Urls
<1>1. RowsKnown(j)
  BY DEF JobsInv
<1>2. PICK k \in Nat : /\ Present(j) = 0..(k - 1)
                       /\ ShownRows(j) = [n \in 1..k |-> rows[j][n - 1].url] /\ Len(ShownRows(j)) = k
  BY ShownLength
<1>3. ASSUME NEW u \in Urls
      PROVE  \E i \in 1..k : ShownRows(j)[i] = u
  <2>1. PICK n \in Present(j) : rows[j][n].url = u
    BY <1>1 DEF RowsKnown
  <2>2. n \in 0..(k - 1)
    BY <1>2
  <2>3. n + 1 \in 1..k /\ (n + 1) - 1 = n
    BY <2>2
  <2> QED
    BY <1>2, <2>1, <2>3
<1>4. ASSUME NEW i \in 1..k
      PROVE  ShownRows(j)[i] \in Urls
  <2>1. i - 1 \in Present(j)
    BY <1>2
  <2> QED
    BY <1>1, <1>2, <2>1 DEF RowsKnown
<1>5. {ShownRows(j)[i] : i \in 1..k} = Urls
  BY <1>3, <1>4
<1> QED
  BY <1>2, <1>5

(* The storage thread finishes a save.                                      *)
LEMMA SaveKeepsContract ==
  ASSUME JobsInv, StoreInv, Slack < Ttl, NEW c \in Queued, NEW j, j = c.job, c.kind = "save",
         records' = [records EXCEPT ![j] = Stored(memory[j], now + c.keep)], rows' = rows, now' = now
  PROVE  [Contract!ContractNext]_(Contract!contractVars)
<1>1. /\ j \in Jobs /\ WriteKnown(c) /\ CallKnown(c) /\ StatusKnown(j) /\ JobKnown(j) /\ RowsKnown(j) /\ c.keep \in Nat
  BY QueuedCalls, CallJob, CallParts DEF StoreInv, JobsInv
<1>2. /\ records[j].status # "none" /\ memory[j].status # "queued" => Live(records[j])
      /\ records[j].status = "none" => ~Live(records[j])
  BY WriteFindsRecord
<1>3. /\ \A k \in Jobs \ {j} : records'[k] = records[k]
      /\ records'[j].status = memory[j].status /\ records'[j].expire = now + c.keep
  BY <1>1 DEF JobsInv, JobTypes, Stored
<1>4. Live(records[j])'
  <2>1. c.keep >= Ttl /\ Ttl >= 1 /\ Ttl \in Nat /\ now \in Nat
    BY <1>1, Held1, JobsAssumption DEF WriteKnown
  <2>2. now + c.keep > now
    BY <1>1, <2>1
  <2> QED
    BY <1>3, <2>2 DEF Live
<1>5. memory[j].status \in UNFINISHED \cup Final
  BY <1>1, Held1 DEF StatusKnown, CallKnown, Statuses
<1>6. StoredStatus(j)' = memory[j].status
  <2>1. records'[j].status # "none"
    BY <1>3, <1>5 DEF UNFINISHED, Final
  <2> QED
    BY <1>3, <1>4, <2>1 DEF StoredStatus
<1>7. \A k \in Jobs : Present(k)' = Present(k)
  BY DEF Present
<1>8. \A k \in Jobs \ {j} : (Live(records[k])' <=> Live(records[k]))
  BY <1>3 DEF Live
<1>9. ASSUME NEW k \in Jobs \ {j}
      PROVE  StoredStatus(k)' = StoredStatus(k) /\ ShownRows(k)' = ShownRows(k)
  <2>1. ShownRows(k)' = ShownRows(k)
    BY <1>7, <1>8, ShownSame
  <2> QED
    BY <1>3, <1>8, <2>1 DEF StoredStatus
<1>10. CASE memory[j].status = "queued"
  <2>1. records[j].status = "none" /\ ~Live(records[j])
    BY <1>1, <1>2, <1>10 DEF WriteKnown
  <2>2. StoredStatus(j) = "absent"
    BY <2>1 DEF StoredStatus
  <2>3. pc[j] \in {"submit", "refused"}
    BY <1>1, <2>1 DEF StatusKnown, CallKnown
  <2>4. \A u \in Urls : item[j][u] = "none"
    BY <1>1, <2>3 DEF JobKnown
  <2>5. Present(j) = {}
    <3> SUFFICES ASSUME NEW n \in Present(j) PROVE FALSE
      OBVIOUS
    <3>1. rows[j][n].url \in Urls /\ item[j][rows[j][n].url] \in {"write", "save", "done", "failed", "cancelled"}
      BY <1>1, <2>3 DEF RowsKnown
    <3> QED
      BY <2>4, <3>1
  <2>6. ShownRows(j)' = ShownRows(j)
    <3>1. ShownRows(j)' = [n \in 1..0 |-> rows[j][n - 1].url]
      BY <1>1, <1>4, <1>7, <2>5, FS_EmptySet DEF ShownRows
    <3>2. ShownRows(j) = <<>>
      BY <2>1 DEF ShownRows
    <3> QED
      BY <3>1, <3>2
  <2>7. \A k \in Jobs : ShownRows(k)' = ShownRows(k)
    BY <1>9, <2>6
  <2>8. \E s : s = "queued" /\ StoredStatus(j)' = s
    BY <1>6, <1>10
  <2>9. Contract!ContractNext
    BY <1>1, <1>9, <2>2, <2>7, <2>8, ContractMoves
  <2> QED
    BY <2>9
<1>11. CASE memory[j].status # "queued"
  <2>1. /\ memory[j].status = "running" => records[j].status \in UNFINISHED
        /\ memory[j].status \in Final => records[j].status = "running"
    BY <1>1 DEF WriteKnown
  <2>2. records[j].status # "none" /\ Live(records[j])
    BY <1>2, <1>5, <1>11, <2>1 DEF UNFINISHED, Final
  <2>3. StoredStatus(j) = records[j].status
    BY <2>2 DEF StoredStatus
  <2>4. ShownRows(j)' = ShownRows(j)
    BY <1>1, <1>4, <1>7, <2>2, ShownSame
  <2>5. \A k \in Jobs : ShownRows(k)' = ShownRows(k)
    BY <1>9, <2>4
  <2>6. CASE StoredStatus(j) = memory[j].status
    BY <1>6, <1>9, <2>5, <2>6, ContractStill
  <2>7. CASE StoredStatus(j) # memory[j].status
    <3>1. memory[j].status = "done" => {ShownRows(j)[i] : i \in 1..Len(ShownRows(j))} = Urls
      <4> SUFFICES ASSUME memory[j].status = "done"
                   PROVE  {ShownRows(j)[i] : i \in 1..Len(ShownRows(j))} = Urls
        OBVIOUS
      <4>1. \A u \in Urls : item[j][u] = "done"
        BY <1>1 DEF StatusKnown
      <4> QED
        BY <1>1, <2>2, <4>1, DoneShowsAll
    <3>2. \/ StoredStatus(j) = "queued" /\ memory[j].status = "running"
          \/ StoredStatus(j) = "running" /\ memory[j].status \in Final
      BY <1>5, <1>11, <2>1, <2>3, <2>7 DEF UNFINISHED
    <3>3. PICK s : s = memory[j].status
      OBVIOUS
    <3>4. StoredStatus(j) = "running" => StoredStatus(j) \in UNFINISHED
      BY DEF UNFINISHED
    <3>5. Contract!ContractNext
      BY <1>1, <1>6, <1>9, <2>5, <3>1, <3>2, <3>3, <3>4, ContractMoves
    <3> QED
      BY <3>5
  <2> QED
    BY <2>6, <2>7
<1> QED
  BY <1>10, <1>11

(* The storage thread finishes a row: the record of its job is still there. *)
LEMMA RowKeepsContract ==
  ASSUME JobsInv, StoreInv, Slack < Ttl, NEW c \in Queued, NEW j, j = c.job, c.kind = "row",
         rows' = [rows EXCEPT ![j][c.seq] = [url |-> c.url, expire |-> now + c.keep]],
         records' = records, now' = now
  PROVE  [Contract!ContractNext]_(Contract!contractVars)
<1>1. /\ j \in Jobs /\ WriteKnown(c) /\ CallKnown(c) /\ StatusKnown(j) /\ JobKnown(j) /\ RowsKnown(j)
      /\ c.seq \in Seqs /\ c.url \in Urls /\ c.who \in Urls \cup {Nobody}
  BY QueuedCalls, CallJob, CallParts DEF StoreInv, JobsInv
<1>2. PICK m \in Seqs : m = c.seq
  BY <1>1
<1>3. PICK u \in Urls : u = c.url
  BY <1>1
<1>4. /\ \A k \in Jobs \ {j} : rows'[k] = rows[k]
      /\ rows'[j][m] = [url |-> u, expire |-> now + c.keep] /\ \A n \in Seqs \ {m} : rows'[j][n] = rows[j][n]
  BY <1>1, <1>2, <1>3 DEF JobsInv, JobTypes
<1>5. /\ m \in Nat /\ Present(j) = 0..(m - 1) /\ Present(j)' = 0..m
      /\ \A n \in Present(j) : rows[j][n].url # u
  <2>1. m \in Nat
    BY Constants
  <2>2. m = memory[j].done /\ pc[j] # "gone" /\ \A n \in Present(j) : rows[j][n].url # u
    BY <1>1, <1>2, <1>3 DEF CallKnown
  <2>3. ~NoRowQueued(j)
    BY DEF NoRowQueued
  <2>4. Present(j) = 0..(m - 1)
    BY <1>1, <2>2, <2>3 DEF RowsKnown
  <2>5. rows'[j][m].url # Nobody
    BY <1>4, Constants
  <2>6. Present(j)' = Present(j) \cup {m}
    BY <1>2, <1>4, <2>5 DEF Present, NoRow
  <2> QED
    BY <2>1, <2>2, <2>4, <2>6
<1>6. records[j].status = "running" /\ pc[j] # "refused"
  <2>1. records[j].status = "running"
    BY <1>1 DEF WriteKnown
  <2>2. pc[j] # "refused"
    BY <1>1, Constants DEF CallKnown, JobKnown, Quiet, Ended
  <2> QED
    BY <2>1, <2>2
<1>7. Live(records[j]) /\ \A k \in Jobs : (Live(records[k])' <=> Live(records[k]))
  BY <1>6, WriteFindsRecord DEF Live
<1>8. StoredStatus(j) = "running" /\ \A k \in Jobs : StoredStatus(k)' = StoredStatus(k)
  BY <1>6, <1>7 DEF StoredStatus
<1>9. ASSUME NEW k \in Jobs \ {j}
      PROVE  ShownRows(k)' = ShownRows(k)
  <2>1. Present(k)' = Present(k) /\ \A n \in Present(k) : rows'[k][n].url = rows[k][n].url
    BY <1>4 DEF Present
  <2> QED
    BY <1>7, <2>1, ShownSame
<1>10. /\ ShownRows(j) = [n \in 1..m |-> rows[j][n - 1].url]
       /\ ShownRows(j) \in Seq(Urls) /\ Len(ShownRows(j)) = m
  <2>1. PICK k \in Nat : /\ Present(j) = 0..(k - 1) /\ Cardinality(Present(j)) = k
                         /\ ShownRows(j) = [n \in 1..k |-> rows[j][n - 1].url]
                         /\ ShownRows(j) \in Seq(Urls) /\ Len(ShownRows(j)) = k
    BY <1>1, <1>7, ShownLength
  <2>2. k = m
    BY <1>5, <2>1
  <2> QED
    BY <2>1, <2>2
<1>11. ShownRows(j)' = Append(ShownRows(j), u)
  <2>1. Cardinality(Present(j)') = m + 1
    BY <1>5, FS_Interval
  <2>2. ShownRows(j)' = [n \in 1..(m + 1) |-> rows'[j][n - 1].url]
    BY <1>1, <1>7, <2>1 DEF ShownRows
  <2>3. \A n \in 1..m : rows'[j][n - 1].url = ShownRows(j)[n]
    <3> SUFFICES ASSUME NEW n \in 1..m PROVE rows'[j][n - 1].url = ShownRows(j)[n]
      OBVIOUS
    <3>1. n - 1 \in Present(j) /\ n - 1 # m
      BY <1>5
    <3>2. n - 1 \in Seqs
      BY <3>1 DEF Present
    <3> QED
      BY <1>4, <1>10, <3>1, <3>2
  <2>4. rows'[j][(m + 1) - 1].url = u
    <3>1. (m + 1) - 1 = m
      BY <1>5
    <3> QED
      BY <1>4, <3>1
  <2> QED
    BY <1>5, <1>10, <2>2, <2>3, <2>4
<1>12. u \notin {ShownRows(j)[i] : i \in 1..Len(ShownRows(j))}
  <2>1. \A i \in 1..m : i - 1 \in Present(j)
    BY <1>5
  <2> QED
    BY <1>5, <1>10, <2>1
<1> QED
  BY <1>1, <1>8, <1>9, <1>11, <1>12, ContractRow

(* The storage thread finishes a settle: the job has ended, and if its ttl  *)
(* ran out before the settle came to the record, expires with it.           *)
LEMMA SettleKeepsContract ==
  ASSUME JobsInv, StoreInv, Slack < Ttl, NEW c \in Queued, NEW j, j = c.job, c.kind = "settle",
         records' = [records EXCEPT ![j] = Stored(c.rec, c.until)], rows' = rows, now' = now
  PROVE  [Contract!ContractNext]_(Contract!contractVars)
<1>1. j \in Jobs /\ WriteKnown(c) /\ StatusKnown(j) /\ c.rec.status \in Final
  BY QueuedCalls, CallJob DEF StoreInv, JobsInv, WriteKnown
<1>2. /\ records[j].status \in {"queued", "running", c.rec.status}
      /\ c.rec.status = "done" => memory[j].status = "done" /\ records[j].status # "queued"
  BY <1>1 DEF WriteKnown
<1>3. records[j].status # "none" /\ Live(records[j]) /\ StoredStatus(j) = records[j].status
  <2>1. records[j].status # "none"
    BY <1>1, <1>2 DEF Final
  <2>2. Live(records[j])
    BY <2>1, WriteFindsRecord
  <2> QED
    BY <2>1, <2>2 DEF StoredStatus
<1>4. /\ \A k \in Jobs \ {j} : records'[k] = records[k]
      /\ records'[j].status = c.rec.status /\ records'[j].expire = c.until
  BY <1>1 DEF JobsInv, JobTypes, Stored
<1>5. records'[j].status # "none"
  BY <1>1, <1>4 DEF Final
<1>6. \A k \in Jobs : Present(k)' = Present(k)
  BY DEF Present
<1>7. ASSUME NEW k \in Jobs \ {j}
      PROVE  StoredStatus(k)' = StoredStatus(k) /\ ShownRows(k)' = ShownRows(k)
  <2>1. Live(records[k])' <=> Live(records[k])
    BY <1>4 DEF Live
  <2>2. ShownRows(k)' = ShownRows(k)
    BY <1>6, <2>1, ShownSame
  <2> QED
    BY <1>4, <2>1, <2>2 DEF StoredStatus
<1>8. CASE ~Live(records[j])'
  <2>1. StoredStatus(j)' = "expired" /\ ShownRows(j)' = <<>>
    BY <1>5, <1>8 DEF StoredStatus, ShownRows
  <2>2. StoredStatus(j) \in UNFINISHED \cup Final
    BY <1>1, <1>2, <1>3 DEF UNFINISHED
  <2>3. PICK S : S = {j}
    OBVIOUS
  <2>4. Contract!ContractNext
    BY <1>1, <1>7, <2>1, <2>2, <2>3, ContractExpires
  <2> QED
    BY <2>4
<1>9. CASE Live(records[j])'
  <2>1. StoredStatus(j)' = c.rec.status
    BY <1>4, <1>5, <1>9 DEF StoredStatus
  <2>2. ShownRows(j)' = ShownRows(j)
    BY <1>1, <1>3, <1>6, <1>9, ShownSame
  <2>3. \A k \in Jobs : ShownRows(k)' = ShownRows(k)
    BY <1>7, <2>2
  <2>4. CASE StoredStatus(j) = c.rec.status
    BY <1>7, <2>1, <2>3, <2>4, ContractStill
  <2>5. CASE StoredStatus(j) # c.rec.status
    <3>1. c.rec.status = "done" => {ShownRows(j)[i] : i \in 1..Len(ShownRows(j))} = Urls
      <4> SUFFICES ASSUME c.rec.status = "done"
                   PROVE  {ShownRows(j)[i] : i \in 1..Len(ShownRows(j))} = Urls
        OBVIOUS
      <4>1. \A u \in Urls : item[j][u] = "done"
        BY <1>1, <1>2 DEF StatusKnown
      <4> QED
        BY <1>1, <1>3, <4>1, DoneShowsAll
    <3>2. /\ StoredStatus(j) \in UNFINISHED
          /\ c.rec.status = "done" => StoredStatus(j) = "running"
      BY <1>2, <1>3, <2>5 DEF UNFINISHED
    <3>3. PICK s : s = c.rec.status
      OBVIOUS
    <3>4. s \in Final /\ StoredStatus(j)' = s
      BY <1>1, <2>1, <3>3
    <3>5. Contract!ContractNext
      BY <1>1, <1>7, <2>3, <3>1, <3>2, <3>3, <3>4, ContractMoves
    <3> QED
      BY <3>5
  <2> QED
    BY <2>4, <2>5
<1> QED
  BY <1>8, <1>9

LEMMA ThreadKeepsContract ==
  ASSUME JobsInv, StoreInv, Slack < Ttl, ThreadRuns
  PROVE  [Contract!ContractNext]_(Contract!contractVars)
<1>1. PICK c \in Queued :
        /\ c.kind = "save" => records' = [records EXCEPT ![c.job] = Stored(memory[c.job], now + c.keep)]
        /\ c.kind = "settle" => records' = [records EXCEPT ![c.job] = Stored(c.rec, c.until)]
        /\ c.kind \notin {"save", "settle"} => records' = records
        /\ c.kind = "row" =>
             rows' = [rows EXCEPT ![c.job][c.seq] = [url |-> c.url, expire |-> now + c.keep]]
        /\ c.kind # "row" => rows' = rows
        /\ now' = now
  BY HeadRuns
<1>2. PICK j : j = c.job
  OBVIOUS
<1>3. c.kind \in {"save", "row", "settle", "get"}
  BY QueuedCalls, CallParts
<1>4. CASE c.kind = "save"
  BY <1>1, <1>2, <1>4, SaveKeepsContract
<1>5. CASE c.kind = "row"
  BY <1>1, <1>2, <1>5, RowKeepsContract
<1>6. CASE c.kind = "settle"
  BY <1>1, <1>2, <1>6, SettleKeepsContract
<1>7. CASE c.kind = "get"
  <2>1. StoreStill
    BY <1>1, <1>7 DEF StoreStill, Present
  <2> QED
    BY <2>1, StillKeepsContract
<1> QED
  BY <1>3, <1>4, <1>5, <1>6, <1>7

(* The job runner keeps the contract of the job store: seen through its     *)
(* records and rows, a job is accepted, starts, gains its rows one by one,  *)
(* ends once and is frozen until it expires, and says done only with a row  *)
(* for every URL (jobs.py, whatever fails, is cancelled or crashes).        *)
THEOREM JobsKeepTheContract ==
  ASSUME Slack < Ttl
  PROVE  Spec => ImplementsContract
<1>1. Init => Contract!ContractInit
  <2> SUFFICES ASSUME Init PROVE Contract!ContractInit
    OBVIOUS
  <2>1. ASSUME NEW j \in Jobs
        PROVE  StoredStatus(j) = "absent" /\ ShownRows(j) = <<>>
    <3>1. records[j].status = "none" /\ ~Live(records[j])
      BY DEF Init, NoStored, Stored, NoRecord, Live
    <3> QED
      BY <3>1 DEF StoredStatus, ShownRows
  <2>2. [j \in Jobs |-> StoredStatus(j)] = [j \in Jobs |-> "absent"]
    BY <2>1
  <2>3. [j \in Jobs |-> ShownRows(j)] = [j \in Jobs |-> <<>>]
    BY <2>1
  <2> QED
    BY <2>2, <2>3 DEF Contract!ContractInit, ShownRows
<1>2. JobsInv /\ StoreInv /\ [Next]_vars => [Contract!ContractNext]_(Contract!contractVars)
  BY StoreMoves, StillKeepsContract, TickExpires, ThreadKeepsContract
<1> QED
  BY <1>1, <1>2, JobsInvHolds, StoreInvHolds, PTL DEF Spec, ImplementsContract, Contract!ContractSpec

(* The contract and what is proved of it, read off the store.               *)
Promised == INSTANCE JobContractProofs WITH
    status <- [j \in Jobs |-> StoredStatus(j)],
    rows <- [j \in Jobs |-> IF Live(records[j])
                            THEN [n \in 1..Cardinality(Present(j)) |-> rows[j][n - 1].url]
                            ELSE <<>>]

(* So what a client can conclude from the contract holds of jobs.py: a      *)
(* record that says done has a row for every URL, no URL has two, and an    *)
(* ended job changes neither its status nor its rows until it expires.      *)
THEOREM ClientsCanRely ==
  ASSUME Slack < Ttl
  PROVE  Spec => [](Promised!RowsDistinct /\ Promised!DoneIsComplete) /\ Promised!EndedIsFrozen
<1>1. Contract!ContractInit => Promised!ContractInit
  BY DEF Contract!ContractInit, Promised!ContractInit
<1>2. UNCHANGED Contract!contractVars => UNCHANGED Promised!contractVars
  BY DEF Contract!contractVars, Promised!contractVars
<1>3. ASSUME NEW j \in Jobs
      PROVE  Contract!Accept(j) \/ Contract!Begin(j) => Promised!Accept(j) \/ Promised!Begin(j)
  BY DEF Contract!Accept, Promised!Accept, Contract!Begin, Promised!Begin
<1>4. ASSUME NEW j \in Jobs, NEW u \in Urls
      PROVE  Contract!AddRow(j, u) => Promised!AddRow(j, u)
  BY DEF Contract!AddRow, Promised!AddRow, Contract!RowsOf, Promised!RowsOf
<1>5. ASSUME NEW j \in Jobs, NEW s
      PROVE  Contract!Finish(j, s) => Promised!Finish(j, s)
  BY DEF Contract!Finish, Promised!Finish, Contract!RowsOf, Promised!RowsOf, Contract!Unfinished, Promised!Unfinished
<1>6. ASSUME NEW S
      PROVE  Contract!Expire(S) => Promised!Expire(S)
  BY DEF Contract!Expire, Promised!Expire, Contract!Unfinished, Promised!Unfinished, Contract!Final, Promised!Final
<1>7. Contract!ContractNext => Promised!ContractNext
  <2>1. Contract!Final = Promised!Final
    BY DEF Contract!Final, Promised!Final
  <2> QED
    BY <1>3, <1>4, <1>5, <1>6, <2>1 DEF Contract!ContractNext, Promised!ContractNext
<1>8. Contract!ContractSpec => Promised!ContractSpec
  BY <1>1, <1>2, <1>7, PTL DEF Contract!ContractSpec, Promised!ContractSpec
<1>9. Spec => Contract!ContractSpec
  BY JobsKeepTheContract DEF ImplementsContract
<1> QED
  BY <1>8, <1>9, Promised!ContractHolds, Promised!EndedStaysFrozen, PTL
=============================================================================
