------------------------------- MODULE Jobs -------------------------------
(***************************************************************************)
(* The job runner: app/jobs.py, with the batch loop of app/service.py that *)
(* feeds it and the one storage thread of app/resources.py it writes       *)
(* through.  One server process runs the jobs; a client polls the store    *)
(* through another process, so its reads interleave with single writes.    *)
(*                                                                         *)
(* A task that awaits the storage thread has an entry in calls; the thread *)
(* works the calls off in order.  Cancelling the task orphans its call:    *)
(* the call is dropped if the thread has not begun it and lands otherwise. *)
(* The drop reaches the thread before the cancelled task runs again, so by *)
(* then at most the call at the head of the queue is an orphan.            *)
(***************************************************************************)
EXTENDS Naturals, Sequences, FiniteSets

CONSTANTS Jobs,         \* job ids that may be submitted
          Urls,         \* the URLs of every job
          Nobody,       \* the awaiting task of an orphaned call
          MaxActive,    \* config.max_active_jobs
          Concurrency,  \* max_concurrency of every job
          Timeout,      \* options.timeout_ms, in clock ticks
          Ttl,          \* config.job_result_ttl, in clock ticks
          LostAfter,    \* LOST_AFTER_SECONDS, in clock ticks
          Slack,        \* ticks a live process needs beyond a deadline to end a job
          Readers,      \* jobs a client pages through
          PageLimit,    \* limit of a results page
          LastSubmit,   \* bound: no job is submitted after this time
          MaxTime,      \* bound: the clock stops here
          MaxFaults,    \* bound: storage calls that fail
          MaxCrashes    \* bound: crashes of the process

Total == Cardinality(Urls)
Main == "main"                       \* the task of _run, submit or close
Waiters == Urls \cup {Main}          \* tasks of one job that may await a call
Seqs == 0..Total

ASSUME JobsAssumption ==
    /\ IsFiniteSet(Urls) /\ Urls # {}
    /\ Main \notin Urls /\ Readers \subseteq Jobs
    /\ Nobody \notin Urls \cup {Main}
    /\ MaxActive \in Nat \ {0} /\ Concurrency \in Nat \ {0}
    /\ Timeout \in Nat /\ Ttl \in Nat \ {0} /\ LostAfter \in Nat
    /\ Slack \in Nat /\ PageLimit \in Nat \ {0} /\ LastSubmit \in Nat
    /\ MaxTime \in Nat /\ MaxFaults \in Nat /\ MaxCrashes \in Nat

VARIABLES
    proc,     \* the server process: "up", "closing", "closed" or "down"
    tasks,    \* JobRunner.tasks: the unfinished jobs of this process
    pc,       \* pc[j]: where the submit or _run of job j stands
    memory,   \* memory[j]: the record dict _run holds
    item,     \* item[j][u]: where the _batch_item task of a URL stands
    slots,    \* slots[j]: the URLs that hold the batch's semaphore
    io,       \* io[j][w]: what the storage call task w awaits came to
    calls,    \* the storage thread's queue; the head is being worked on
    records,  \* records[j]: the stored record
    rows,     \* rows[j][n]: the stored row number n
    closing,  \* jobs close still has to look at, and the record it read
    reader,   \* reader[j]: the client paging through job j
    now,      \* the clock
    phase,    \* ghost: how far the settling of a job came; "cut" if it stopped half-way
    faults, crashes

runVars == <<tasks, pc, memory, item, slots>>
storeVars == <<records, rows, phase>>
ioVars == <<io, calls>>
batchVars == <<item, slots>>
worldVars == <<closing, reader, now, records, rows, phase, faults, crashes>>
vars == <<proc, tasks, pc, memory, item, slots, io, calls, records, rows, closing,
          reader, now, phase, faults, crashes>>

UNFINISHED == {"queued", "running"}
Final == {"done", "failed"}

NoRecord == [status |-> "none", done |-> 0, deadline |-> 0]
NoRow == [url |-> Nobody, expire |-> 0]

(* diskcache: an entry is there until its absolute expiry.                  *)
Live(entry) == entry.expire > now

Stored(record, expire) ==
    [status |-> record.status, done |-> record.done, deadline |-> record.deadline, expire |-> expire]
Fields(entry) == [status |-> entry.status, done |-> entry.done, deadline |-> entry.deadline]
NoStored == Stored(NoRecord, 0)

Monus(a, b) == IF a > b THEN a - b ELSE 0

(* _keep: how long a record or row written now stays.                       *)
KeepWithoutDeadline(record) == Ttl
Keep(record) ==
    IF record.status \in UNFINISHED THEN Ttl + Monus(record.deadline, now) ELSE Ttl

(* What status() says of a job, to any process that asks.                   *)
Poll(j) ==
    IF ~Live(records[j]) THEN "none"
    ELSE IF records[j].status \in UNFINISHED /\ now > records[j].deadline + LostAfter THEN "lost"
    ELSE records[j].status

-----------------------------------------------------------------------------
(* Storage calls.  A save carries no record: the dict is serialised when    *)
(* the call runs, with whatever it holds by then.                           *)

SaveCall(j, w, record) == [kind |-> "save", job |-> j, who |-> w, keep |-> Keep(record)]
RowCall(j, u, n) == [kind |-> "row", job |-> j, who |-> u, seq |-> n, url |-> u, keep |-> Keep(memory[j])]
SettleCall(j, record) == [kind |-> "settle", job |-> j, who |-> Main, rec |-> record,
                          until |-> now + Keep(record), at |-> 0]
GetCall(j) == [kind |-> "get", job |-> j, who |-> Main]

Await(j, w, call) ==
    /\ io' = [io EXCEPT ![j][w] = "pending"]
    /\ calls' = Append(calls, call)

(* Tasks W of job j stop awaiting: their calls are orphaned.                *)
Orphaned(j, W) ==
    [i \in 1..Len(calls) |->
        IF calls[i].job = j /\ calls[i].who \in W THEN [calls[i] EXCEPT !.who = Nobody] ELSE calls[i]]

(* The cancellations of this job have reached the storage thread.           *)
CancelsDelivered(j) == \A i \in 2..Len(calls) : calls[i].job = j => calls[i].who # Nobody

Drop(j, w) ==
    /\ io' = [io EXCEPT ![j][w] = "idle"]
    /\ UNCHANGED calls

Phase(j, p) == phase' = [phase EXCEPT ![j] = IF @ = "cut" THEN @ ELSE p]

Ended(j, u) == item[j][u] \in {"done", "failed", "cancelled"}
LockRemoved(j) == TRUE
LockFree(j) == \A u \in Urls : item[j][u] # "write"

(* A client that reads no page just now, and one that is through.           *)
Unread == [at |-> "idle", seen |-> "none", paged |-> 0, got |-> 0]
Done == [Unread EXCEPT !.at = "end"]

-----------------------------------------------------------------------------
Init ==
    /\ proc = "up"
    /\ tasks = {}
    /\ pc = [j \in Jobs |-> "new"]
    /\ memory = [j \in Jobs |-> NoRecord]
    /\ item = [j \in Jobs |-> [u \in Urls |-> "none"]]
    /\ slots = [j \in Jobs |-> {}]
    /\ io = [j \in Jobs |-> [w \in Waiters |-> "idle"]]
    /\ calls = <<>>
    /\ records = [j \in Jobs |-> NoStored]
    /\ rows = [j \in Jobs |-> [n \in Seqs |-> NoRow]]
    /\ closing = [left |-> {}, got |-> NoRecord]
    /\ reader = [j \in Jobs |-> Unread]
    /\ now = 0
    /\ phase = [j \in Jobs |-> "open"]
    /\ faults = 0
    /\ crashes = 0

-----------------------------------------------------------------------------
(* len(self.tasks) < max_active_jobs; without the reservation, a job would  *)
(* only count once its first record is saved.                               *)
UnreservedRoom == Cardinality({j \in tasks : pc[j] # "submit"}) < MaxActive
Room == Cardinality(tasks) < MaxActive

(* submit: the place in tasks is taken before the first await.              *)
Submit(j) ==
    /\ proc = "up" /\ pc[j] = "new" /\ now <= LastSubmit
    /\ Room
    /\ tasks' = tasks \cup {j}
    /\ LET record == [status |-> "queued", done |-> 0, deadline |-> now + Timeout]
       IN /\ memory' = [memory EXCEPT ![j] = record]
          /\ Await(j, Main, SaveCall(j, Main, record))
    /\ pc' = [pc EXCEPT ![j] = "submit"]
    /\ UNCHANGED <<proc, batchVars, worldVars>>

Submitted(j) ==
    /\ pc[j] = "submit" /\ io[j][Main] \in {"ok", "error"}
    /\ IF io[j][Main] = "ok"
       THEN /\ pc' = [pc EXCEPT ![j] = "created"]
            /\ UNCHANGED tasks
       ELSE /\ pc' = [pc EXCEPT ![j] = "refused"]
            /\ tasks' = tasks \ {j}
    /\ Drop(j, Main)
    /\ UNCHANGED <<proc, memory, batchVars, worldVars>>

(* The request that submits is cancelled while its save is under way.       *)
SubmitCancelled(j) ==
    /\ pc[j] = "submit"
    /\ pc' = [pc EXCEPT ![j] = "refused"]
    /\ tasks' = tasks \ {j}
    /\ io' = [io EXCEPT ![j][Main] = "idle"]
    /\ calls' = Orphaned(j, {Main})
    /\ UNCHANGED <<proc, memory, batchVars, worldVars>>

-----------------------------------------------------------------------------
(* _run up to the batch.  The save that says "running" is not guarded: if   *)
(* it fails the task ends there, and its done callback frees the place.     *)
Run(j) ==
    /\ pc[j] = "created"
    /\ memory' = [memory EXCEPT ![j].status = "running"]
    /\ Await(j, Main, SaveCall(j, Main, memory'[j]))
    /\ pc' = [pc EXCEPT ![j] = "run"]
    /\ UNCHANGED <<proc, tasks, batchVars, worldVars>>

Running(j) ==
    /\ pc[j] = "run" /\ io[j][Main] \in {"ok", "error"}
    /\ IF io[j][Main] = "ok"
       THEN /\ pc' = [pc EXCEPT ![j] = "batch"]
            /\ item' = [item EXCEPT ![j] = [u \in Urls |-> "queued"]]
            /\ UNCHANGED tasks
       ELSE /\ pc' = [pc EXCEPT ![j] = "end"]
            /\ tasks' = tasks \ {j}
            /\ UNCHANGED item
    /\ Drop(j, Main)
    /\ UNCHANGED <<proc, memory, slots, worldVars>>

-----------------------------------------------------------------------------
(* One URL of the batch: _batch_item, then deliver inside its slot.         *)
Acquire(j, u) ==
    /\ pc[j] = "batch" /\ item[j][u] = "queued"
    /\ Cardinality(slots[j]) < Concurrency
    /\ item' = [item EXCEPT ![j][u] = "crawl"]
    /\ slots' = [slots EXCEPT ![j] = @ \cup {u}]
    /\ UNCHANGED <<proc, tasks, pc, memory, ioVars, worldVars>>

(* A mistaken variant: the slot is given back before the item is delivered. *)
CrawlEndsAndReleases(j, u) ==
    /\ item[j][u] = "crawl"
    /\ item' = [item EXCEPT ![j][u] = "lock"]
    /\ slots' = [slots EXCEPT ![j] = @ \ {u}]
    /\ UNCHANGED <<proc, tasks, pc, memory, ioVars, worldVars>>

(* The crawl answers or fails; either way there is an item to deliver.      *)
CrawlEnds(j, u) ==
    /\ item[j][u] = "crawl"
    /\ item' = [item EXCEPT ![j][u] = "lock"]
    /\ UNCHANGED <<proc, tasks, pc, memory, slots, ioVars, worldVars>>

(* The deadline passes while the URL waits for a slot: an error item.       *)
QueueExpires(j, u) ==
    /\ item[j][u] = "queued" /\ now >= memory[j].deadline
    /\ item' = [item EXCEPT ![j][u] = "lock"]
    /\ UNCHANGED <<proc, tasks, pc, memory, slots, ioVars, worldVars>>

WriteRow(j, u) ==
    /\ item[j][u] = "lock" /\ LockFree(j)
    /\ item' = [item EXCEPT ![j][u] = "write"]
    /\ Await(j, u, RowCall(j, u, memory[j].done))
    /\ UNCHANGED <<proc, tasks, pc, memory, slots, worldVars>>

(* The finally of _batch_item.                                              *)
Release(j, u) == slots' = [slots EXCEPT ![j] = @ \ {u}]

CountedTwice(record) == [record EXCEPT !.done = @ + 2]
Counted(record) == [record EXCEPT !.done = @ + 1]

(* The row landed and is counted; saving the count is throttled, so both    *)
(* outcomes are possible.  A row that failed fails the item.                *)
RowWritten(j, u) ==
    /\ item[j][u] = "write" /\ io[j][u] \in {"ok", "error"}
    /\ \/ /\ io[j][u] = "error"
          /\ item' = [item EXCEPT ![j][u] = "failed"]
          /\ Drop(j, u) /\ Release(j, u)
          /\ UNCHANGED memory
       \/ /\ io[j][u] = "ok"
          /\ memory' = [memory EXCEPT ![j] = Counted(@)]
          /\ \/ item' = [item EXCEPT ![j][u] = "done"] /\ Drop(j, u) /\ Release(j, u)
             \/ item' = [item EXCEPT ![j][u] = "save"] /\ Await(j, u, SaveCall(j, u, memory'[j])) /\ UNCHANGED slots
    /\ UNCHANGED <<proc, tasks, pc, worldVars>>

(* A progress save that failed is only logged.                              *)
ProgressSaved(j, u) ==
    /\ item[j][u] = "save" /\ io[j][u] \in {"ok", "error"}
    /\ item' = [item EXCEPT ![j][u] = "done"]
    /\ Drop(j, u) /\ Release(j, u)
    /\ UNCHANGED <<proc, tasks, pc, memory, worldVars>>

CancelItems(j) ==
    /\ slots' = [slots EXCEPT ![j] = {}]
    /\ item' = [item EXCEPT ![j] = [u \in Urls |-> IF Ended(j, u) THEN @[u] ELSE "cancelled"]]
    /\ io' = [io EXCEPT ![j] = [w \in Waiters |-> "idle"]]
    /\ calls' = Orphaned(j, Waiters)

(* The task group: one failed delivery cancels the items still pending.     *)
GroupAborts(j) ==
    /\ pc[j] = "batch"
    /\ \E u \in Urls : item[j][u] = "failed"
    /\ \E u \in Urls : ~Ended(j, u)
    /\ CancelItems(j)
    /\ UNCHANGED <<proc, tasks, pc, memory, worldVars>>

BatchAnswered(j) == \E u \in Urls : Ended(j, u)
BatchOver(j) == \A u \in Urls : Ended(j, u)

(* stream_batch returns or raises the delivery's error; then _settle.       *)
BatchEnds(j) ==
    /\ \/ /\ pc[j] = "batch"
       \* cancelled after a delivery failed: the group may raise the failure instead
       \/ /\ pc[j] = "stopping"
          /\ \E u \in Urls : item[j][u] = "failed"
    /\ BatchOver(j) /\ CancelsDelivered(j)
    /\ LET outcome == IF \A u \in Urls : item[j][u] = "done" THEN "done" ELSE "failed"
       IN memory' = [memory EXCEPT ![j].status = outcome]
    /\ Await(j, Main, SettleCall(j, memory'[j]))
    /\ Phase(j, "settling")
    /\ pc' = [pc EXCEPT ![j] = "settle"]
    /\ UNCHANGED <<proc, tasks, batchVars, closing, reader, now, records, rows, faults, crashes>>

(* The end of _run, whether or not settling worked; the callback pops it.   *)
Settled(j) ==
    /\ pc[j] = "settle" /\ io[j][Main] \in {"ok", "error"}
    /\ pc' = [pc EXCEPT ![j] = "end"]
    /\ tasks' = tasks \ {j}
    /\ Drop(j, Main)
    /\ UNCHANGED <<proc, memory, batchVars, worldVars>>

-----------------------------------------------------------------------------
StartedAtClose == {j \in tasks : pc[j] # "created"}
PendingAtClose == tasks

(* close: the server has finished its requests, so no submit is under way.  *)
(* Every task is cancelled at the await it stands at.                       *)
Close ==
    /\ proc = "up"
    /\ \A j \in Jobs : pc[j] # "submit"
    /\ proc' = "closing"
    /\ closing' = [left |-> PendingAtClose, got |-> NoRecord]
    /\ pc' = [j \in Jobs |-> IF j \notin tasks THEN pc[j]
                             ELSE IF pc[j] = "batch" THEN "stopping" ELSE "end"]
    /\ item' = [j \in Jobs |-> IF j \notin tasks \/ pc[j] # "batch" THEN item[j]
                               ELSE [u \in Urls |-> IF Ended(j, u) THEN item[j][u] ELSE "cancelled"]]
    /\ slots' = [j \in Jobs |-> IF j \in tasks THEN {} ELSE slots[j]]
    /\ io' = [j \in Jobs |-> [w \in Waiters |-> "idle"]]
    /\ calls' = [i \in 1..Len(calls) |-> [calls[i] EXCEPT !.who = Nobody]]
    /\ tasks' = {j \in tasks : pc[j] = "batch"}
    /\ UNCHANGED <<memory, reader, now, storeVars, faults, crashes>>

BatchCancelled(j) ==
    /\ pc[j] = "stopping" /\ CancelsDelivered(j)
    /\ pc' = [pc EXCEPT ![j] = "end"]
    /\ tasks' = tasks \ {j}
    /\ UNCHANGED <<proc, memory, batchVars, ioVars, worldVars>>

(* Once every task has ended, close reads the record of each job it found.  *)
CloseReads(j) ==
    /\ proc = "closing" /\ tasks = {} /\ j \in closing.left
    /\ \A k \in Jobs : io[k][Main] = "idle" /\ CancelsDelivered(k)
    /\ Await(j, Main, GetCall(j))
    /\ pc' = [pc EXCEPT ![j] = "reading"]
    /\ UNCHANGED <<proc, tasks, memory, batchVars, worldVars>>

(* ... and settles it as failed, keeping the count the record had, if the   *)
(* record is there and unfinished.  An error ends close there.              *)
CloseRead(j) ==
    /\ proc = "closing" /\ pc[j] = "reading" /\ io[j][Main] \in {"ok", "error"}
    /\ IF io[j][Main] = "ok" /\ closing.got.status \in UNFINISHED
       THEN /\ Await(j, Main, SettleCall(j, [closing.got EXCEPT !.status = "failed"]))
            /\ Phase(j, "settling")
            /\ pc' = [pc EXCEPT ![j] = "marking"]
            /\ UNCHANGED closing
       ELSE /\ Drop(j, Main)
            /\ pc' = [pc EXCEPT ![j] = "end"]
            /\ closing' = [left |-> IF io[j][Main] = "ok" THEN closing.left \ {j} ELSE {},
                           got |-> NoRecord]
            /\ UNCHANGED phase
    /\ UNCHANGED <<proc, tasks, memory, batchVars, reader, now, records, rows, faults, crashes>>

CloseSettled(j) ==
    /\ proc = "closing" /\ pc[j] = "marking" /\ io[j][Main] \in {"ok", "error"}
    /\ pc' = [pc EXCEPT ![j] = "end"]
    /\ closing' = [left |-> IF io[j][Main] = "ok" THEN closing.left \ {j} ELSE {},
                   got |-> NoRecord]
    /\ Drop(j, Main)
    /\ UNCHANGED <<proc, tasks, memory, batchVars, reader, now, storeVars, faults, crashes>>

(* The storage executor is shut down last and works its queue off first.    *)
Closed ==
    /\ proc = "closing" /\ tasks = {} /\ closing.left = {} /\ calls = <<>>
    /\ \A j \in Jobs : io[j][Main] = "idle"
    /\ proc' = "closed"
    /\ UNCHANGED <<runVars, ioVars, worldVars>>

-----------------------------------------------------------------------------
(* The storage threads take calls in order; there is only one of them.      *)
TwoThreads == 2
StorageThreads == 1

Working == {i \in 1..StorageThreads : i <= Len(calls)}
AfterCall(i) == SubSeq(calls, 1, i - 1) \o SubSeq(calls, i + 1, Len(calls))

Return(call, result) ==
    io' = IF call.who = Nobody THEN io ELSE [io EXCEPT ![call.job][call.who] = result]

Fetched(call) ==
    IF call.who = Nobody \/ call.kind # "get" THEN closing
    ELSE [closing EXCEPT !.got = IF Live(records[call.job]) THEN Fields(records[call.job]) ELSE NoRecord]

RecordOnly(call) == FALSE
SettlesOn(call) == call.kind = "settle" /\ call.at \in Seqs /\ Live(rows[call.job][call.at])

(* settle touches row after row: each touch is a write of its own.          *)
ThreadTouches ==
    \E i \in Working :
        /\ SettlesOn(calls[i])
        /\ rows' = [rows EXCEPT ![calls[i].job][calls[i].at].expire = calls[i].until]
        /\ calls' = [calls EXCEPT ![i].at = @ + 1]
        /\ UNCHANGED <<proc, runVars, io, records, phase, closing, reader, now, faults, crashes>>

ThreadRuns ==
    \E i \in Working :
        LET call == calls[i]
            j == call.job
        IN /\ ~SettlesOn(call)
           /\ records' =
                CASE call.kind = "save" ->
                       [records EXCEPT ![j] = Stored(memory[j], now + call.keep)]
                  [] call.kind = "settle" ->
                       [records EXCEPT ![j] = Stored(call.rec, call.until)]
                  [] OTHER -> records
           /\ rows' = IF call.kind = "row"
                      THEN [rows EXCEPT ![j][call.seq] = [url |-> call.url, expire |-> now + call.keep]]
                      ELSE rows
           /\ IF call.kind = "settle" THEN Phase(j, "settled") ELSE UNCHANGED phase
           /\ closing' = Fetched(call)
           /\ Return(call, "ok")
           /\ calls' = AfterCall(i)
           /\ UNCHANGED <<proc, runVars, reader, now, faults, crashes>>

Begun(call) == call.kind = "settle" /\ call.at > 0
CutShort(call) ==
    IF call.kind = "settle" THEN Phase(call.job, IF Begun(call) THEN "cut" ELSE "open")
    ELSE UNCHANGED phase

(* The store is busy or full: the call raises, a settle perhaps half-way.   *)
ThreadFails ==
    \E i \in Working :
        /\ faults < MaxFaults
        /\ faults' = faults + 1
        /\ Return(calls[i], "error")
        /\ CutShort(calls[i])
        /\ calls' = AfterCall(i)
        /\ UNCHANGED <<proc, runVars, records, rows, closing, reader, now, crashes>>

(* An orphaned call the thread has not begun is dropped.                    *)
ThreadSkips ==
    \E i \in 1..Len(calls) :
        /\ calls[i].who = Nobody /\ ~Begun(calls[i])
        /\ CutShort(calls[i])
        /\ calls' = AfterCall(i)
        /\ UNCHANGED <<proc, runVars, io, records, rows, closing, reader, now, faults, crashes>>

-----------------------------------------------------------------------------
(* The process dies: everything in memory is gone, the store stays.  A      *)
(* settle that had begun is cut short.                                      *)
Crash ==
    /\ proc \in {"up", "closing"} /\ crashes < MaxCrashes
    /\ proc' = "down"
    /\ crashes' = crashes + 1
    /\ tasks' = {}
    /\ pc' = [j \in Jobs |-> IF pc[j] = "new" THEN "new" ELSE "gone"]
    /\ item' = [j \in Jobs |-> [u \in Urls |-> "none"]]
    /\ memory' = [j \in Jobs |-> NoRecord]
    /\ slots' = [j \in Jobs |-> {}]
    /\ io' = [j \in Jobs |-> [w \in Waiters |-> "idle"]]
    /\ calls' = <<>>
    /\ closing' = [left |-> {}, got |-> NoRecord]
    /\ phase' = [j \in Jobs |-> IF phase[j] # "settling" THEN phase[j]
                                ELSE IF \E i \in 1..Len(calls) : calls[i].job = j /\ Begun(calls[i])
                                THEN "cut" ELSE "open"]
    /\ UNCHANGED <<records, rows, reader, now, faults>>

(* A new process starts with an empty tasks and takes no old job up.        *)
Restart ==
    /\ proc \in {"down", "closed"}
    /\ proc' = "up"
    /\ UNCHANGED <<runVars, ioVars, storeVars, closing, reader, now, faults, crashes>>

(* A live process ends its jobs within Slack of their deadline.             *)
Overdue(j) == now >= memory[j].deadline + Slack
Tick ==
    /\ now < MaxTime
    /\ \A j \in tasks \cup closing.left : ~Overdue(j)
    /\ now' = now + 1
    /\ UNCHANGED <<proc, runVars, ioVars, storeVars, closing, reader, faults, crashes>>

-----------------------------------------------------------------------------
(* A client pages through the rows of a job it has the id of: the record    *)
(* first, then up to PageLimit rows, each read on its own.  It goes on from *)
(* the rows it got; nothing else is kept from page to page.                 *)
ReadRecord(j) ==
    /\ j \in Readers
    /\ pc[j] \notin {"new", "submit", "refused"} /\ reader[j].at = "idle"
    /\ reader' = [reader EXCEPT ![j] = IF Poll(j) = "none" THEN Done
                                      ELSE [@ EXCEPT !.at = "page", !.seen = Poll(j)]]
    /\ UNCHANGED <<proc, runVars, ioVars, storeVars, closing, now, faults, crashes>>

PageFull(j) == reader[j].paged = PageLimit
NextRow(j) == IF reader[j].got \in Seqs THEN rows[j][reader[j].got] ELSE NoRow

ReadRow(j) ==
    /\ reader[j].at = "page" /\ ~PageFull(j) /\ Live(NextRow(j))
    /\ reader' = [reader EXCEPT ![j].got = @ + 1, ![j].paged = @ + 1]
    /\ UNCHANGED <<proc, runVars, ioVars, storeVars, closing, now, faults, crashes>>

(* The page ends; an empty one from a job that ended is the last.           *)
LastPage(j) == reader[j].paged = 0 /\ reader[j].seen \in Final \cup {"lost"}
EndPage(j) ==
    /\ reader[j].at = "page"
    /\ PageFull(j) \/ ~Live(NextRow(j))
    /\ reader' = [reader EXCEPT ![j] = IF LastPage(j) THEN Done
                                      ELSE [Unread EXCEPT !.got = reader[j].got]]
    /\ UNCHANGED <<proc, runVars, ioVars, storeVars, closing, now, faults, crashes>>

-----------------------------------------------------------------------------
ItemStep(j, u) ==
    \/ Acquire(j, u) \/ CrawlEnds(j, u) \/ QueueExpires(j, u)
    \/ WriteRow(j, u) \/ RowWritten(j, u) \/ ProgressSaved(j, u)

(* Steps the event loop owes every task of the job.                         *)
LoopStep(j) ==
    \/ Submitted(j) \/ Run(j) \/ Running(j)
    \/ GroupAborts(j) \/ BatchEnds(j) \/ Settled(j) \/ BatchCancelled(j)
    \/ CloseReads(j) \/ CloseRead(j) \/ CloseSettled(j)

ThreadStep == ThreadTouches \/ ThreadRuns \/ ThreadFails \/ ThreadSkips

Read(j) == ReadRecord(j) \/ ReadRow(j) \/ EndPage(j)

Next ==
    \/ \E j \in Jobs : Submit(j) \/ SubmitCancelled(j) \/ LoopStep(j) \/ Read(j)
    \/ \E j \in Jobs, u \in Urls : ItemStep(j, u)
    \/ ThreadStep
    \/ Close \/ Closed \/ Crash \/ Restart \/ Tick

Spec == Init /\ [][Next]_vars

(* The loop runs every ready task, the thread works its queue off, every    *)
(* crawl ends (its deadline sees to that) and time passes.  Nothing is      *)
(* owed by clients, and nothing forces a crash, a fault or a shutdown.      *)
Fairness ==
    /\ \A j \in Jobs : WF_vars(LoopStep(j))
    /\ \A j \in Jobs, u \in Urls : WF_vars(ItemStep(j, u))
    /\ WF_vars(ThreadTouches \/ ThreadRuns \/ ThreadSkips)
    /\ WF_vars(Closed)
    /\ WF_vars(Tick)

FairSpec == Spec /\ Fairness

-----------------------------------------------------------------------------
Unended == {"submit", "created", "run", "batch", "stopping", "settle"}
Present(j) == {n \in Seqs : rows[j][n] # NoRow}

TypeOK ==
    /\ proc \in {"up", "closing", "closed", "down"}
    /\ tasks \in SUBSET Jobs
    /\ pc \in [Jobs -> Unended \cup {"new", "refused", "end", "gone", "reading", "marking"}]
    /\ memory \in [Jobs -> [status : UNFINISHED \cup Final \cup {"none"}, done : Seqs, deadline : Nat]]
    /\ item \in [Jobs -> [Urls -> {"none", "queued", "crawl", "lock", "write", "save",
                                  "done", "failed", "cancelled"}]]
    /\ slots \in [Jobs -> SUBSET Urls]
    /\ io \in [Jobs -> [Waiters -> {"idle", "pending", "ok", "error"}]]
    /\ records \in [Jobs -> [status : UNFINISHED \cup Final \cup {"none"}, done : Seqs,
                             deadline : Nat, expire : Nat]]
    /\ rows \in [Jobs -> [Seqs -> [url : Urls \cup {Nobody}, expire : Nat]]]
    /\ closing.left \in SUBSET Jobs
    /\ now \in Nat /\ phase \in [Jobs -> {"open", "settling", "settled", "cut"}]
    /\ faults \in Nat /\ crashes \in Nat

(* Stored rows are numbered without a gap, no URL has two, and no delivered *)
(* row was overwritten by another: the order lock in deliver sees to it,    *)
(* whatever fails, is cancelled or crashes in between.                      *)
RowsGapFree ==
    \A j \in Jobs :
        /\ Present(j) = 0..(Cardinality(Present(j)) - 1)
        /\ \A m, n \in Present(j) : rows[j][m].url = rows[j][n].url => m = n
        /\ \A u \in Urls : item[j][u] \in {"save", "done"} =>
               \E n \in Present(j) : rows[j][n].url = u

(* What a readable record promises, its rows keep (_keep, _settle).  Once   *)
(* settled, every row lasts exactly as long as the record.  Before that the *)
(* rows it counts last for the deadline and the ttl together; past that a   *)
(* record saved late may outlast them a little.  Only a settle that stops   *)
(* half-way breaks this.                                                    *)
RowsBackRecord ==
    \A j \in Jobs :
        Live(records[j]) =>
            /\ phase[j] \in {"open", "settled"} =>
                   \A n \in Seqs : n < records[j].done =>
                       Live(rows[j][n]) \/ now >= records[j].deadline + Ttl
            /\ phase[j] = "settled" =>
                   \A n \in Present(j) : rows[j][n].expire = records[j].expire

(* max_active_jobs bounds the jobs of the process whose work is unfinished. *)
ActiveBound == Cardinality({j \in Jobs : pc[j] \in Unended}) <= MaxActive

(* A job holds at most max_concurrency results in memory: the slot is kept  *)
(* until the row is stored.  (URLs that expire in the queue hold none.)     *)
ResultsBound ==
    \A j \in Jobs :
        now < memory[j].deadline =>
            Cardinality({u \in Urls : item[j][u] \in {"crawl", "lock", "write", "save"}}) <= Concurrency

(* A client that stops at the empty page of a job whose record says it      *)
(* ended, while that record is settled and readable, has every row.         *)
ReaderComplete ==
    [][\A j \in Jobs :
         /\ EndPage(j) /\ LastPage(j)
         /\ reader[j].seen \in Final /\ Live(records[j]) /\ phase[j] = "settled"
         => reader[j].got = Cardinality(Present(j))]_vars

(* README: "A job that ends by itself saves its exact count".  A row whose  *)
(* task was cancelled after another row failed lands without being counted. *)
EndedCountExact ==
    [][\A j \in Jobs : Settled(j) /\ io[j][Main] = "ok" =>
          records[j].done = Cardinality(Present(j))]_vars

(* A job a client sees unfinished is at some time reported ended: by its    *)
(* own record, by a shutdown, or as lost.  It never just disappears, as     *)
(* long as Ttl is above LostAfter.  (The setting only has to be positive,   *)
(* and with a smaller one a crashed job's record goes before it is lost.)   *)
EveryJobEnds ==
    \A j \in Jobs : Poll(j) \in UNFINISHED ~> Poll(j) \in Final \cup {"lost"}

(* A shutdown comes to an end, and unless storage failed no job it had      *)
(* accepted is left unfinished.                                             *)
ShutdownMarksJobs ==
    proc = "closing" ~>
        \/ proc = "down"
        \/ /\ proc = "closed"
           /\ faults = 0 /\ crashes = 0 =>
                 \A j \in Jobs : pc[j] = "end" => Poll(j) \notin UNFINISHED \cup {"lost"}

(* The detailed runner implements the contract of the store.                *)
StoredStatus(j) ==
    IF records[j].status = "none" THEN "absent"
    ELSE IF Live(records[j]) THEN records[j].status ELSE "expired"

Contract == INSTANCE JobContract WITH
    status <- [j \in Jobs |-> StoredStatus(j)],
    rows <- [j \in Jobs |-> IF Live(records[j])
                            THEN [n \in 1..Cardinality(Present(j)) |-> rows[j][n - 1].url]
                            ELSE <<>>]
ImplementsContract == Contract!ContractSpec
=============================================================================
