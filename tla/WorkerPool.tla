---------------------------- MODULE WorkerPool ----------------------------
(***************************************************************************)
(* app/workers.py: a pool of reusable worker processes.  run() takes a     *)
(* token from the idle queue (None, or a started worker), starts a worker  *)
(* if it has none, hands it one task and waits for the reply; a worker is  *)
(* stopped after a timeout, a cancellation, an error or max_jobs tasks.    *)
(* Starts, exchanges and stops are blocking calls on the pool's own        *)
(* 2 * size threads, so the event loop and those threads interleave.       *)
(***************************************************************************)
EXTENDS Naturals, Sequences, FiniteSets

CONSTANTS MaxRuns,    \* bound: calls of run()
          MaxWorkers, \* bound: worker processes that may ever be started
          None,       \* the token of a slot without a worker; nobody
          Size,       \* size of the pool
          MaxJobs,    \* max_jobs, after which a worker is retired
          MaxDeaths   \* bound: worker processes that die by themselves

Runs == 1..MaxRuns        \* in the order they are made
Workers == 1..MaxWorkers  \* in the order they are started

ASSUME WorkerPoolAssumption ==
    /\ MaxRuns \in Nat /\ MaxWorkers \in Nat
    /\ Size \in Nat \ {0} /\ MaxJobs \in Nat \ {0} /\ MaxDeaths \in Nat
    /\ None \notin Nat

VARIABLES
    pc,       \* pc[r]: the await the call stands at, or how it ended
    slot,     \* slot[r]: its local variable slot
    reply,    \* reply[r]: what the thread call it awaits came to
    doomed,   \* calls with a cancellation close() asked for and not yet delivered
    idle,     \* the idle queue of tokens
    slots,    \* the pool's set of started workers it has not retired
    process,  \* process[w]: "unborn", "alive" or "dead"
    jobs,     \* jobs[w]: replies the worker has given
    queue,    \* the executor's queue
    threads,  \* calls running on its threads
    orphans,  \* started workers a callback of their start still has to retire
    late,     \* ghost: those of them close() did not see
    closer,   \* how far close() is; "open" before
    deaths

callVars == <<pc, slot, reply, doomed>>
poolVars == <<idle, slots, jobs>>
threadVars == <<queue, threads, orphans, late>>
vars == <<pc, slot, reply, doomed, idle, slots, process, jobs, queue, threads,
          orphans, late, closer, deaths>>

Waiting == {"get", "start", "exchange", "retire", "cleanup"}
Over == {"done", "failed"}
closed == closer # "open"

Start(r) == [kind |-> "start", run |-> r, worker |-> None]
Exchange(r, w) == [kind |-> "exchange", run |-> r, worker |-> w]
Stop(r, w) == [kind |-> "stop", run |-> r, worker |-> w]
Sweep == [kind |-> "sweep", run |-> None, worker |-> None]

Queued == {queue[i] : i \in 1..Len(queue)}
Calls == Queued \cup threads

(* self.pending: starts and stops that have not come back.  Without the     *)
(* starts, close() could miss one.                                          *)
StopsOnly == {c \in Calls : c.kind = "stop"}
Pending == {c \in Calls : c.kind \in {"start", "stop"}}

(* A call answers the task that made it, while that still awaits it.        *)
AwaitedAt(kind) == IF kind = "stop" THEN {"retire", "cleanup"} ELSE {kind}
Awaited(c) == c.run # None /\ pc[c.run] \in AwaitedAt(c.kind)

(* Cancelling the wait for a call drops it from the queue; one that already *)
(* runs goes on.                                                            *)
Dropped(c) ==
    IF c \notin Queued THEN queue
    ELSE LET i == CHOOSE i \in 1..Len(queue) : queue[i] = c
         IN SubSeq(queue, 1, i - 1) \o SubSeq(queue, i + 1, Len(queue))

Init ==
    /\ pc = [r \in Runs |-> "new"]
    /\ slot = [r \in Runs |-> None]
    /\ reply = [r \in Runs |-> "none"]
    /\ doomed = {}
    /\ idle = [i \in 1..Size |-> None]
    /\ slots = {}
    /\ process = [w \in Workers |-> "unborn"]
    /\ jobs = [w \in Workers |-> 0]
    /\ queue = <<>>
    /\ threads = {}
    /\ orphans = {}
    /\ late = {}
    /\ closer = "open"
    /\ deaths = 0

-----------------------------------------------------------------------------
NoneLost(token) == IF closed \/ token = None THEN idle ELSE Append(idle, token)
GiveBack(token) == IF closed THEN idle ELSE Append(idle, token)

(* The end of run(): the finally gives the token back, unless closed.       *)
Leave(r, how, token) ==
    /\ pc' = [pc EXCEPT ![r] = how]
    /\ slot' = [slot EXCEPT ![r] = None]
    /\ reply' = [reply EXCEPT ![r] = "none"]
    /\ doomed' = doomed \ {r}
    /\ idle' = GiveBack(token)

(* _retire, and the wait for it: the call gives up its worker first.        *)
Retire(r, w, at) ==
    /\ slots' = slots \ {w}
    /\ slot' = [slot EXCEPT ![r] = None]
    /\ reply' = [reply EXCEPT ![r] = "none"]
    /\ pc' = [pc EXCEPT ![r] = at]

Enter(r) ==
    /\ pc[r] = "new" /\ \A q \in 1..(r - 1) : pc[q] # "new"
    /\ pc' = [pc EXCEPT ![r] = IF closed THEN "failed" ELSE "get"]
    /\ UNCHANGED <<slot, reply, doomed, poolVars, threadVars, process, closer, deaths>>

(* Hand worker w the task, unless the deadline passed: then it is retired.  *)
HandOver(r, w) ==
    \/ /\ pc' = [pc EXCEPT ![r] = "exchange"]
       /\ slot' = [slot EXCEPT ![r] = w]
       /\ reply' = [reply EXCEPT ![r] = "none"]
       /\ queue' = Append(queue, Exchange(r, w))
       /\ slots' = slots \cup {w}
    \/ /\ Retire(r, w, "cleanup")
       /\ queue' = Append(queue, Stop(r, w))

TakeToken(r) ==
    /\ pc[r] = "get" /\ r \notin doomed /\ idle # <<>>
    /\ idle' = Tail(idle)
    /\ IF Head(idle) = None
       THEN /\ pc' = [pc EXCEPT ![r] = "start"]
            /\ queue' = Append(queue, Start(r))
            /\ UNCHANGED <<slot, reply, slots>>
       ELSE HandOver(r, Head(idle))
    /\ UNCHANGED <<doomed, process, jobs, threads, orphans, late, closer, deaths>>

(* The deadline passes in the queue, or the call is cancelled there.        *)
GetInterrupted(r) ==
    /\ pc[r] = "get"
    /\ pc' = [pc EXCEPT ![r] = "failed"]
    /\ doomed' = doomed \ {r}
    /\ UNCHANGED <<slot, reply, poolVars, threadVars, process, closer, deaths>>

Started(r) ==
    /\ pc[r] = "start" /\ r \notin doomed
    /\ \/ /\ reply[r] = "ok"
          /\ HandOver(r, slot[r])
          /\ UNCHANGED <<doomed, idle>>
       \/ /\ reply[r] = "error"
          /\ Leave(r, "failed", None)
          /\ UNCHANGED <<slots, queue>>
    /\ UNCHANGED <<process, jobs, threads, orphans, late, closer, deaths>>

(* _started is cancelled: a queued start is dropped, a running one leaves   *)
(* its worker to the callback, one that is there is stopped at once.        *)
StartCancelled(r) ==
    /\ pc[r] = "start"
    /\ Leave(r, "failed", None)
    /\ queue' = IF reply[r] = "ok" THEN Append(queue, Stop(None, slot[r])) ELSE Dropped(Start(r))
    /\ UNCHANGED <<slots, process, jobs, threads, orphans, late, closer, deaths>>

(* A good reply counts; at max_jobs the worker is asked to leave and the    *)
(* call waits for that, holding the token of an empty slot.                 *)
WornOutLate(w) == jobs[w] > MaxJobs
WornOut(w) == jobs[w] + 1 >= MaxJobs
Replied(r) ==
    /\ pc[r] = "exchange" /\ r \notin doomed /\ reply[r] = "ok"
    /\ LET w == slot[r]
       IN /\ jobs' = [jobs EXCEPT ![w] = @ + 1]
          /\ IF WornOut(w)
             THEN /\ Retire(r, w, "retire")
                  /\ queue' = Append(queue, Stop(r, w))
                  /\ UNCHANGED <<doomed, idle>>
             ELSE /\ Leave(r, "done", w)
                  /\ UNCHANGED <<slots, queue>>
    /\ UNCHANGED <<process, threads, orphans, late, closer, deaths>>

(* An error reply, a worker that went away, the deadline or a cancellation: *)
(* the worker is stopped, and the call waits for that.                      *)
ExchangeBroken(r) ==
    /\ pc[r] = "exchange"
    /\ Retire(r, slot[r], "cleanup")
    /\ queue' = Append(Dropped(Exchange(r, slot[r])), Stop(r, slot[r]))
    /\ doomed' = doomed \ {r}
    /\ UNCHANGED <<idle, process, jobs, threads, orphans, late, closer, deaths>>

(* The stop came back.                                                      *)
Stopped(r) ==
    /\ pc[r] \in {"retire", "cleanup"} /\ reply[r] # "none" /\ r \notin doomed
    /\ Leave(r, IF pc[r] = "retire" THEN "done" ELSE "failed", None)
    /\ UNCHANGED <<slots, process, jobs, threadVars, closer, deaths>>

(* A mistaken variant: without the shield a queued stop is dropped.         *)
StopWaitUnshielded(r) ==
    /\ pc[r] \in {"retire", "cleanup"}
    /\ Leave(r, "failed", None)
    /\ \E w \in Workers : queue' = Dropped(Stop(r, w))
    /\ UNCHANGED <<slots, process, jobs, threads, orphans, late, closer, deaths>>

(* A cancellation ends the wait for the stop, which itself goes on: it is   *)
(* shielded.  The token goes back although the worker may still be there.   *)
StopWaitCancelled(r) ==
    /\ pc[r] \in {"retire", "cleanup"}
    /\ Leave(r, "failed", None)
    /\ UNCHANGED <<slots, process, jobs, threadVars, closer, deaths>>

-----------------------------------------------------------------------------
(* The threads.                                                             *)
OneThreadPerSlot == Size
ThreadCount == 2 * Size

ThreadTakes ==
    /\ queue # <<>> /\ Cardinality(threads) + Cardinality(orphans) < ThreadCount
    /\ threads' = threads \cup {Head(queue)}
    /\ queue' = Tail(queue)
    /\ UNCHANGED <<callVars, poolVars, process, orphans, late, closer, deaths>>

Answer(c, result) == reply' = IF Awaited(c) THEN [reply EXCEPT ![c.run] = result] ELSE reply

(* _Slot(): a process is spawned, or that fails.  A start nobody waits for  *)
(* any more has its worker retired by _discard_started, a callback that     *)
(* runs on the thread after the start left pending.  (A close() that waits  *)
(* for this start is woken by a later callback.)                            *)
StartRuns(c) ==
    /\ c \in threads /\ c.kind = "start"
    /\ threads' = threads \ {c}
    /\ \/ \E w \in Workers :
            /\ process[w] = "unborn" /\ \A v \in 1..(w - 1) : process[v] # "unborn"
            /\ process' = [process EXCEPT ![w] = "alive"]
            /\ IF Awaited(c)
               THEN /\ slot' = [slot EXCEPT ![c.run] = w]
                    /\ UNCHANGED <<queue, orphans>>
               ELSE IF closer = "drain"
               THEN /\ queue' = Append(queue, Stop(None, w))
                    /\ UNCHANGED <<slot, orphans>>
               ELSE /\ orphans' = orphans \cup {w}
                    /\ UNCHANGED <<slot, queue>>
            /\ Answer(c, "ok")
       \/ /\ Answer(c, "error")
          /\ UNCHANGED <<process, slot, queue, orphans>>
    /\ UNCHANGED <<pc, doomed, poolVars, late, closer, deaths>>

(* The start has left pending and its last callback has not run yet.  After *)
(* the executor's shutdown the callback fails and the worker stays.         *)
DiscardStarted(w) ==
    /\ w \in orphans /\ closer # "closed"
    /\ orphans' = orphans \ {w}
    /\ queue' = Append(queue, Stop(None, w))
    /\ UNCHANGED <<callVars, poolVars, process, threads, late, closer, deaths>>

(* The worker answers the task; it may as well never do so.                 *)
WorkerReplies(c) ==
    /\ c \in threads /\ c.kind = "exchange" /\ process[c.worker] = "alive"
    /\ threads' = threads \ {c}
    /\ \E result \in {"ok", "error"} : Answer(c, result)
    /\ UNCHANGED <<pc, slot, doomed, poolVars, process, queue, orphans, late, closer, deaths>>

(* Its pipe is closed: the exchange ends.                                   *)
ExchangeEnds(c) ==
    /\ c \in threads /\ c.kind = "exchange" /\ process[c.worker] = "dead"
    /\ threads' = threads \ {c}
    /\ Answer(c, "error")
    /\ UNCHANGED <<pc, slot, doomed, poolVars, process, queue, orphans, late, closer, deaths>>

StopKills(c) ==
    /\ c \in threads /\ c.kind = "stop" /\ process[c.worker] = "alive"
    /\ process' = [process EXCEPT ![c.worker] = "dead"]
    /\ UNCHANGED <<callVars, poolVars, threadVars, closer, deaths>>

(* _stop swallows what fails in the clean-up after the kill.                *)
CallEnds(c) ==
    /\ c \in threads
    /\ c.kind = "sweep" \/ (c.kind = "stop" /\ process[c.worker] = "dead")
    /\ threads' = threads \ {c}
    /\ Answer(c, "ok")
    /\ UNCHANGED <<pc, slot, doomed, poolVars, process, queue, orphans, late, closer, deaths>>

WorkerDies(w) ==
    /\ process[w] = "alive" /\ deaths < MaxDeaths
    /\ process' = [process EXCEPT ![w] = "dead"]
    /\ deaths' = deaths + 1
    /\ UNCHANGED <<callVars, poolVars, threadVars, closer>>

-----------------------------------------------------------------------------
(* close(): refuse new calls and cancel the running ones ...                *)
Close ==
    /\ closer = "open"
    /\ closer' = "gather"
    /\ doomed' = {r \in Runs : pc[r] \in Waiting}
    /\ UNCHANGED <<pc, slot, reply, poolVars, threadVars, process, deaths>>

(* ... when they have ended, retire the workers left, which are idle ...    *)
CloseRetires ==
    /\ closer = "gather" /\ \A r \in Runs : pc[r] \notin Waiting
    /\ \E order \in [1..Cardinality(slots) -> slots] :
          /\ \A w \in slots : \E i \in DOMAIN order : order[i] = w
          /\ queue' = queue \o [i \in DOMAIN order |-> Stop(None, order[i])]
    /\ slots' = {}
    /\ closer' = "drain"
    /\ UNCHANGED <<callVars, idle, process, jobs, threads, orphans, late, deaths>>

(* ... wait until no start or stop is pending, and sweep up the directories *)
(* left behind; then the executor is shut down.                             *)
CloseSweeps ==
    /\ closer = "drain" /\ Pending = {}
    /\ queue' = Append(queue, Sweep)
    /\ closer' = "sweep"
    /\ late' = orphans
    /\ UNCHANGED <<callVars, poolVars, process, threads, orphans, deaths>>

CloseEnds ==
    /\ closer = "sweep" /\ Sweep \notin Calls
    /\ closer' = "closed"
    /\ UNCHANGED <<callVars, poolVars, threadVars, process, deaths>>

-----------------------------------------------------------------------------
Interrupted(r) == GetInterrupted(r) \/ StartCancelled(r) \/ StopWaitCancelled(r)
RunStep(r) == TakeToken(r) \/ Started(r) \/ Replied(r) \/ ExchangeBroken(r) \/ Stopped(r)
ThreadCall(c) == StartRuns(c) \/ ExchangeEnds(c) \/ StopKills(c) \/ CallEnds(c)
CloseStep == CloseRetires \/ CloseSweeps \/ CloseEnds

Next ==
    \/ \E r \in Runs : Enter(r) \/ Interrupted(r) \/ RunStep(r)
    \/ ThreadTakes
    \/ \E c \in threads : ThreadCall(c) \/ WorkerReplies(c)
    \/ \E w \in Workers : DiscardStarted(w) \/ WorkerDies(w)
    \/ Close \/ CloseStep

Spec == Init /\ [][Next]_vars

(* Threads run what they are given; the loop delivers results and, at the   *)
(* latest at the deadline, interrupts a wait in the queue or for a reply.   *)
(* A reply itself is not owed, nor are the starts' and stops' waits ever    *)
(* interrupted except by close().                                           *)
Fairness ==
    /\ WF_vars(ThreadTakes)
    /\ WF_vars(\E c \in threads : ThreadCall(c))
    /\ \A r \in Runs :
         /\ WF_vars(RunStep(r)) /\ WF_vars(GetInterrupted(r))
         /\ WF_vars(r \in doomed /\ Interrupted(r))
    /\ \A w \in Workers : WF_vars(DiscardStarted(w))
    /\ WF_vars(CloseStep)

FairSpec == Spec /\ Fairness

-----------------------------------------------------------------------------
Holders == {r \in Runs : pc[r] \in {"start", "exchange", "retire", "cleanup"}}
Alive == {w \in Workers : process[w] = "alive"}
Stopping == {c.worker : c \in {d \in Calls : d.kind = "stop"}}

TypeOK ==
    /\ pc \in [Runs -> {"new"} \cup Waiting \cup Over]
    /\ slot \in [Runs -> Workers \cup {None}]
    /\ reply \in [Runs -> {"none", "ok", "error"}]
    /\ doomed \in SUBSET Runs
    /\ idle \in Seq(Workers \cup {None})
    /\ slots \in SUBSET Workers
    /\ process \in [Workers -> {"unborn", "alive", "dead"}]
    /\ jobs \in [Workers -> 0..MaxJobs]
    /\ Calls \subseteq [kind : {"start", "exchange", "stop", "sweep"},
                       run : Runs \cup {None}, worker : Workers \cup {None}]
    /\ orphans \in SUBSET Workers
    /\ closer \in {"open", "gather", "drain", "sweep", "closed"}
    /\ deaths \in 0..MaxDeaths

(* No token is lost or made up, however a call ends: the pool keeps its     *)
(* size.  A lost token would shrink it for good.                            *)
TokensConserved == ~closed => Len(idle) + Cardinality(Holders) = Size

(* A worker has one owner: it waits in the idle queue once, or one call     *)
(* exchanges with it, and then nobody has asked for it to be stopped.  (The *)
(* tokens left in the queue after close() are never taken.)                 *)
WorkerHasOneOwner ==
    \A w \in Workers :
        LET queued == {i \in 1..Len(idle) : idle[i] = w}
            users == {r \in Runs : slot[r] = w}
        IN /\ Cardinality(queued) + Cardinality(users) <= 1
           /\ (queued # {} /\ ~closed) \/ users # {} => w \notin Stopping \cup orphans

(* No worker is forgotten: one that runs is in the pool's books, belongs to *)
(* a call, or is about to be stopped.                                       *)
NoWorkerForgotten ==
    \A w \in Alive :
        \/ w \in slots \cup Stopping \cup orphans
        \/ \E r \in Runs : slot[r] = w

(* After close() no worker process runs and none is left to be stopped,     *)
(* except those whose start came back in the instant close() looked.        *)
CloseStopsWorkers ==
    closer = "closed" => Alive \subseteq late /\ Stopping \subseteq late

(* Through every start, stop, cancellation, death and close, a worker has   *)
(* one owner, none is forgotten, and none is left running at the end.       *)
WorkersAccounted == WorkerHasOneOwner /\ NoWorkerForgotten /\ CloseStopsWorkers

(* Every call comes back, whether or not workers ever answer, a worker to   *)
(* be stopped is (a job whose worker hangs cannot starve the stop), and so  *)
(* close() comes to its end.                                                *)
PoolSettles ==
    /\ \A r \in Runs : pc[r] \in Waiting ~> pc[r] \in Over
    /\ \A w \in Workers : w \in Stopping ~> process[w] = "dead"
    /\ closer = "gather" ~> closer = "closed"

(* workers.py, close: "A worker still starting adds its own stop once it is *)
(* there, so wait until nothing is left."  Between the callback that takes  *)
(* a start out of pending and the one that adds the stop, nothing is left.  *)
CloseLeavesNothing == closer = "closed" => Alive = {}

(* README: "On timeout/cancellation, the worker and its child processes are *)
(* terminated ... before the slot is reused": a slot has one process at a   *)
(* time.  A second cancellation frees the slot while the first is stopped.  *)
OneProcessPerSlot == Cardinality(Alive) <= Size
=============================================================================
