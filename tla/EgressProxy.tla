---------------------------- MODULE EgressProxy ----------------------------
(***************************************************************************)
(* EgressProxy of app/egress_proxy.py: each connection of a client (HTTPX  *)
(* or a browser) gets a handler task, which reads the request's head,      *)
(* resolves and checks the target, dials it, itself or by an upstream      *)
(* proxy, and relays.  __aexit__ ends all that.                            *)
(*                                                                         *)
(* asyncio takes a connection in two steps: the transport is attached to   *)
(* the server, and one turn of the loop later connection_made calls        *)
(* _accept.  A task that is cancelled before its first step never runs.    *)
(***************************************************************************)
EXTENDS Naturals, FiniteSets

CONSTANTS Conns, MaxConnections

ASSUME EgressAssumption == IsFiniteSet(Conns) /\ MaxConnections \in Nat

VARIABLES
    protection, upstream,  \* is the guard on, is there an upstream proxy
    server,     \* open, or the await of __aexit__, or closed
    waitOver,   \* _SHUTDOWN_WAIT_SECONDS have passed
    handlerAt,  \* of each connection: the await of its handler
    tasks,      \* self.tasks
    cancelled,  \* handlers with a CancelledError to come
    client,     \* the client's transport
    detached,   \* the server no longer counts the transport
    remote,     \* the handler's connection onwards
    pinned,     \* the address that resolve_target returned
    reached,    \* the address dialled, or named to the upstream proxy
    late,       \* history: accepted when __aexit__ had listed the tasks
    unstarted   \* history: cancelled before their first step

guardVars == <<protection, upstream>>
exitVars == <<server, waitOver>>
historyVars == <<late, unstarted>>
egressVars == <<guardVars, exitVars, handlerAt, tasks, cancelled, client, detached, remote,
                pinned, reached, historyVars>>

Addresses == {"public", "private"}
Handling == {"made", "head", "resolve", "proxy", "dial", "connect", "answer", "relay", "closing"}
Handlers == {c \in Conns : handlerAt[c] \in Handling}
Attached == {c \in Conns : client[c] # "none" /\ c \notin detached}

EgressInit ==
    /\ protection \in BOOLEAN /\ upstream \in BOOLEAN
    /\ server = "open" /\ waitOver = FALSE
    /\ handlerAt = [c \in Conns |-> "idle"]
    /\ tasks = {} /\ cancelled = {} /\ detached = {} /\ late = {} /\ unstarted = {}
    /\ client = [c \in Conns |-> "none"]
    /\ remote = [c \in Conns |-> "none"]
    /\ pinned = [c \in Conns |-> "none"]
    /\ reached = [c \in Conns |-> "none"]

-----------------------------------------------------------------------------
Connects(c) ==
    /\ server = "open" /\ handlerAt[c] = "idle"
    /\ handlerAt' = [handlerAt EXCEPT ![c] = "accepted"]
    /\ client' = [client EXCEPT ![c] = "open"]
    /\ UNCHANGED <<guardVars, exitVars, tasks, cancelled, detached, remote, pinned, reached, historyVars>>

NoRoomByOne == Cardinality(tasks) > MaxConnections
NoRoom == Cardinality(tasks) >= MaxConnections

(* connection_made: _accept.                                                *)
Accept(c) ==
    /\ handlerAt[c] = "accepted"
    /\ IF NoRoom
       THEN /\ handlerAt' = [handlerAt EXCEPT ![c] = "over"]
            /\ client' = [client EXCEPT ![c] = "closing"]
            /\ UNCHANGED <<tasks, late>>
       ELSE /\ handlerAt' = [handlerAt EXCEPT ![c] = "made"]
            /\ tasks' = tasks \cup {c}
            /\ late' = IF server = "open" THEN late ELSE late \cup {c}
            /\ UNCHANGED client
    /\ UNCHANGED <<guardVars, exitVars, cancelled, detached, remote, pinned, reached, unstarted>>

Advance(c, from, to) ==
    /\ handlerAt[c] = from /\ c \notin cancelled
    /\ handlerAt' = [handlerAt EXCEPT ![c] = to]
    /\ UNCHANGED <<guardVars, exitVars, tasks, cancelled, client, detached, historyVars>>

Starts(c) == Advance(c, "made", "head") /\ UNCHANGED <<remote, pinned, reached>>
HeadRead(c) == Advance(c, "head", "resolve") /\ UNCHANGED <<remote, pinned, reached>>

Allowed(found) == protection => found = "public"

(* Names are looked up each time and may have new addresses each time.      *)
Resolved(c) ==
    /\ Advance(c, "resolve", IF upstream THEN "proxy" ELSE "dial")
    /\ \E found \in Addresses : Allowed(found) /\ pinned' = [pinned EXCEPT ![c] = found]
    /\ UNCHANGED <<remote, reached>>

ProxyResolved(c) == Advance(c, "proxy", "dial") /\ UNCHANGED <<remote, pinned, reached>>

DialledAnew(c, found) == found
Dialled(c, found) == pinned[c]

DialsTarget(c) ==
    /\ ~upstream /\ Advance(c, "dial", "answer")
    /\ \E found \in Addresses : reached' = [reached EXCEPT ![c] = Dialled(c, found)]
    /\ remote' = [remote EXCEPT ![c] = "open"]
    /\ UNCHANGED pinned

(* dial_upstream: to the proxy, which is told an address and not a name.    *)
DialsProxy(c) ==
    /\ upstream /\ Advance(c, "dial", "connect")
    /\ remote' = [remote EXCEPT ![c] = "open"]
    /\ UNCHANGED <<pinned, reached>>

Tunnelled(c) ==
    /\ Advance(c, "connect", "answer")
    /\ \E found \in Addresses : reached' = [reached EXCEPT ![c] = Dialled(c, found)]
    /\ UNCHANGED <<remote, pinned>>

Established(c) == Advance(c, "answer", "relay") /\ UNCHANGED <<remote, pinned, reached>>

(* except and finally: both ends are closed, and the client's is waited for. *)
ClosedBoth(c) == remote[c] # "none"
OnlyEstablished(c) == handlerAt[c] = "relay"
ClosesRemote(c) == ClosedBoth(c)

Finally(c) ==
    /\ handlerAt' = [handlerAt EXCEPT ![c] = "closing"]
    /\ remote' = IF ClosesRemote(c) THEN [remote EXCEPT ![c] = "closed"] ELSE remote
    /\ client' = [client EXCEPT ![c] = IF @ = "open" THEN "closing" ELSE @]
    /\ UNCHANGED <<guardVars, exitVars, tasks, detached, pinned, reached, historyVars>>

(* The relay is over, or the head, the target, a connection or the time     *)
(* allowed (15 and 600 seconds) fails the handler in any of its awaits.     *)
HandlerEnds(c) ==
    /\ handlerAt[c] \in Handling \ {"made", "closing"} /\ c \notin cancelled
    /\ Finally(c)
    /\ UNCHANGED cancelled

(* The first step of a task cancelled before it raises where the coroutine  *)
(* begins, outside its try: neither end is closed.                          *)
CancelledNow(c) ==
    /\ c \in cancelled
    /\ cancelled' = cancelled \ {c}
    /\ \/ handlerAt[c] \in Handling \ {"made", "closing"} /\ Finally(c)
       \/ /\ handlerAt[c] \in {"made", "closing"}
          /\ handlerAt' = [handlerAt EXCEPT ![c] = "over"]
          /\ unstarted' = IF handlerAt[c] = "made" THEN unstarted \cup {c} ELSE unstarted
          /\ UNCHANGED <<guardVars, exitVars, tasks, client, detached, remote, pinned, reached, late>>

HandlerReturns(c) ==
    /\ handlerAt[c] = "closing" /\ client[c] = "gone" /\ c \notin cancelled
    /\ handlerAt' = [handlerAt EXCEPT ![c] = "over"]
    /\ UNCHANGED <<guardVars, exitVars, tasks, cancelled, client, detached, remote, pinned,
                   reached, historyVars>>

(* add_done_callback, a turn of the loop after the task is done.            *)
Discarded(c) ==
    /\ c \in tasks /\ handlerAt[c] = "over"
    /\ tasks' = tasks \ {c}
    /\ UNCHANGED <<guardVars, exitVars, handlerAt, cancelled, client, detached, remote, pinned,
                   reached, historyVars>>

(* The client goes or, on a closing transport, has read what was left.      *)
(* After a reset the transport may never detach.                            *)
ClientGoes(c) ==
    /\ client[c] \in {"open", "closing"} /\ handlerAt[c] # "accepted"
    /\ client' = [client EXCEPT ![c] = "gone"]
    /\ detached' \in {detached, detached \cup {c}}
    /\ UNCHANGED <<guardVars, exitVars, handlerAt, tasks, cancelled, remote, pinned, reached, historyVars>>

-----------------------------------------------------------------------------
(* __aexit__: the server listens no more, and what runs is cancelled.       *)
ExitBegins ==
    /\ server = "open"
    /\ server' = "gather"
    /\ cancelled' = {c \in tasks : handlerAt[c] # "over"}
    /\ UNCHANGED <<guardVars, waitOver, handlerAt, tasks, client, detached, remote, pinned, reached, historyVars>>

Gathered ==
    /\ server = "gather"
    /\ Handlers \subseteq late
    /\ server' = "wait"
    /\ UNCHANGED <<guardVars, waitOver, handlerAt, tasks, cancelled, client, detached, remote, pinned,
                   reached, historyVars>>

TwoSeconds ==
    /\ server = "wait" /\ ~waitOver
    /\ waitOver' = TRUE
    /\ UNCHANGED <<guardVars, server, handlerAt, tasks, cancelled, client, detached, remote, pinned,
                   reached, historyVars>>

AllDetached == Attached = {}
WaitedEnough == AllDetached \/ waitOver

ExitReturns ==
    /\ server = "wait" /\ WaitedEnough
    /\ server' = "closed"
    /\ UNCHANGED <<guardVars, waitOver, handlerAt, tasks, cancelled, client, detached, remote, pinned,
                   reached, historyVars>>

HandlerStep(c) ==
    \/ Accept(c) \/ Starts(c) \/ HeadRead(c) \/ Resolved(c) \/ ProxyResolved(c) \/ DialsTarget(c)
    \/ DialsProxy(c) \/ Tunnelled(c) \/ Established(c) \/ HandlerEnds(c) \/ CancelledNow(c)
    \/ HandlerReturns(c) \/ Discarded(c)

EgressNext ==
    \/ \E c \in Conns : Connects(c) \/ HandlerStep(c) \/ ClientGoes(c)
    \/ ExitBegins \/ Gathered \/ TwoSeconds \/ ExitReturns

EgressSpec == EgressInit /\ [][EgressNext]_egressVars

(* The loop delivers what is due, time passes, and the guard's clients (the *)
(* application's own HTTP client, closed before, and a browser that was     *)
(* quit or killed) go in the end.  No remote side owes anything.            *)
EgressProgress ==
    \/ \E c \in Conns : CancelledNow(c) \/ HandlerReturns(c) \/ ClientGoes(c)
    \/ Gathered \/ TwoSeconds \/ ExitReturns
EgressFairSpec == EgressSpec /\ WF_egressVars(EgressProgress)

-----------------------------------------------------------------------------
EgressTypeOK ==
    /\ protection \in BOOLEAN /\ upstream \in BOOLEAN /\ waitOver \in BOOLEAN
    /\ server \in {"open", "gather", "wait", "closed"}
    /\ handlerAt \in [Conns -> Handling \cup {"idle", "accepted", "over"}]
    /\ tasks \subseteq Conns /\ cancelled \subseteq tasks
    /\ detached \subseteq Conns /\ late \subseteq Conns /\ unstarted \subseteq Conns
    /\ client \in [Conns -> {"none", "open", "closing", "gone"}]
    /\ remote \in [Conns -> {"none", "open", "closed"}]
    /\ pinned \in [Conns -> Addresses \cup {"none"}]
    /\ reached \in [Conns -> Addresses \cup {"none"}]

(* There are never more handlers than max_connections; with the guard on,   *)
(* what is dialled is what was checked, whatever the names resolve to by    *)
(* then; a handler that is closing or over has let go of its connection     *)
(* onwards and of its client, but for one that a shutdown cancelled before  *)
(* its first step: that one opened nothing, and its client is left to go by *)
(* itself; and a handler that ran at shutdown is over when the tasks are    *)
(* gathered.                                                                *)
EgressSound ==
    /\ Cardinality(Handlers) <= MaxConnections
    /\ \A c \in Conns :
         /\ protection => reached[c] # "private"
         /\ handlerAt[c] \in {"closing", "over"} =>
              /\ remote[c] # "open"
              /\ client[c] = "open" => c \in unstarted
         /\ c \in unstarted => server # "open" /\ remote[c] = "none"
         /\ server \in {"wait", "closed"} /\ c \notin late => handlerAt[c] \notin Handling

(* "All handlers are finished" (egress_proxy.py:139), once the tasks have   *)
(* been gathered.  It fails: a connection that was attached before the      *)
(* server closed and is accepted after the tasks were listed gets a handler *)
(* that nobody cancels.                                                     *)
HandlersFinished == server \in {"wait", "closed"} => Handlers = {}

(* __aexit__ returns, though transports never detach.                       *)
EgressEnds == server = "gather" ~> server = "closed"
=============================================================================
