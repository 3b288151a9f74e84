----------------------------- MODULE Lifecycle -----------------------------
(***************************************************************************)
(* Resources of app/resources.py: __aenter__ starts the application's      *)
(* parts one after the other, each with its close pushed on an             *)
(* AsyncExitStack; shutdown, or a start that fails half-way or is          *)
(* cancelled, pops them.  A close that fails does not stop the others.     *)
(*                                                                         *)
(* The stores are opened on the storage thread, which goes on when the     *)
(* task that waits for it is cancelled.                                    *)
(***************************************************************************)
EXTENDS Naturals, Sequences, SequencesExt

VARIABLES
    phase,       \* starting, serving, stopping, stopped, failed (start undone)
    started,     \* how many parts have been started
    stack,       \* closes to come, the last one first
    open,        \* parts and stores that are open
    thread,      \* the storage thread: idle, opening a store, or shut down
    startWaits,  \* a task waits for the thread
    orphaned,    \* history: the task stopped waiting while the thread went on
    lost         \* history: stores that no close is left for

lifeVars == <<phase, started, stack, open, thread, startWaits, orphaned, lost>>

(* In the order of __aenter__.                                              *)
Parts == <<"executor", "stores", "guard", "http", "browsers", "converters", "jobs">>
Stores == {"cache", "state"}
Part(n) == Parts[n]

(* Parts whose work calls another until it is closed: jobs crawl and save,  *)
(* a crawl fetches and converts, and all of it goes through the guard, the  *)
(* stores and the storage thread.                                           *)
Needs(part) ==
    CASE part = "jobs" -> {"converters", "browsers", "http", "guard", "cache", "state", "executor"}
      [] part \in {"converters", "browsers", "http"} -> {"guard", "cache", "state", "executor"}
      [] part \in {"guard", "cache", "state"} -> {"executor"}
      [] OTHER -> {}

LifeInit ==
    /\ phase = "starting" /\ started = 0 /\ stack = <<>> /\ open = {}
    /\ thread = "none" /\ startWaits = FALSE /\ orphaned = FALSE /\ lost = {}

-----------------------------------------------------------------------------
PushedFirst(part) == <<part>> \o stack
Pushed(part) == Append(stack, part)

(* A part that starts at once, or waits for its socket.                     *)
StartPart ==
    LET part == Part(started + 1)
    IN /\ phase = "starting" /\ started < Len(Parts) /\ part # "stores"
       /\ started' = started + 1
       /\ stack' = Pushed(part) /\ open' = open \cup {part}
       /\ phase' = IF started' = Len(Parts) THEN "serving" ELSE "starting"
       /\ thread' = IF part = "executor" THEN "idle" ELSE thread
       /\ UNCHANGED <<startWaits, orphaned, lost>>

OpenStores ==
    /\ phase = "starting" /\ Part(started + 1) = "stores" /\ thread = "idle" /\ ~startWaits
    /\ thread' = "cache" /\ startWaits' = TRUE
    /\ UNCHANGED <<phase, started, stack, open, orphaned, lost>>

(* _open_stores on its thread: the first store, the second, expire().       *)
CacheOpens ==
    /\ thread = "cache"
    /\ thread' = "state" /\ open' = open \cup {"cache"}
    /\ UNCHANGED <<phase, started, stack, startWaits, orphaned, lost>>

StateOpens ==
    /\ thread = "state"
    /\ thread' = "expire" /\ open' = open \cup {"state"}
    /\ UNCHANGED <<phase, started, stack, startWaits, orphaned, lost>>

StoresOpen ==
    /\ thread = "expire"
    /\ thread' = "idle"
    /\ IF startWaits
       THEN /\ startWaits' = FALSE /\ started' = started + 1 /\ stack' = Pushed("stores")
            /\ UNCHANGED lost
       ELSE lost' = lost \cup Stores /\ UNCHANGED <<startWaits, started, stack>>
    /\ UNCHANGED <<phase, open, orphaned>>

(* A store cannot be opened, or expired: the first one is closed again, the *)
(* second one is not.                                                       *)
StoresFail ==
    /\ thread \in {"cache", "state", "expire"}
    /\ thread' = "idle"
    /\ open' = open \ {"cache"}
    /\ lost' = IF thread = "expire" THEN lost \cup {"state"} ELSE lost
    /\ startWaits' = FALSE
    /\ phase' = IF startWaits THEN "undoing" ELSE phase
    /\ UNCHANGED <<started, stack, orphaned>>

(* Any other part fails to start, or the start is cancelled in an await:    *)
(* for the stores, or for the guard's socket.                               *)
StartFails ==
    /\ phase = "starting"
    /\ phase' = "undoing"
    /\ orphaned' = startWaits /\ startWaits' = FALSE
    /\ UNCHANGED <<started, stack, open, thread, lost>>

Stop ==
    /\ phase = "serving"
    /\ phase' = "stopping"
    /\ UNCHANGED <<started, stack, open, thread, startWaits, orphaned, lost>>

(* The next close of the stack; executor.shutdown(True) waits for what its  *)
(* thread still does.                                                       *)
Unwinding == phase \in {"undoing", "stopping"}
Gone(part) == IF part = "stores" THEN Stores ELSE {part}

KeptUnlessFailed(failed) == IF failed THEN <<>> ELSE Front(stack)
Kept(failed) == Front(stack)

ClosePart(failed) ==
    LET part == Last(stack)
    IN /\ Unwinding /\ stack # <<>>
       /\ part = "executor" => thread = "idle"
       /\ stack' = Kept(failed)
       /\ open' = IF part = "stores" /\ failed THEN open \ {"cache"} ELSE open \ Gone(part)
       /\ lost' = IF part = "stores" /\ failed THEN lost \cup {"state"} ELSE lost
       /\ thread' = IF part = "executor" THEN "none" ELSE thread
       /\ UNCHANGED <<phase, started, startWaits, orphaned>>

Unwound ==
    /\ Unwinding /\ stack = <<>>
    /\ phase' = IF phase = "stopping" THEN "stopped" ELSE "failed"
    /\ UNCHANGED <<started, stack, open, thread, startWaits, orphaned, lost>>

LifeNext ==
    \/ StartPart \/ OpenStores \/ CacheOpens \/ StateOpens \/ StoresOpen \/ StoresFail
    \/ StartFails \/ Stop \/ Unwound \/ \E failed \in BOOLEAN : ClosePart(failed)

LifeSpec == LifeInit /\ [][LifeNext]_lifeVars

-----------------------------------------------------------------------------
LifeTypeOK ==
    /\ phase \in {"starting", "serving", "stopping", "undoing", "stopped", "failed"}
    /\ started \in 0..Len(Parts)
    /\ open \subseteq ToSet(Parts) \cup Stores /\ lost \subseteq Stores
    /\ thread \in {"none", "idle", "cache", "state", "expire"}
    /\ startWaits \in BOOLEAN /\ orphaned \in BOOLEAN

(* Whenever start or stop fails, in whatever step: a part never outlives    *)
(* one it needs, the storage thread never outlives its work, and in the end *)
(* all is closed but a store that the code has no close for: one that was   *)
(* opened for a task that had stopped waiting, or whose expire() or whose   *)
(* companion's close() failed.                                              *)
PartsOutliveTheirUsers ==
    /\ \A part \in open \ Stores : Needs(part) \subseteq open
    /\ thread \notin {"none", "idle"} => "executor" \in open
    /\ phase \in {"stopped", "failed"} => open \subseteq lost /\ thread = "none"
    /\ phase = "serving" => open = (ToSet(Parts) \ {"stores"}) \cup Stores
    /\ lost \cap open # {} => orphaned \/ Unwinding \/ phase \in {"stopped", "failed"}
=============================================================================
