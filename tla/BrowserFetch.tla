--------------------------- MODULE BrowserFetch ---------------------------
(***************************************************************************)
(* BrowserFetcher.fetch and selenium_fetch of app/js_fetcher.py: attempts  *)
(* in a worker process, each with a browser of its own, behind one egress  *)
(* guard.  The browser, its driver and the pages fail as they like, and    *)
(* redirects and scripts move the browser from page to page, also between  *)
(* two calls of the driver: the frame, the HTML, the picture and the       *)
(* address are looked at one after the other.  A worker whose task failed  *)
(* or ran out of time is killed with all its processes (WorkerPool).       *)
(*                                                                         *)
(* A page stands for its address: the one asked for, another public one,   *)
(* one that is prohibited, or one of Chrome's own.  What is prohibited is  *)
(* what security.resolve_target refuses when it is asked.                  *)
(***************************************************************************)
EXTENDS Naturals

CONSTANTS BrowserRetries,  \* options.retries
          MaxBlocked       \* bound: connections the guard refuses

ASSUME BrowserAssumption == BrowserRetries \in Nat /\ MaxBlocked \in Nat

VARIABLES
    browserAt,  \* the await of fetch, or the place in selenium_fetch
    tries,      \* attempt
    paced,      \* slots acquire has given
    loads,      \* pages a browser was sent to
    guard,      \* the EgressProxy is open
    blocked,    \* guard.blocked
    driver,     \* the browser: none, up, or about to be killed
    shown,      \* the page the browser shows, "nothing" at first
    still,      \* history: it has not moved since the frame was looked at
    captured, pictured,  \* the pages of the HTML and of the screenshot
    address,    \* final_url
    failure,    \* the error under way
    overdue,    \* the deadline has passed
    rendered    \* the answer

workVars == <<driver, shown, still>>
foundVars == <<captured, pictured, address>>
browserVars == <<browserAt, tries, paced, loads, guard, blocked, workVars, foundVars,
                 failure, overdue, rendered>>

Looks == {"frame", "html", "picture", "address"}
Worker == {"start", "load", "quit"} \cup Looks
Places == Worker \cup {"enter", "acquire", "check", "sleep", "leave", "done"}
WebPages == {"asked", "other", "prohibited"}
Shown == WebPages \cup {"nothing", "own"}
NoFailure == [code |-> 0, permanent |-> FALSE]
Error(code) == [code |-> code, permanent |-> FALSE]
Permanent == [code |-> 502, permanent |-> TRUE]
Failures == {NoFailure, Permanent} \cup {Error(c) : c \in {400, 422, 502, 504}}
Unrendered == [ends |-> "none"]

BrowserInit ==
    /\ browserAt = "enter" /\ tries = 0 /\ paced = 0 /\ loads = 0
    /\ guard = FALSE /\ blocked = 0
    /\ driver = "none" /\ shown = "nothing" /\ still = FALSE
    /\ captured = "nothing" /\ pictured = "nothing" /\ address = "nothing"
    /\ failure = NoFailure /\ overdue = FALSE
    /\ rendered = Unrendered

(* except CrawlError: a temporary 502 is tried again.                       *)
RetriesAll(f) == f.code = 502 /\ tries < BrowserRetries
Retried(f) == f.code = 502 /\ tries < BrowserRetries /\ ~f.permanent

FetchFails(f) ==
    /\ failure' = f
    /\ driver' = "none"
    /\ IF Retried(f) THEN browserAt' = "sleep" /\ UNCHANGED rendered
       ELSE browserAt' = "leave" /\ rendered' = [ends |-> "error", code |-> f.code]
    /\ UNCHANGED <<tries, paced, loads, guard, blocked, shown, still, foundVars, overdue>>

BrowserGoes(place) ==
    /\ browserAt' = place
    /\ UNCHANGED <<tries, guard, overdue, rendered>>

-----------------------------------------------------------------------------
(* The guard listens, unless the upstream proxy is refused.                 *)
GuardOpens ==
    /\ browserAt = "enter"
    /\ \/ /\ browserAt' = "acquire" /\ guard' = TRUE
          /\ UNCHANGED <<failure, rendered>>
       \/ /\ browserAt' = "done" /\ rendered' = [ends |-> "error", code |-> 400]
          /\ failure' = Error(400)
          /\ UNCHANGED guard
    /\ UNCHANGED <<tries, paced, loads, blocked, workVars, foundVars, overdue>>

(* acquire returns in its slot or refuses with 504 (module RateLimiter).    *)
Paced ==
    /\ browserAt = "acquire" /\ ~overdue
    /\ \/ /\ BrowserGoes("start")
          /\ paced' = paced + 1
          /\ UNCHANGED <<loads, blocked, workVars, foundVars, failure>>
       \/ FetchFails(Error(504))

DriverStarts ==
    /\ browserAt = "start"
    /\ \/ /\ BrowserGoes("load")
          /\ driver' = "up"
          /\ UNCHANGED <<paced, loads, blocked, shown, still, foundVars, failure>>
       \/ FetchFails(Error(502))

(* driver.get and the waits (module Readiness) end on whatever page, or in  *)
(* an exception; the finally quits the driver in any case.                  *)
AfterLoadReturning(failed) == IF failed THEN "check" ELSE "quit"
AfterLoad(failed) == "quit"

PageLoads ==
    /\ browserAt = "load"
    /\ loads' = loads + 1
    /\ \/ /\ shown' \in Shown \ {"nothing"} /\ failure' = NoFailure
          /\ BrowserGoes("frame")
       \/ /\ failure' \in Failures \ {NoFailure, Error(400)} /\ UNCHANGED shown
          /\ BrowserGoes(AfterLoad(TRUE))
    /\ UNCHANGED <<paced, blocked, driver, still, foundVars>>

(* A redirect, a script or a reload, between any two calls of the driver.   *)
PageMoves ==
    /\ browserAt \in Looks
    /\ shown' \in Shown \ {"nothing", shown} /\ still' = FALSE
    /\ UNCHANGED <<browserAt, tries, paced, loads, guard, blocked, driver, foundVars, failure,
                   overdue, rendered>>

LooksOn(place) ==
    /\ BrowserGoes(place)
    /\ UNCHANGED <<paced, loads, blocked, driver, shown, failure>>

(* Chrome's own page is never content: nothing is captured then.            *)
FrameLookedAt ==
    /\ browserAt = "frame"
    /\ still' = TRUE /\ captured' = "nothing" /\ pictured' = "nothing"
    /\ LooksOn(IF shown \in WebPages THEN "html" ELSE "address")
    /\ UNCHANGED address

HtmlCaptured ==
    /\ browserAt = "html"
    /\ captured' = shown
    /\ LooksOn("picture")
    /\ UNCHANGED <<still, pictured, address>>

(* A screenshot may not be asked for, or not succeed.                       *)
PictureTaken ==
    /\ browserAt = "picture"
    /\ pictured' \in {"nothing", shown}
    /\ LooksOn("address")
    /\ UNCHANGED <<still, captured, address>>

(* driver.current_url, and the address asked for if it is Chrome's own.     *)
AddressTaken ==
    /\ browserAt = "address"
    /\ address' = IF shown \in WebPages THEN shown ELSE "asked"
    /\ LooksOn(AfterLoad(FALSE))
    /\ UNCHANGED <<still, captured, pictured>>

LookBreaks ==
    /\ browserAt \in Looks
    /\ failure' \in Failures \ {NoFailure, Error(400)}
    /\ BrowserGoes(AfterLoad(TRUE))
    /\ UNCHANGED <<paced, loads, blocked, workVars, foundVars>>

(* A cleanup that fails takes the place of the result or the error.         *)
DriverQuits ==
    /\ browserAt = "quit"
    /\ \/ FetchFails(Error(502))
       \/ failure # NoFailure /\ FetchFails(failure)
       \/ /\ failure = NoFailure
          /\ BrowserGoes("check")
          /\ driver' = "none"
          /\ UNCHANGED <<paced, loads, blocked, shown, still, foundVars, failure>>

(* The guard refuses a connection of the browser, while there is one.       *)
GuardBlocks ==
    /\ driver # "none" /\ guard /\ blocked < MaxBlocked
    /\ blocked' = blocked + 1
    /\ UNCHANGED <<browserAt, tries, paced, loads, guard, workVars, foundVars, failure, overdue, rendered>>

(* The address is resolved again, and refused as well when it no longer     *)
(* resolves.                                                                *)
NeverProhibited == FALSE
Prohibited == address = "prohibited"

FinalUrlChecked ==
    /\ browserAt = "check" /\ ~overdue
    /\ \/ FetchFails(Error(400))
       \/ /\ ~Prohibited
          /\ browserAt' = "leave"
          /\ rendered' = [ends |-> "result", address |-> address, content |-> captured,
                           picture |-> pictured, warned |-> blocked > 0]
          /\ UNCHANGED <<tries, paced, loads, guard, blocked, workVars, foundVars, failure, overdue>>

SleepEnds ==
    /\ browserAt = "sleep" /\ ~overdue
    /\ browserAt' = "acquire"
    /\ tries' = tries + 1 /\ failure' = NoFailure /\ shown' = "nothing"
    /\ UNCHANGED <<paced, loads, guard, blocked, driver, still, foundVars, overdue, rendered>>

DeadlinePasses ==
    /\ ~overdue /\ browserAt # "done"
    /\ overdue' = TRUE
    /\ UNCHANGED <<browserAt, tries, paced, loads, guard, blocked, workVars, foundVars, failure,
                   rendered>>

(* Every await but the guard's own is under the deadline.  The worker is    *)
(* killed first, unless the outer deadline cuts that wait short as well.    *)
BrowserOverdue ==
    /\ overdue /\ browserAt \notin {"enter", "leave", "done"}
    /\ \/ FetchFails(Error(504))
       \/ /\ driver = "up"
          /\ driver' = "dying"
          /\ browserAt' = "leave"
          /\ failure' = Error(504) /\ rendered' = [ends |-> "error", code |-> 504]
          /\ UNCHANGED <<tries, paced, loads, guard, blocked, shown, still, foundVars, overdue>>

WorkerKilled ==
    /\ driver = "dying"
    /\ driver' = "none"
    /\ UNCHANGED <<browserAt, tries, paced, loads, guard, blocked, shown, still, foundVars, failure,
                   overdue, rendered>>

GuardCloses ==
    /\ browserAt = "leave"
    /\ browserAt' = "done" /\ guard' = FALSE
    /\ UNCHANGED <<tries, paced, loads, blocked, workVars, foundVars, failure, overdue, rendered>>

BrowserNext ==
    \/ GuardOpens \/ Paced \/ DriverStarts \/ PageLoads \/ PageMoves
    \/ FrameLookedAt \/ HtmlCaptured \/ PictureTaken \/ AddressTaken \/ LookBreaks
    \/ DriverQuits \/ GuardBlocks \/ FinalUrlChecked \/ SleepEnds \/ DeadlinePasses \/ BrowserOverdue \/ WorkerKilled
    \/ GuardCloses

BrowserSpec == BrowserInit /\ [][BrowserNext]_browserVars

(* The guard opens and closes, and time passes; no page has to end.         *)
BrowserProgress == GuardOpens \/ GuardCloses \/ DeadlinePasses \/ BrowserOverdue \/ WorkerKilled
BrowserFairSpec == BrowserSpec /\ WF_browserVars(BrowserProgress)

-----------------------------------------------------------------------------
BrowserTypeOK ==
    /\ browserAt \in Places /\ tries \in 0..BrowserRetries
    /\ paced \in Nat /\ loads \in Nat /\ blocked \in 0..MaxBlocked
    /\ guard \in BOOLEAN /\ overdue \in BOOLEAN
    /\ driver \in {"none", "up", "dying"} /\ failure \in Failures
    /\ {shown, captured, pictured, address} \subseteq Shown /\ still \in BOOLEAN

(* What was captured is what the answer's address names, or nothing.        *)
OfItsAddress(r) == {r.content, r.picture} \subseteq {"nothing", r.address}

(* No prohibited address is given as the page's own, however often the      *)
(* attempts failed; a page that stayed once its frame was looked at is      *)
(* returned under its own, checked address, or is Chrome's own and returned *)
(* as no content; a browser that is not being killed has its guard and its  *)
(* attempt; each load has a slot of its own; and the answer warns of what   *)
(* the guard refused in any attempt.  Of a page that moves on after its     *)
(* frame was looked at nothing is said but its address: the HTML (line 131) *)
(* and the picture (142) may be of one page, a prohibited one too, and the  *)
(* address that is checked (147, 187) of the next.                          *)
BrowserSound ==
    /\ rendered.ends = "result" =>
         /\ rendered.address \in WebPages \ {"prohibited"}
         /\ still => OfItsAddress(rendered)
         /\ rendered.warned = (blocked > 0)
         /\ driver = "none"
    /\ driver = "up" => guard /\ browserAt \in Worker
    /\ loads <= paced /\ paced <= tries + 1

(* The fetch ends, and no browser is left behind it.                        *)
BrowserEnds == <>[](browserAt = "done" /\ driver = "none" /\ ~guard)
=============================================================================
