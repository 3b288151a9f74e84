----------------------------- MODULE Readiness -----------------------------
(***************************************************************************)
(* How a browser attempt waits for its page: wait_for_challenge and        *)
(* wait_for_content of app/browser_readiness.py, against a page that goes  *)
(* on by itself.  Every call of the driver is a round trip of its own: the *)
(* title, the log, the snapshot and each selector are looked at one after  *)
(* the other, the clock is read in between, and the page's text,           *)
(* selectors and requests change between any two of them.                  *)
(*                                                                         *)
(* Time is in ticks of the loop's 0.1 seconds.  A text is its signature,   *)
(* which never comes back once it changed (a text that changes and changes *)
(* back between two looks is not noticed); one that is being loaded,       *)
(* marked busy or typeset is not ready.                                    *)
(***************************************************************************)
EXTENDS Naturals

CONSTANTS PageRequests,    \* XHR, fetch and script requests of the page
          Selectors,       \* what wait_for_selectors may ask for
          MaxText,         \* bound: the page shows texts 0..MaxText, 0 for none
          MinimumWaits,    \* what wait_for_ms may be
          StableFor,       \* stable_for
          RequestWait,     \* REQUEST_WAIT_SECONDS
          AutoWaitLimit,   \* AUTO_WAIT_LIMIT_SECONDS
          ChallengeLimit,  \* CHALLENGE_LIMIT_SECONDS
          PageDeadline     \* the time left when the page has loaded

ASSUME ReadinessAssumption ==
    /\ MaxText \in Nat /\ MinimumWaits \subseteq Nat /\ StableFor \in Nat
    /\ RequestWait \in Nat /\ AutoWaitLimit \in Nat /\ ChallengeLimit \in Nat
    /\ PageDeadline \in Nat

VARIABLES
    autoWait, minimum, wanted,  \* js_auto_wait, wait_for_ms, wait_for_selectors
    now,
    waitAt,         \* the next call of the two waits, or how they ended
    challenged, text, documentReady, displayed, net,  \* the page: title, text, selectors, requests
    log,            \* log records that have not been read
    entries,        \* those read and not yet observed
    started,        \* when wait_for_content began
    running, lastChange,   \* _ContentRequests
    snapshot, met,  \* the text last taken and whether it was ready; the selectors found since
    previous, changed,     \* the signature last seen, and since when
    explicitSince,         \* since when selectors and minimum wait are met
    textSince, snapSince, netSince, truth   \* history, see below

optionVars == <<autoWait, minimum, wanted>>
shownVars == <<challenged, text, documentReady, displayed, textSince>>
netVars == <<net, log, netSince>>
seenVars == <<entries, started, running, lastChange, truth>>
lookVars == <<snapshot, met, snapSince>>
noteVars == <<previous, changed, explicitSince>>
readinessVars == <<optionVars, now, waitAt, shownVars, netVars, seenVars, lookVars, noteVars>>

Never == PageDeadline + 1   \* no time
Unseen == MaxText + 1       \* no signature

Running == {r \in PageRequests : net[r] = "running"}

(* History: since when the present text and the text of the snapshot have   *)
(* been shown, when a request last started or ended, and what there was to  *)
(* tell of the requests when the log was read.                              *)
Truth == [running : SUBSET PageRequests, since : Nat]

ReadinessInit ==
    /\ autoWait \in BOOLEAN /\ minimum \in MinimumWaits /\ wanted \in SUBSET Selectors
    /\ now = 0 /\ waitAt = "challenge"
    /\ challenged \in BOOLEAN /\ text = 0 /\ documentReady = FALSE /\ displayed = {}
    /\ net \in [PageRequests -> {"idle", "running"}]
    /\ log = {<<r, "starts">> : r \in Running} /\ entries = {}
    /\ started = 0 /\ running = {} /\ lastChange = Never
    /\ snapshot = [text |-> 0, ready |-> FALSE] /\ met = {}
    /\ previous = Unseen /\ changed = 0 /\ explicitSince = Never
    /\ textSince = 0 /\ snapSince = 0 /\ netSince = 0
    /\ truth = [running |-> {}, since |-> 0]

(* The places with a call of the driver, and those between them.            *)
DriverPlaces == {"challenge", "events", "read", "look", "select"}
WaitPlaces == DriverPlaces \cup {"begin", "round", "observe", "decide"}
Overdue == now >= PageDeadline

-----------------------------------------------------------------------------
(* The page goes on.                                                        *)

TextChanges ==
    /\ waitAt \in WaitPlaces /\ text < MaxText
    /\ text' = text + 1 /\ textSince' = now
    /\ UNCHANGED <<optionVars, now, waitAt, challenged, documentReady, displayed,
                   netVars, seenVars, lookVars, noteVars>>

PageTurns ==
    /\ waitAt \in WaitPlaces
    /\ \/ documentReady' = ~documentReady /\ UNCHANGED <<displayed, challenged>>
       \/ /\ \E s \in wanted : displayed' \in {displayed \cup {s}, displayed \ {s}}
          /\ UNCHANGED <<documentReady, challenged>>
       \/ challenged /\ challenged' = FALSE /\ UNCHANGED <<documentReady, displayed>>
    /\ UNCHANGED <<optionVars, now, waitAt, text, textSince, netVars, seenVars, lookVars, noteVars>>

RequestMoves(r) ==
    /\ waitAt \in WaitPlaces
    /\ \/ /\ net[r] = "idle"
          /\ net' = [net EXCEPT ![r] = "running"]
          /\ log' = log \cup {<<r, "starts">>}
       \/ /\ net[r] = "running"
          /\ net' = [net EXCEPT ![r] = "over"]
          /\ log' = log \cup {<<r, "ends">>}
    /\ netSince' = now
    /\ UNCHANGED <<optionVars, now, waitAt, shownVars, seenVars, lookVars, noteVars>>

(* Between any two calls, time.sleep included.                              *)
Tick ==
    /\ waitAt \in WaitPlaces /\ now < PageDeadline
    /\ now' = now + 1
    /\ UNCHANGED <<optionVars, waitAt, shownVars, netVars, seenVars, lookVars, noteVars>>

-----------------------------------------------------------------------------
(* What has happened since the log was last read.                           *)
LogTaken ==
    /\ entries' = log /\ log' = {}
    /\ truth' = [running |-> Running, since |-> netSince]
    /\ UNCHANGED <<net, netSince, running, lastChange>>

(* _ContentRequests.observe: records of requests it does not know as        *)
(* running are skipped.                                                     *)
Observe(records) ==
    LET starts == {r \in PageRequests : <<r, "starts">> \in records}
        ends == {r \in PageRequests : <<r, "ends">> \in records} \cap (running \cup starts)
    IN /\ running' = (running \cup starts) \ ends
       /\ lastChange' = IF starts \cup ends # {} THEN now ELSE lastChange
       /\ entries' = {}
       /\ UNCHANGED truth

Quiet == running = {} /\ (lastChange = Never \/ now - lastChange >= StableFor)

NothingToWaitFor == ~autoWait /\ wanted = {} /\ minimum = 0

NoEvents == {}
EventsSoFar == entries

(* The challenge is passed or has had its time.                             *)
ChallengeEnds ==
    /\ waitAt = "challenge"
    /\ ~autoWait \/ ~challenged \/ now >= ChallengeLimit
    /\ waitAt' = "events"
    /\ UNCHANGED <<optionVars, now, shownVars, netVars, seenVars, lookVars, noteVars>>

EventsRead ==
    /\ waitAt = "events"
    /\ waitAt' = "begin" /\ LogTaken
    /\ UNCHANGED <<optionVars, now, shownVars, started, lookVars, noteVars>>

(* wait_for_content begins, and observes the events handed to it.           *)
WaitBegins ==
    /\ waitAt = "begin"
    /\ \/ /\ NothingToWaitFor
          /\ waitAt' = "settled"
          /\ UNCHANGED <<seenVars, changed>>
       \/ /\ ~NothingToWaitFor
          /\ waitAt' = "round"
          /\ started' = now /\ changed' = now
          /\ Observe(EventsSoFar)
    /\ UNCHANGED <<optionVars, now, shownVars, netVars, lookVars, previous, explicitSince>>

RoundBegins ==
    /\ waitAt = "round" /\ ~Overdue
    /\ waitAt' = "read"
    /\ UNCHANGED <<optionVars, now, shownVars, netVars, seenVars, lookVars, noteVars>>

LogRead ==
    /\ waitAt = "read"
    /\ waitAt' = "observe" /\ LogTaken
    /\ UNCHANGED <<optionVars, now, shownVars, started, lookVars, noteVars>>

Observed ==
    /\ waitAt = "observe"
    /\ waitAt' = "look" /\ Observe(entries)
    /\ UNCHANGED <<optionVars, now, shownVars, netVars, started, lookVars, noteVars>>

(* One script takes the text and whether the document is ready.             *)
SnapshotTaken ==
    /\ waitAt = "look"
    /\ waitAt' = IF wanted = {} THEN "decide" ELSE "select"
    /\ snapshot' = [text |-> text, ready |-> documentReady] /\ snapSince' = textSince
    /\ met' = {}
    /\ UNCHANGED <<optionVars, now, shownVars, netVars, seenVars, noteVars>>

(* Selector after selector, until one of them is not displayed.             *)
SelectorLookedAt(s) ==
    /\ waitAt = "select" /\ s \in wanted \ met
    /\ IF s \in displayed
       THEN met' = met \cup {s} /\ waitAt' = IF wanted \subseteq met' THEN "decide" ELSE "select"
       ELSE met' = met /\ waitAt' = "decide"
    /\ UNCHANGED <<optionVars, now, shownVars, netVars, seenVars, snapshot, snapSince, noteVars>>

Selected == wanted \subseteq met
MinimumOver == now - started >= minimum
Changed == IF snapshot.text # previous THEN now ELSE changed

ContentReadyIfStable(since) ==
    snapshot.text > 0 /\ snapshot.ready /\ now - since >= StableFor
ContentReady(since) ==
    /\ snapshot.text > 0 /\ snapshot.ready
    /\ now - since >= StableFor
    /\ Quiet \/ now - started >= RequestWait

Since == IF explicitSince = Never THEN now ELSE explicitSince
GivesUp == now - Since >= AutoWaitLimit

(* The clock is read after all the looks, and what they showed is judged.   *)
Decide ==
    /\ waitAt = "decide"
    /\ previous' = snapshot.text /\ changed' = Changed
    /\ IF ~(Selected /\ MinimumOver)
       THEN explicitSince' = Never /\ waitAt' = "round"
       ELSE /\ explicitSince' = Since
            /\ waitAt' = IF ContentReady(Changed) \/ ~autoWait THEN "settled"
                         ELSE IF GivesUp THEN "unsettled" ELSE "round"
    /\ UNCHANGED <<optionVars, now, shownVars, netVars, seenVars, lookVars>>

(* A selector that no browser accepts, or a driver that fails.              *)
LookFails ==
    /\ waitAt \in DriverPlaces
    /\ waitAt' = "failed"
    /\ UNCHANGED <<optionVars, now, shownVars, netVars, seenVars, lookVars, noteVars>>

(* Deadline.remaining, on the way into the next round of either loop.       *)
WaitOverdue ==
    /\ waitAt \in {"challenge", "round"} /\ Overdue
    /\ waitAt = "challenge" => autoWait
    /\ waitAt' = "failed"
    /\ UNCHANGED <<optionVars, now, shownVars, netVars, seenVars, lookVars, noteVars>>

PageMovesOn ==
    \/ TextChanges \/ PageTurns \/ Tick
    \/ \E r \in PageRequests : RequestMoves(r)

(* Time passes and the two waits go on; the page owes nothing.              *)
LoopTurns ==
    \/ ChallengeEnds \/ EventsRead \/ WaitBegins
    \/ RoundBegins \/ LogRead \/ Observed \/ SnapshotTaken
    \/ \E s \in Selectors : SelectorLookedAt(s)
    \/ Decide \/ WaitOverdue

ReadinessNext == PageMovesOn \/ LoopTurns \/ LookFails

ReadinessSpec == ReadinessInit /\ [][ReadinessNext]_readinessVars
ReadinessFairSpec == ReadinessSpec /\ WF_readinessVars(Tick) /\ WF_readinessVars(LoopTurns)

-----------------------------------------------------------------------------
Times == 0..PageDeadline + 1
Records == PageRequests \X {"starts", "ends"}

ReadinessTypeOK ==
    /\ autoWait \in BOOLEAN /\ minimum \in MinimumWaits /\ wanted \subseteq Selectors
    /\ waitAt \in WaitPlaces \cup {"settled", "unsettled", "failed"}
    /\ challenged \in BOOLEAN /\ text \in 0..MaxText /\ documentReady \in BOOLEAN
    /\ displayed \subseteq Selectors
    /\ net \in [PageRequests -> {"idle", "running", "over"}]
    /\ log \subseteq Records /\ entries \subseteq Records
    /\ running \subseteq PageRequests
    /\ snapshot \in [text : 0..MaxText, ready : BOOLEAN] /\ met \subseteq wanted
    /\ previous \in 0..Unseen
    /\ {now, started, lastChange, changed, explicitSince, textSince, snapSince, netSince} \subseteq Times
    /\ truth \in Truth

(* "Settled" is true of what was looked at, and not only of the loop's      *)
(* notes: the text of the last snapshot was ready and had come at least     *)
(* StableFor before the decision; every selector was displayed at its look; *)
(* and when the log was last read no request ran, and none had started or   *)
(* ended within StableFor of the decision, unless requests had their        *)
(* RequestWait.  (Of the page at the moment of the decision it says         *)
(* nothing: the text may change and requests may start between the looks,   *)
(* lines 182-190, and the clock read at 195.)  "Not settled" is said only   *)
(* by auto-wait, and not before the explicit waits and then the limit have  *)
(* passed.                                                                  *)
SettledIsTrue ==
    /\ waitAt = "settled" /\ ~NothingToWaitFor =>
         /\ Selected /\ now - started >= minimum
         /\ autoWait =>
              /\ snapshot.text > 0 /\ snapshot.ready /\ now - snapSince >= StableFor
              /\ \/ now - started >= RequestWait
                 \/ truth.running = {} /\ now - truth.since >= StableFor
    /\ waitAt = "unsettled" =>
         /\ autoWait /\ Selected
         /\ now - started >= minimum + AutoWaitLimit

(* Both waits end, for a page that changes or keeps requests open for ever. *)
WaitEnds == <>(waitAt \notin WaitPlaces)
=============================================================================
