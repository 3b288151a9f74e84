---------------------------- MODULE FetchProofs ----------------------------
(***************************************************************************)
(* The fetchers, the waits for a page and the egress guard, for any pages, *)
(* redirects, retries, deadlines and connections (modules HttpFetch,       *)
(* BrowserFetch, Readiness and EgressProxy): what a fetch answers and what *)
(* a request may leave for, which page of a browser is returned and when   *)
(* it counts as settled, and what the guard lets through.                  *)
(***************************************************************************)
EXTENDS HttpFetch, BrowserFetch, Readiness, EgressProxy, FiniteSetTheorems, TLAPS

(* Each check is made for the page the fetch is at, and used up by the      *)
(* request it was made for.                                                 *)
ChecksInOrder ==
    /\ fetchAt = "pace" => cleared = [validated |-> page, paced |-> NoPage]
    /\ fetchAt = "send" => cleared = [validated |-> page, paced |-> page]
    /\ fetchAt \in {"validate", "answer", "body", "sleep"} => cleared = Unchecked

HttpInv ==
    /\ fetchAt \in {"validate", "pace", "send", "answer", "body", "sleep", "done"}
    /\ ChecksInOrder
    /\ sent.conditional => sent.to = issuer
    /\ fetched \in Results => fetchAt = "done"
    /\ AnswersTrue

-----------------------------------------------------------------------------
LEMMA NoResultYet == Pending \notin Results /\ Errors \cap Results = {}
<1>1. \A r \in Results : r.end = "result"
  BY DEF Results
<1>2. Pending.end = "none" /\ \A e \in Errors : e.end = "error"
  BY DEF Pending, Errors
<1> QED
  BY <1>1, <1>2

LEMMA HttpInitInv == HttpInit => HttpInv
BY NoResultYet DEF HttpInit, HttpInv, ChecksInOrder, AnswersTrue, NoRequest

(* A fetch that ends without a result.                                      *)
LEMMA RaiseKeeps ==
  ASSUME HttpInv, NEW code \in {400, 502, 504}, Raise(code)
  PROVE  HttpInv'
<1>1. fetched' \notin Results
  <2>1. fetched' \in Errors
    BY DEF Raise, End, Errors
  <2> QED
    BY <2>1, NoResultYet DEF Results
<1>2. fetchAt' = "done" /\ open' = 0 /\ sent' = sent /\ issuer' = issuer
  BY DEF Raise, End
<1> QED
  BY <1>1, <1>2 DEF HttpInv, ChecksInOrder, AnswersTrue, Results

(* A fetch that goes to sleep: the request and the response are given up.   *)
LEMMA SleepKeeps ==
  ASSUME HttpInv, fetchAt \in {"answer", "body"}, NEW after, SleepFor(after)
  PROVE  HttpInv'
BY DEF SleepFor, HttpInv, ChecksInOrder, AnswersTrue, NoRequest, Results

(* A whole response, of the page the request went to.                       *)
LEMMA AnswerKeeps ==
  ASSUME HttpInv, fetchAt \in {"answer", "body"}, NEW status \in Statuses,
         NEW truncated, NEW validators \in BOOLEAN, NEW after,
         status = "unchanged" => sent.conditional,
         Answer(status, truncated, validators, after)
  PROVE  HttpInv'
<1>1. CASE status = "busy" /\ ~LastAttempt
  BY <1>1, SleepKeeps DEF Answer
<1>2. CASE ~(status = "busy" /\ ~LastAttempt)
  <2> DEFINE result == [end |-> "result", from |-> sent.to, status |-> status,
                        truncated |-> truncated,
                        validators |-> IF validators THEN sent.to ELSE NoPage]
  <2>1. End(result)
    BY <1>2 DEF Answer
  <2>2. fetchAt' = "done" /\ fetched' = result /\ open' = 0
        /\ UNCHANGED <<issuer, chainVars, cleared, sent>>
    BY <2>1 DEF End
  <2>3. result.status = status /\ result.from = sent.to
        /\ result.validators \in {NoPage, sent.to}
    OBVIOUS
  <2> HIDE DEF result
  <2>4. LastAttempt' = LastAttempt
    BY <2>2 DEF LastAttempt, chainVars
  <2>5. AnswersTrue'
    BY <1>2, <2>2, <2>3, <2>4 DEF AnswersTrue, HttpInv, Statuses
  <2> QED
    BY <2>2, <2>5 DEF HttpInv, ChecksInOrder
<1> QED
  BY <1>1, <1>2

LEMMA RespondKeeps ==
  ASSUME HttpInv, Respond
  PROVE  HttpInv'
<1>1. fetchAt = "answer"
  BY DEF Respond
<1>2. ASSUME NEW p \in Pages, Follow(p) PROVE HttpInv'
  <2>1. CASE Raise(502)
    BY <2>1, RaiseKeeps
  <2>2. CASE ~(Cardinality(visited) = MaxHops \/ p \in visited)
    BY <1>1, <1>2, <2>2 DEF Follow, NextCheck, HttpInv, ChecksInOrder, AnswersTrue, NoRequest
  <2> QED
    BY <1>2, <2>1, <2>2 DEF Follow
<1>3. ASSUME sent.conditional, NEW validators \in BOOLEAN,
             Answer("unchanged", FALSE, validators, NoHint)
      PROVE  HttpInv'
  BY <1>1, <1>3, AnswerKeeps DEF Statuses
<1>4. CASE fetchAt' = "body" /\ UNCHANGED <<elapsed, issuer, chainVars, cleared, sent, wake, fetched>>
  BY <1>1, <1>4 DEF HttpInv, ChecksInOrder, AnswersTrue, chainVars, LastAttempt
<1> QED
  BY <1>2, <1>3, <1>4 DEF Respond

LEMMA ReadKeeps ==
  ASSUME HttpInv, Read
  PROVE  HttpInv'
<1>1. fetchAt = "body"
  BY DEF Read
<1>2. CASE Raise(502)
  BY <1>2, RaiseKeeps
<1>3. ASSUME NEW status \in {"ok", "busy"}, NEW truncated \in BOOLEAN, NEW validators \in BOOLEAN,
             NEW after \in RetryAfters \cup {NoHint}, Answer(status, truncated, validators, after)
      PROVE  HttpInv'
  BY <1>1, <1>3, AnswerKeeps DEF Statuses
<1> QED
  BY <1>2, <1>3 DEF Read

(* The checks, the request that uses them up, and the next attempt.         *)
LEMMA CheckKeeps ==
  ASSUME HttpInv, Validate \/ Pace \/ Send \/ Wake
  PROVE  HttpInv'
<1>1. CASE \E code \in {400, 502, 504} : Raise(code)
  BY <1>1, RaiseKeeps
<1>2. CASE Validate /\ fetchAt' = "pace"
  BY <1>2 DEF Validate, Raise, End, HttpInv, ChecksInOrder, AnswersTrue, Unchecked, chainVars, LastAttempt
<1>3. CASE Pace /\ fetchAt' = "send"
  BY <1>3 DEF Pace, Raise, End, HttpInv, ChecksInOrder, AnswersTrue, chainVars, LastAttempt
<1>4. CASE Send
  BY <1>4 DEF Send, Conditional, HttpInv, ChecksInOrder, AnswersTrue, chainVars, LastAttempt
<1>5. CASE Wake
  BY <1>5 DEF Wake, HttpInv, ChecksInOrder, AnswersTrue
<1> QED
  BY <1>1, <1>2, <1>3, <1>4, <1>5 DEF Validate, Pace

LEMMA HttpStepInv == HttpInv /\ [HttpNext]_httpVars => HttpInv'
<1> SUFFICES ASSUME HttpInv, [HttpNext]_httpVars PROVE HttpInv'
  OBVIOUS
<1>1. CASE UNCHANGED httpVars
  BY <1>1 DEF httpVars, chainVars, HttpInv, ChecksInOrder, AnswersTrue, LastAttempt
<1>2. CASE Breaks
  BY <1>2, RaiseKeeps, SleepKeeps DEF Breaks, Broken
<1>3. CASE DeadlineStrikes
  BY <1>3, RaiseKeeps DEF DeadlineStrikes
<1>4. CASE TimePasses
  BY <1>4 DEF TimePasses, HttpInv, ChecksInOrder, AnswersTrue, chainVars, LastAttempt
<1> QED
  BY <1>1, <1>2, <1>3, <1>4, CheckKeeps, RespondKeeps, ReadKeeps DEF HttpNext

(* What the caller hears of a fetch is true, and no response stays open.    *)
THEOREM AnswersAreTrue == HttpSpec => []AnswersTrue
<1>1. HttpInv => AnswersTrue
  BY DEF HttpInv
<1> QED
  BY HttpInitInv, HttpStepInv, <1>1, PTL DEF HttpSpec

(* A request leaves only for a page that was validated and paced for it,    *)
(* and validators go to nobody but their issuer.                            *)
THEOREM RequestsAreCleared == HttpSpec => RequestsCleared
<1> DEFINE Leaves == sent' # sent /\ sent' # NoRequest
           Cleared == /\ cleared = [validated |-> sent'.to, paced |-> sent'.to]
                      /\ sent'.conditional => sent'.to = issuer
<1>1. ASSUME HttpInv, HttpNext, Leaves PROVE Cleared
  <2>1. Send
    <3>1. CASE Validate \/ Pace \/ Wake \/ DeadlineStrikes \/ TimePasses
      BY <1>1, <3>1 DEF Validate, Pace, Wake, DeadlineStrikes, TimePasses, Raise, End
    <3>2. CASE Respond \/ Read \/ Breaks
      BY <1>1, <3>2 DEF Respond, Read, Breaks, Broken, Follow, Answer, SleepFor, Raise, End
    <3> QED
      BY <1>1, <3>1, <3>2 DEF HttpNext
  <2> QED
    BY <1>1, <2>1 DEF Send, Conditional, HttpInv, ChecksInOrder
<1>2. HttpInv /\ [HttpNext]_httpVars => [Leaves => Cleared]_httpVars
  BY <1>1
<1> QED
  BY HttpInitInv, HttpStepInv, <1>2, PTL DEF HttpSpec, RequestsCleared

-----------------------------------------------------------------------------
(* Slots and loads, place by place: an attempt gets its slot in "acquire"   *)
(* and uses it up in "load".                                                *)
SlotsUsed ==
    /\ tries \in Nat /\ paced \in Nat /\ loads \in Nat
    /\ loads <= paced /\ paced <= tries + 1
    /\ browserAt \in {"enter", "acquire"} => paced <= tries
    /\ browserAt \in {"start", "load"} => loads + 1 <= paced

(* A browser is at work only behind the guard; what a look has found stays  *)
(* what the browser shows until it moves; and the address is known before   *)
(* the browser quits, and looked at when it is gone.                        *)
BrowserKept ==
    /\ browserAt \in Places \ {"enter", "done"} => guard
    /\ driver \in {"none", "up", "dying"}
    /\ driver = "up" => browserAt \in Worker
    /\ driver = "dying" => browserAt \in {"leave", "done"}
    /\ browserAt = "check" => driver = "none"

FoundKept ==
    /\ browserAt \in Looks => shown # "nothing"
    /\ still /\ browserAt \in {"html", "picture"} => shown \in WebPages
    /\ still /\ browserAt \in {"html", "picture", "address"} =>
          {captured, pictured} \subseteq {"nothing", shown}
    /\ still /\ browserAt = "address" /\ shown = "own" => captured = "nothing" /\ pictured = "nothing"
    /\ (browserAt = "quit" /\ failure = NoFailure) \/ browserAt = "check" =>
         /\ address \in WebPages
         /\ still => {captured, pictured} \subseteq {"nothing", address}

BrowserInv ==
    /\ browserAt \in Places /\ shown \in Shown
    /\ blocked \in Nat
    /\ SlotsUsed /\ BrowserKept /\ FoundKept
    /\ rendered.ends = "result" =>
         /\ browserAt \in {"leave", "done"}
         /\ rendered.address \in WebPages \ {"prohibited"}
         /\ still => OfItsAddress(rendered)
         /\ rendered.warned = (blocked > 0)
         /\ driver = "none"

LEMMA BrowserInitInv == BrowserInit => BrowserInv
BY DEF BrowserInit, BrowserInv, SlotsUsed, BrowserKept, FoundKept, Places, Worker, Looks, Shown, Unrendered

(* An error ends the fetch or, for a while, the attempt.                    *)
LEMMA FetchFailsKeeps ==
  ASSUME BrowserInv, browserAt \in Places \ {"enter", "leave", "done"},
         NEW f, FetchFails(f)
  PROVE  BrowserInv'
<1>1. /\ driver' = "none" /\ browserAt' \in {"sleep", "leave"}
      /\ UNCHANGED <<tries, paced, loads, guard, blocked, shown, still, foundVars>>
      /\ rendered' = rendered \/ rendered' = [ends |-> "error", code |-> f.code]
  BY DEF FetchFails
<1>2. rendered'.ends # "result"
  BY <1>1 DEF BrowserInv, Places
<1> QED
  BY <1>1, <1>2 DEF BrowserInv, SlotsUsed, BrowserKept, FoundKept, Places, Worker, Looks

LEMMA OpensKeeps == ASSUME BrowserInv, GuardOpens PROVE BrowserInv'
BY DEF GuardOpens, workVars, foundVars, BrowserInv, SlotsUsed, BrowserKept, FoundKept, Places, Worker, Looks

LEMMA PacedKeeps == ASSUME BrowserInv, Paced PROVE BrowserInv'
<1>1. CASE FetchFails(Error(504))
  BY <1>1, FetchFailsKeeps DEF Paced, Places, Worker, Looks
<1>2. CASE BrowserGoes("start") /\ paced' = paced + 1 /\ UNCHANGED <<loads, blocked, workVars, foundVars, failure>>
  BY <1>2 DEF Paced, BrowserGoes, workVars, foundVars, BrowserInv, SlotsUsed, BrowserKept, FoundKept, Places, Worker, Looks
<1> QED
  BY <1>1, <1>2 DEF Paced

LEMMA StartsKeeps == ASSUME BrowserInv, DriverStarts PROVE BrowserInv'
<1>1. CASE FetchFails(Error(502))
  BY <1>1, FetchFailsKeeps DEF DriverStarts, Places, Worker, Looks
<1>2. CASE BrowserGoes("load") /\ driver' = "up" /\ UNCHANGED <<paced, loads, blocked, shown, still, foundVars, failure>>
  BY <1>2 DEF DriverStarts, BrowserGoes, foundVars, BrowserInv, SlotsUsed, BrowserKept, FoundKept, Places, Worker, Looks
<1> QED
  BY <1>1, <1>2 DEF DriverStarts

LEMMA LoadsKeeps == ASSUME BrowserInv, PageLoads PROVE BrowserInv'
<1>1. /\ browserAt = "load" /\ browserAt' \in {"frame", "quit"} /\ loads' = loads + 1
      /\ UNCHANGED <<tries, guard, rendered, paced, blocked, driver, still, captured, pictured, address>>
  BY DEF PageLoads, BrowserGoes, AfterLoad, foundVars
<1>2. /\ shown' \in Shown
      /\ browserAt' = "frame" => shown' # "nothing"
      /\ browserAt' = "quit" => failure' # NoFailure
  BY DEF PageLoads, BrowserGoes, AfterLoad, BrowserInv, Shown
<1>3. SlotsUsed' /\ BrowserKept'
  BY <1>1 DEF BrowserInv, SlotsUsed, BrowserKept, Places, Worker, Looks
<1>4. FoundKept'
  BY <1>1, <1>2 DEF FoundKept, Looks
<1> QED
  BY <1>1, <1>2, <1>3, <1>4 DEF BrowserInv, Places, Worker, Looks

(* The browser moves to another page, between two looks.                    *)
LEMMA MovesKeeps == ASSUME BrowserInv, PageMoves PROVE BrowserInv'
<1>1. /\ browserAt \in Looks /\ shown' \in Shown \ {"nothing"} /\ still' = FALSE
      /\ UNCHANGED <<browserAt, tries, paced, loads, guard, blocked, driver, captured, pictured,
                     address, failure, rendered>>
  BY DEF PageMoves, foundVars
<1>2. rendered.ends # "result"
  BY <1>1 DEF BrowserInv, Looks
<1>3. SlotsUsed' /\ BrowserKept'
  BY <1>1 DEF BrowserInv, SlotsUsed, BrowserKept
<1>4. FoundKept'
  BY <1>1 DEF BrowserInv, FoundKept, Looks
<1> QED
  BY <1>1, <1>2, <1>3, <1>4 DEF BrowserInv

(* The looks, one after the other, and one that breaks off.                 *)
LEMMA LooksKeep ==
  ASSUME BrowserInv, FrameLookedAt \/ HtmlCaptured \/ PictureTaken \/ AddressTaken \/ LookBreaks
  PROVE  BrowserInv'
<1>1. /\ browserAt \in Looks /\ browserAt' \in (Looks \cup {"quit"}) \ {"frame"}
      /\ UNCHANGED <<tries, paced, loads, guard, blocked, driver, shown, rendered>>
  BY DEF FrameLookedAt, HtmlCaptured, PictureTaken, AddressTaken, LookBreaks, LooksOn, BrowserGoes,
         AfterLoad, Looks, workVars
<1>2. rendered.ends # "result"
  BY <1>1 DEF BrowserInv, Looks
<1>3. SlotsUsed' /\ BrowserKept'
  <2>1. browserAt' \notin {"enter", "acquire", "start", "load", "check", "done"}
    BY <1>1 DEF Looks
  <2>2. browserAt \in Worker /\ browserAt' \in Worker /\ browserAt \in Places \ {"enter", "done"}
    BY <1>1 DEF Looks, Worker, Places
  <2> QED
    BY <1>1, <2>1, <2>2 DEF BrowserInv, SlotsUsed, BrowserKept, Looks
<1>4. FoundKept'
  <2>1. shown \in Shown \ {"nothing"} /\ shown' = shown
    BY <1>1 DEF BrowserInv, FoundKept
  <2>2. CASE FrameLookedAt
    BY <2>1, <2>2 DEF FrameLookedAt, LooksOn, BrowserGoes, FoundKept, Looks, WebPages
  <2>3. CASE HtmlCaptured
    BY <2>1, <2>3 DEF HtmlCaptured, LooksOn, BrowserGoes, BrowserInv, FoundKept, Looks, WebPages
  <2>4. CASE PictureTaken
    BY <2>1, <2>4 DEF PictureTaken, LooksOn, BrowserGoes, BrowserInv, FoundKept, Looks, WebPages
  <2>5. CASE AddressTaken
    <3>1. /\ browserAt = "address" /\ browserAt' = "quit"
          /\ address' = IF shown \in WebPages THEN shown ELSE "asked"
          /\ UNCHANGED <<still, captured, pictured>>
      BY <2>5 DEF AddressTaken, LooksOn, BrowserGoes, AfterLoad
    <3>2. address' \in WebPages
      BY <3>1 DEF WebPages
    <3>3. still => {captured, pictured} \subseteq {"nothing", address'}
      BY <2>1, <3>1 DEF BrowserInv, FoundKept, Shown, WebPages
    <3> QED
      BY <3>1, <3>2, <3>3 DEF FoundKept, Looks
  <2>6. CASE LookBreaks
    BY <2>6 DEF LookBreaks, BrowserGoes, AfterLoad, FoundKept, Looks
  <2> QED
    BY <2>2, <2>3, <2>4, <2>5, <2>6
<1> QED
  BY <1>1, <1>2, <1>3, <1>4 DEF BrowserInv, Looks, Places, Worker

LEMMA QuitsKeeps == ASSUME BrowserInv, DriverQuits PROVE BrowserInv'
<1>1. browserAt = "quit"
  BY DEF DriverQuits
<1>2. CASE FetchFails(Error(502)) \/ FetchFails(failure)
  BY <1>1, <1>2, FetchFailsKeeps DEF Places, Worker, Looks
<1>3. CASE failure = NoFailure /\ BrowserGoes("check") /\ driver' = "none"
           /\ UNCHANGED <<paced, loads, blocked, shown, still, foundVars, failure>>
  BY <1>1, <1>3 DEF BrowserGoes, foundVars, BrowserInv, SlotsUsed, BrowserKept, FoundKept, Places, Worker, Looks
<1> QED
  BY <1>2, <1>3 DEF DriverQuits

LEMMA CheckedKeeps == ASSUME BrowserInv, FinalUrlChecked PROVE BrowserInv'
<1>1. browserAt = "check"
  BY DEF FinalUrlChecked
<1>2. CASE FetchFails(Error(400))
  BY <1>1, <1>2, FetchFailsKeeps DEF Places, Worker, Looks
<1>3. CASE /\ ~Prohibited /\ browserAt' = "leave"
           /\ rendered' = [ends |-> "result", address |-> address, content |-> captured,
                            picture |-> pictured, warned |-> blocked > 0]
           /\ UNCHANGED <<tries, paced, loads, guard, blocked, workVars, foundVars, failure, overdue>>
  <2>1. /\ rendered'.address \in WebPages \ {"prohibited"} /\ rendered'.warned = (blocked > 0)
        /\ still => OfItsAddress(rendered)'
    BY <1>1, <1>3 DEF Prohibited, BrowserInv, FoundKept, OfItsAddress
  <2>2. still' = still
    BY <1>3 DEF workVars
  <2> QED
    BY <1>1, <1>3, <2>1, <2>2 DEF workVars, foundVars, BrowserInv, SlotsUsed, BrowserKept, FoundKept, Places, Worker, Looks
<1> QED
  BY <1>2, <1>3 DEF FinalUrlChecked

LEMMA OverdueKeeps == ASSUME BrowserInv, BrowserOverdue PROVE BrowserInv'
<1>1. browserAt \in Places \ {"enter", "leave", "done"}
  BY DEF BrowserOverdue, BrowserInv
<1>2. CASE FetchFails(Error(504))
  BY <1>1, <1>2, FetchFailsKeeps
<1>3. CASE /\ driver = "up" /\ driver' = "dying" /\ browserAt' = "leave"
           /\ rendered' = [ends |-> "error", code |-> 504]
           /\ UNCHANGED <<tries, paced, loads, guard, blocked, shown, still, foundVars, overdue>>
  BY <1>1, <1>3 DEF foundVars, BrowserInv, SlotsUsed, BrowserKept, FoundKept, Places, Worker, Looks
<1> QED
  BY <1>2, <1>3, ZenonT(40) DEF BrowserOverdue

(* The next attempt, the deadline, and what goes on beside the fetch.       *)
LEMMA AroundKeeps ==
  ASSUME BrowserInv, SleepEnds \/ DeadlinePasses \/ WorkerKilled \/ GuardCloses \/ GuardBlocks
  PROVE  BrowserInv'
<1>1. CASE SleepEnds
  BY <1>1 DEF SleepEnds, foundVars, BrowserInv, SlotsUsed, BrowserKept, FoundKept, Places, Worker,
     Looks, Shown
<1>2. CASE DeadlinePasses
  BY <1>2 DEF DeadlinePasses, workVars, foundVars, BrowserInv, SlotsUsed, BrowserKept, FoundKept,
     OfItsAddress
<1>3. CASE WorkerKilled
  BY <1>3 DEF WorkerKilled, foundVars, BrowserInv, SlotsUsed, BrowserKept, FoundKept, Places, Worker,
     Looks, OfItsAddress
<1>4. CASE GuardCloses
  BY <1>4 DEF GuardCloses, workVars, foundVars, BrowserInv, SlotsUsed, BrowserKept, FoundKept, Places,
     Worker, Looks, OfItsAddress
<1>5. CASE GuardBlocks
  BY <1>5 DEF GuardBlocks, workVars, foundVars, BrowserInv, SlotsUsed, BrowserKept, FoundKept,
     OfItsAddress
<1> QED
  BY <1>1, <1>2, <1>3, <1>4, <1>5

LEMMA BrowserStepInv == BrowserInv /\ [BrowserNext]_browserVars => BrowserInv'
<1>1. BrowserInv /\ UNCHANGED browserVars => BrowserInv'
  BY DEF browserVars, workVars, foundVars, BrowserInv, SlotsUsed, BrowserKept, FoundKept, OfItsAddress
<1> QED
  BY <1>1, OpensKeeps, PacedKeeps, StartsKeeps, LoadsKeeps, MovesKeeps, LooksKeep, QuitsKeeps,
     CheckedKeeps, OverdueKeeps, AroundKeeps DEF BrowserNext

(* No prohibited address is given as a page's own, and a page that stays    *)
(* once its frame was looked at is returned under its checked address;      *)
(* every browser has its guard and its attempt, every load its slot, and    *)
(* the answer warns of whatever the guard refused in any attempt.           *)
THEOREM BrowserIsSound == BrowserSpec => []BrowserSound
<1>1. BrowserInv => BrowserSound
  BY DEF BrowserInv, SlotsUsed, BrowserKept, BrowserSound, Places, Worker, Looks
<1> QED
  BY BrowserInitInv, BrowserStepInv, <1>1, PTL DEF BrowserSpec

-----------------------------------------------------------------------------
(* Places of a handler without a connection onwards, and without a task.    *)
Unconnected == {"idle", "accepted", "made", "head", "resolve", "proxy", "dial"}
Ended == {"closing", "over"}

EgressTypes ==
    /\ handlerAt \in [Conns -> Handling \cup {"idle", "accepted", "over"}]
    /\ client \in [Conns -> {"none", "open", "closing", "gone"}]
    /\ remote \in [Conns -> {"none", "open", "closed"}]
    /\ pinned \in [Conns -> Addresses \cup {"none"}]
    /\ reached \in [Conns -> Addresses \cup {"none"}]
    /\ tasks \subseteq Conns /\ Cardinality(tasks) <= MaxConnections

(* Of each connection: its handler is a task that counts, what it dials was *)
(* checked, and what it has opened it closes on the way out.                *)
ConnKept(c) ==
    /\ handlerAt[c] \in Handling => c \in tasks
    /\ protection => pinned[c] # "private" /\ reached[c] # "private"
    /\ handlerAt[c] \in Unconnected => remote[c] = "none"
    /\ handlerAt[c] \in Ended =>
         /\ remote[c] # "open"
         /\ client[c] = "open" => c \in unstarted
    /\ c \in unstarted => handlerAt[c] = "over" /\ server # "open" /\ remote[c] = "none"
    /\ c \in cancelled => server # "open"
    /\ server \in {"wait", "closed"} /\ c \notin late => handlerAt[c] \notin Handling

EgressInv == EgressTypes /\ \A c \in Conns : ConnKept(c)

LEMMA EgressInitInv == EgressInit => EgressInv
<1> SUFFICES ASSUME EgressInit PROVE EgressInv
  OBVIOUS
<1>1. Cardinality(tasks) <= MaxConnections
  BY FS_EmptySet, EgressAssumption DEF EgressInit
<1> QED
  BY <1>1 DEF EgressInit, EgressInv, EgressTypes, ConnKept, Handling, Ended, Addresses

(* A step of one connection: nothing of the others changes, but that more   *)
(* of them may be late.                                                     *)
OnlyOf(c) ==
    /\ \A d \in Conns \ {c} :
         /\ handlerAt'[d] = handlerAt[d] /\ client'[d] = client[d] /\ remote'[d] = remote[d]
         /\ pinned'[d] = pinned[d] /\ reached'[d] = reached[d]
         /\ d \in tasks => d \in tasks'
         /\ d \in unstarted' <=> d \in unstarted
    /\ late \subseteq late' /\ cancelled' \subseteq cancelled
    /\ UNCHANGED <<protection, server>>

LEMMA OneConnSteps ==
  ASSUME EgressInv, NEW c \in Conns, OnlyOf(c), EgressTypes', ConnKept(c)'
  PROVE  EgressInv'
<1> SUFFICES ASSUME NEW d \in Conns, d # c PROVE ConnKept(d)'
  BY DEF EgressInv
<1> QED
  BY DEF EgressInv, ConnKept, OnlyOf

(* A handler that goes on to another await.                                 *)
Dials == <<remote, pinned, reached>>
DialTypes ==
    /\ remote \in [Conns -> {"none", "open", "closed"}]
    /\ pinned \in [Conns -> Addresses \cup {"none"}]
    /\ reached \in [Conns -> Addresses \cup {"none"}]
DialsOnlyOf(c) ==
    \A d \in Conns \ {c} : remote'[d] = remote[d] /\ pinned'[d] = pinned[d] /\ reached'[d] = reached[d]

LEMMA AdvanceKeeps ==
  ASSUME EgressInv, NEW c \in Conns, NEW from \in Handling, NEW to \in Handling \ Ended,
         Advance(c, from, to), DialTypes', DialsOnlyOf(c),
         protection => pinned'[c] # "private" /\ reached'[c] # "private",
         to \in Unconnected => remote'[c] = "none"
  PROVE  EgressInv'
<1>1. /\ handlerAt[c] = from /\ handlerAt' = [handlerAt EXCEPT ![c] = to]
      /\ UNCHANGED <<protection, server, tasks, cancelled, client, late, unstarted>>
  BY DEF Advance, guardVars, exitVars, historyVars
<1>2. EgressTypes'
  BY <1>1 DEF EgressInv, EgressTypes, DialTypes
<1>3. ConnKept(c)'
  BY <1>1 DEF EgressInv, EgressTypes, ConnKept, Ended, Handling
<1>4. OnlyOf(c)
  BY <1>1 DEF OnlyOf, EgressInv, EgressTypes, DialsOnlyOf
<1> QED
  BY <1>2, <1>3, <1>4, OneConnSteps

(* The awaits of a handler up to the relay.                                 *)
LEMMA HandlingKeeps ==
  ASSUME EgressInv, NEW c \in Conns,
         \/ Starts(c) \/ HeadRead(c) \/ Resolved(c) \/ ProxyResolved(c) \/ DialsTarget(c)
         \/ DialsProxy(c) \/ Tunnelled(c) \/ Established(c)
  PROVE  EgressInv'
<1>1. DialTypes
  BY DEF EgressInv, EgressTypes, DialTypes
<1>2. /\ protection => pinned[c] # "private" /\ reached[c] # "private"
      /\ handlerAt[c] \in Unconnected => remote[c] = "none"
  BY DEF EgressInv, ConnKept
<1>3. CASE Starts(c) \/ HeadRead(c) \/ ProxyResolved(c)
  <2>1. PICK from \in {"made", "head", "proxy"}, to \in {"head", "resolve", "dial"} :
           Advance(c, from, to) /\ UNCHANGED Dials
    BY <1>3 DEF Starts, HeadRead, ProxyResolved, Dials
  <2>2. from \in Handling /\ to \in Handling \ Ended
    BY DEF Handling, Ended
  <2>3. DialTypes' /\ DialsOnlyOf(c)
    BY <1>1, <2>1 DEF DialTypes, DialsOnlyOf, Dials
  <2>4. remote'[c] = "none"
    BY <1>2, <2>1 DEF Advance, Unconnected, Dials
  <2>5. protection => pinned'[c] # "private" /\ reached'[c] # "private"
    BY <1>2, <2>1 DEF Dials
  <2> QED
    BY <2>1, <2>2, <2>3, <2>4, <2>5, AdvanceKeeps
<1>4. CASE Resolved(c)
  <2>1. PICK found \in Addresses : Allowed(found) /\ pinned' = [pinned EXCEPT ![c] = found]
    BY <1>4 DEF Resolved
  <2>2. PICK to \in {"proxy", "dial"} : Advance(c, "resolve", to)
    BY <1>4 DEF Resolved
  <2>3. UNCHANGED <<remote, reached>> /\ (protection => found # "private")
    BY <1>4, <2>1 DEF Resolved, Allowed
  <2>4. "resolve" \in Handling /\ to \in Handling \ Ended
    BY DEF Handling, Ended
  <2>5. DialTypes' /\ DialsOnlyOf(c)
    BY <1>1, <2>1, <2>3 DEF DialTypes, DialsOnlyOf
  <2>6. remote'[c] = "none"
    BY <1>2, <2>2, <2>3 DEF Advance, Unconnected
  <2>7. protection => pinned'[c] # "private" /\ reached'[c] # "private"
    BY <1>1, <1>2, <2>1, <2>3 DEF DialTypes
  <2> QED
    BY <2>2, <2>4, <2>5, <2>6, <2>7, AdvanceKeeps
<1>5. CASE DialsTarget(c) \/ Tunnelled(c)
  <2>1. reached' = [reached EXCEPT ![c] = pinned[c]] /\ pinned' = pinned
    BY <1>5 DEF DialsTarget, Tunnelled, Dialled
  <2>2. remote' = [remote EXCEPT ![c] = "open"] \/ remote' = remote
    BY <1>5 DEF DialsTarget, Tunnelled
  <2>3. PICK from \in {"dial", "connect"} : Advance(c, from, "answer")
    BY <1>5 DEF DialsTarget, Tunnelled
  <2>4. from \in Handling /\ "answer" \in Handling \ Ended /\ "answer" \notin Unconnected
    BY DEF Handling, Ended, Unconnected
  <2>5. DialTypes' /\ DialsOnlyOf(c)
    BY <1>1, <2>1, <2>2 DEF DialTypes, DialsOnlyOf
  <2>6. protection => pinned'[c] # "private" /\ reached'[c] # "private"
    BY <1>1, <1>2, <2>1 DEF DialTypes
  <2> QED
    BY <2>3, <2>4, <2>5, <2>6, AdvanceKeeps
<1>6. CASE DialsProxy(c) \/ Established(c)
  <2>1. PICK from \in {"dial", "answer"}, to \in {"connect", "relay"} : Advance(c, from, to)
    BY <1>6 DEF DialsProxy, Established
  <2>2. UNCHANGED <<pinned, reached>> /\ (remote' = [remote EXCEPT ![c] = "open"] \/ remote' = remote)
    BY <1>6 DEF DialsProxy, Established
  <2>3. from \in Handling /\ to \in Handling \ Ended /\ to \notin Unconnected
    BY DEF Handling, Ended, Unconnected
  <2>4. DialTypes' /\ DialsOnlyOf(c)
    BY <1>1, <2>2 DEF DialTypes, DialsOnlyOf
  <2> QED
    BY <1>2, <2>1, <2>2, <2>3, <2>4, AdvanceKeeps
<1> QED
  BY <1>3, <1>4, <1>5, <1>6

(* A connection comes, and gets a handler if there is room.                 *)
LEMMA ConnectKeeps ==
  ASSUME EgressInv, NEW c \in Conns, Connects(c)
  PROVE  EgressInv'
<1>1. /\ handlerAt[c] = "idle" /\ handlerAt' = [handlerAt EXCEPT ![c] = "accepted"]
      /\ client' = [client EXCEPT ![c] = "open"]
      /\ UNCHANGED <<protection, server, tasks, cancelled, remote, pinned, reached, late, unstarted>>
  BY DEF Connects, guardVars, exitVars, historyVars
<1>2. EgressTypes' /\ OnlyOf(c)
  BY <1>1 DEF EgressInv, EgressTypes, OnlyOf
<1>3. ConnKept(c)'
  BY <1>1 DEF EgressInv, EgressTypes, ConnKept, Handling, Ended, Unconnected
<1> QED
  BY <1>2, <1>3, OneConnSteps

LEMMA AcceptKeeps ==
  ASSUME EgressInv, NEW c \in Conns, Accept(c)
  PROVE  EgressInv'
<1>1. /\ handlerAt[c] = "accepted"
      /\ UNCHANGED <<protection, server, cancelled, remote, pinned, reached, unstarted>>
  BY DEF Accept, guardVars, exitVars
<1>2. remote[c] = "none" /\ (protection => pinned[c] # "private" /\ reached[c] # "private")
  BY <1>1 DEF EgressInv, ConnKept, Unconnected
<1>3. CASE NoRoom
  <2>1. /\ handlerAt' = [handlerAt EXCEPT ![c] = "over"]
        /\ client' = [client EXCEPT ![c] = "closing"] /\ UNCHANGED <<tasks, late>>
    BY <1>3 DEF Accept
  <2>2. EgressTypes' /\ OnlyOf(c)
    BY <1>1, <2>1 DEF EgressInv, EgressTypes, OnlyOf
  <2>3. ConnKept(c)'
    BY <1>1, <1>2, <2>1 DEF EgressInv, EgressTypes, ConnKept, Handling, Ended, Unconnected
  <2> QED
    BY <2>2, <2>3, OneConnSteps
<1>4. CASE ~NoRoom
  <2>1. /\ handlerAt' = [handlerAt EXCEPT ![c] = "made"] /\ tasks' = tasks \cup {c}
        /\ late' = (IF server = "open" THEN late ELSE late \cup {c}) /\ UNCHANGED client
    BY <1>4 DEF Accept
  <2>2. Cardinality(tasks') <= MaxConnections
    <3>1. IsFiniteSet(tasks) /\ Cardinality(tasks) \in Nat
      BY EgressAssumption, FS_Subset, FS_CardinalityType DEF EgressInv, EgressTypes
    <3>2. Cardinality(tasks \cup {c}) \in {Cardinality(tasks), Cardinality(tasks) + 1}
      BY <3>1, FS_AddElement
    <3>3. Cardinality(tasks) < MaxConnections
      BY <1>4, <3>1, EgressAssumption DEF NoRoom
    <3> QED
      BY <2>1, <3>1, <3>2, <3>3, EgressAssumption
  <2>3. EgressTypes' /\ OnlyOf(c)
    BY <1>1, <2>1, <2>2 DEF EgressInv, EgressTypes, OnlyOf, Handling
  <2>4. ConnKept(c)'
    BY <1>1, <1>2, <2>1 DEF EgressInv, EgressTypes, ConnKept, Handling, Ended, Unconnected
  <2> QED
    BY <2>3, <2>4, OneConnSteps
<1> QED
  BY <1>3, <1>4

(* except and finally of a handler.                                         *)
LEMMA FinallyKeeps ==
  ASSUME EgressInv, NEW c \in Conns, handlerAt[c] \in Handling, Finally(c), cancelled' \subseteq cancelled
  PROVE  EgressInv'
<1>1. /\ handlerAt' = [handlerAt EXCEPT ![c] = "closing"]
      /\ remote' = IF remote[c] # "none" THEN [remote EXCEPT ![c] = "closed"] ELSE remote
      /\ client' = [client EXCEPT ![c] = IF client[c] = "open" THEN "closing" ELSE client[c]]
      /\ UNCHANGED <<protection, server, tasks, pinned, reached, late, unstarted>>
  BY DEF Finally, ClosesRemote, ClosedBoth, guardVars, exitVars, historyVars
<1>2. EgressTypes' /\ OnlyOf(c)
  BY <1>1 DEF EgressInv, EgressTypes, OnlyOf, Handling
<1>3. handlerAt'[c] = "closing" /\ remote'[c] # "open" /\ client'[c] # "open"
  BY <1>1 DEF EgressInv, EgressTypes
<1>4. ConnKept(c)'
  BY <1>1, <1>3 DEF EgressInv, ConnKept, Unconnected, Handling, Ended
<1> QED
  BY <1>2, <1>4, OneConnSteps

(* A handler that ends without another finally: it has run it, or it was    *)
(* cancelled before its first step and has opened nothing.                  *)
LEMMA OverKeeps ==
  ASSUME EgressInv, NEW c \in Conns, handlerAt[c] \in {"made", "closing"},
         handlerAt' = [handlerAt EXCEPT ![c] = "over"], cancelled' \subseteq cancelled,
         UNCHANGED <<protection, server, tasks, client, remote, pinned, reached, late>>,
         \/ handlerAt[c] = "closing" /\ unstarted' = unstarted
         \/ handlerAt[c] = "made" /\ unstarted' = unstarted \cup {c} /\ c \in cancelled
  PROVE  EgressInv'
<1>1. EgressTypes' /\ OnlyOf(c)
  BY DEF EgressInv, EgressTypes, OnlyOf
<1>2. ConnKept(c)'
  BY DEF EgressInv, EgressTypes, ConnKept, Handling, Ended, Unconnected
<1> QED
  BY <1>1, <1>2, OneConnSteps

LEMMA EndsKeeps ==
  ASSUME EgressInv, NEW c \in Conns, HandlerEnds(c) \/ CancelledNow(c) \/ HandlerReturns(c)
  PROVE  EgressInv'
<1>1. CASE HandlerEnds(c) \/ (CancelledNow(c) /\ Finally(c))
  <2>1. handlerAt[c] \in Handling /\ Finally(c) /\ cancelled' \subseteq cancelled
    BY <1>1 DEF HandlerEnds, CancelledNow, Handling
  <2> QED
    BY <2>1, FinallyKeeps
<1>2. CASE CancelledNow(c) /\ ~Finally(c)
  <2>1. /\ handlerAt[c] \in {"made", "closing"} /\ handlerAt' = [handlerAt EXCEPT ![c] = "over"]
        /\ c \in cancelled /\ cancelled' \subseteq cancelled
        /\ unstarted' = IF handlerAt[c] = "made" THEN unstarted \cup {c} ELSE unstarted
        /\ UNCHANGED <<protection, server, tasks, client, remote, pinned, reached, late>>
    BY <1>2 DEF CancelledNow, guardVars, exitVars
  <2> QED
    BY <2>1, OverKeeps
<1>3. CASE HandlerReturns(c)
  BY <1>3, OverKeeps DEF HandlerReturns, guardVars, exitVars, historyVars
<1> QED
  BY <1>1, <1>2, <1>3

(* What is over is no task any more, and a client that is gone owes nothing. *)
LEMMA GoneKeeps ==
  ASSUME EgressInv, NEW c \in Conns, Discarded(c) \/ ClientGoes(c)
  PROVE  EgressInv'
<1>1. CASE Discarded(c)
  <2>1. /\ handlerAt[c] = "over" /\ tasks' = tasks \ {c}
        /\ UNCHANGED <<protection, server, handlerAt, cancelled, client, remote, pinned, reached, late,
                       unstarted>>
    BY <1>1 DEF Discarded, guardVars, exitVars, historyVars
  <2>2. Cardinality(tasks') <= MaxConnections
    <3>1. IsFiniteSet(tasks)
      BY EgressAssumption, FS_Subset DEF EgressInv, EgressTypes
    <3>2. Cardinality(tasks \ {c}) <= Cardinality(tasks)
      BY <3>1, FS_Subset, FS_CardinalityType
    <3>3. Cardinality(tasks) \in Nat /\ Cardinality(tasks \ {c}) \in Nat
      BY <3>1, FS_Subset, FS_CardinalityType
    <3> QED
      BY <2>1, <3>2, <3>3, EgressAssumption DEF EgressInv, EgressTypes
  <2>3. EgressTypes' /\ OnlyOf(c)
    BY <2>1, <2>2 DEF EgressInv, EgressTypes, OnlyOf
  <2>4. ConnKept(c)'
    BY <2>1 DEF EgressInv, ConnKept, Handling
  <2> QED
    BY <2>3, <2>4, OneConnSteps
<1>2. CASE ClientGoes(c)
  <2>1. /\ client' = [client EXCEPT ![c] = "gone"]
        /\ UNCHANGED <<protection, server, handlerAt, tasks, cancelled, remote, pinned, reached, late,
                       unstarted>>
    BY <1>2 DEF ClientGoes, guardVars, exitVars, historyVars
  <2>2. EgressTypes' /\ OnlyOf(c)
    BY <2>1 DEF EgressInv, EgressTypes, OnlyOf
  <2>3. ConnKept(c)'
    BY <2>1 DEF EgressInv, EgressTypes, ConnKept
  <2> QED
    BY <2>2, <2>3, OneConnSteps
<1> QED
  BY <1>1, <1>2

(* __aexit__: after the gathering no handler runs but late ones.            *)
LEMMA ExitKeeps ==
  ASSUME EgressInv, ExitBegins \/ Gathered \/ TwoSeconds \/ ExitReturns
  PROVE  EgressInv'
<1>1. /\ UNCHANGED <<protection, handlerAt, tasks, client, remote, pinned, reached, late, unstarted>>
      /\ server' # "open"
  BY DEF ExitBegins, Gathered, TwoSeconds, ExitReturns, guardVars, historyVars
<1>2. CASE Gathered
  BY <1>1, <1>2 DEF Gathered, Handlers, EgressInv, EgressTypes, ConnKept
<1>3. CASE ~Gathered
  <2>1. server' \in {"wait", "closed"} => server \in {"wait", "closed"}
    BY <1>3 DEF ExitBegins, TwoSeconds, ExitReturns
  <2> QED
    BY <1>1, <2>1 DEF EgressInv, EgressTypes, ConnKept
<1> QED
  BY <1>2, <1>3

LEMMA EgressStepInv == EgressInv /\ [EgressNext]_egressVars => EgressInv'
<1> SUFFICES ASSUME EgressInv, [EgressNext]_egressVars PROVE EgressInv'
  OBVIOUS
<1>1. CASE UNCHANGED egressVars
  BY <1>1 DEF egressVars, guardVars, exitVars, historyVars, EgressInv, EgressTypes, ConnKept
<1>2. ASSUME NEW c \in Conns, Connects(c) \/ HandlerStep(c) \/ ClientGoes(c) PROVE EgressInv'
  BY <1>2, ConnectKeeps, AcceptKeeps, HandlingKeeps, EndsKeeps, GoneKeeps DEF HandlerStep
<1>3. CASE ExitBegins \/ Gathered \/ TwoSeconds \/ ExitReturns
  BY <1>3, ExitKeeps
<1> QED
  BY <1>1, <1>2, <1>3 DEF EgressNext

(* Never more handlers than max_connections, nothing dialled but what was   *)
(* checked, nothing left open by a handler that is over, except the client  *)
(* of one that a shutdown cancelled before its first step, and none of      *)
(* those that ran at shutdown left when the tasks are gathered.             *)
THEOREM EgressIsSound == EgressSpec => []EgressSound
<1>1. ASSUME EgressInv PROVE EgressSound
  <2>1. Handlers \subseteq tasks
    BY <1>1 DEF Handlers, EgressInv, ConnKept
  <2>2. Cardinality(Handlers) <= MaxConnections
    <3>1. IsFiniteSet(tasks)
      BY <1>1, EgressAssumption, FS_Subset DEF EgressInv, EgressTypes
    <3>2. Cardinality(Handlers) <= Cardinality(tasks)
      BY <2>1, <3>1, FS_Subset
    <3>3. Cardinality(Handlers) \in Nat /\ Cardinality(tasks) \in Nat
      BY <2>1, <3>1, FS_Subset, FS_CardinalityType
    <3> QED
      BY <1>1, <3>2, <3>3, EgressAssumption DEF EgressInv, EgressTypes
  <2> QED
    BY <1>1, <2>2 DEF EgressSound, EgressInv, ConnKept, Ended
<1> QED
  BY EgressInitInv, EgressStepInv, <1>1, PTL DEF EgressSpec
-----------------------------------------------------------------------------
(* The waits for a rendered page.                                           *)

(* What the log still has to tell of a request since it was last read:      *)
(* nothing, that it started, that it ended, or both.                        *)
Told(r) == r \in truth.running
LogKnown(r) ==
    /\ net[r] = "idle" => ~Told(r) /\ <<r, "starts">> \notin log /\ <<r, "ends">> \notin log
    /\ net[r] = "running" => (Told(r) \/ <<r, "starts">> \in log) /\ <<r, "ends">> \notin log
    /\ net[r] = "over" =>
         IF <<r, "ends">> \in log THEN Told(r) \/ <<r, "starts">> \in log
         ELSE ~Told(r) /\ <<r, "starts">> \notin log

(* What the records read make of the requests known to run.                 *)
EntriesKnown(r) ==
    /\ Told(r) <=> (r \in running \/ <<r, "starts">> \in entries) /\ <<r, "ends">> \notin entries
    /\ <<r, "ends">> \in entries => r \in running \/ <<r, "starts">> \in entries

(* The loop's note of the last change is not older than what it notes.      *)
Noted(t) == t = 0 \/ (lastChange # Never /\ t <= lastChange)

RequestsKnown ==
    /\ \A r \in PageRequests : LogKnown(r) /\ EntriesKnown(r)
    /\ entries = {} => Noted(truth.since)
    /\ entries = {} /\ log = {} => Noted(netSince)
    /\ waitAt \in WaitPlaces \ {"begin", "observe"} => entries = {}

(* The text last taken against the page's and the signature last noted.     *)
TextKnown ==
    /\ snapshot.text <= text
    /\ snapshot.text = text => snapSince = textSince
    /\ previous # Unseen => previous <= snapshot.text
    /\ previous = snapshot.text => snapSince <= changed

InOrder ==
    /\ started <= now /\ changed <= now /\ textSince <= now /\ snapSince <= now /\ netSince <= now
    /\ truth.since <= now /\ now <= PageDeadline
    /\ explicitSince # Never => started + minimum <= explicitSince
    /\ waitAt \in {"challenge", "events", "begin"} => explicitSince = Never

ReadinessInv ==
    /\ ReadinessTypeOK /\ RequestsKnown /\ TextKnown /\ InOrder
    /\ SettledIsTrue

(* The times of the wait and the texts, as numbers.                         *)
LEMMA WaitTimes ==
  ASSUME ReadinessInv
  PROVE  /\ now \in Nat /\ started \in Nat /\ changed \in Nat /\ textSince \in Nat
         /\ snapSince \in Nat /\ netSince \in Nat /\ lastChange \in Nat /\ explicitSince \in Nat
         /\ started <= now /\ changed <= now /\ textSince <= now /\ snapSince <= now
         /\ netSince <= now /\ truth.since <= now /\ now <= PageDeadline /\ explicitSince <= Never
         /\ lastChange <= Never
         /\ minimum \in Nat /\ truth \in Truth /\ truth.since \in Nat /\ snapshot.text \in Nat
         /\ text \in Nat /\ text <= MaxText /\ snapshot.text <= MaxText /\ previous \in Nat
         /\ MaxText \in Nat /\ Unseen = MaxText + 1
         /\ PageDeadline \in Nat /\ Never = PageDeadline + 1
         /\ StableFor \in Nat /\ RequestWait \in Nat /\ AutoWaitLimit \in Nat
<1>1. /\ {now, started, lastChange, changed, explicitSince, textSince, snapSince, netSince} \subseteq Times
      /\ minimum \in MinimumWaits /\ truth \in Truth /\ text \in 0..MaxText /\ previous \in 0..Unseen
      /\ snapshot \in [text : 0..MaxText, ready : BOOLEAN]
  BY DEF ReadinessInv, ReadinessTypeOK
<1>2. Times = 0..Never
  BY DEF Times, Never
<1>3. truth.since \in Nat /\ snapshot.text \in 0..MaxText
  BY <1>1 DEF Truth
<1>4. /\ started <= now /\ changed <= now /\ textSince <= now /\ snapSince <= now /\ netSince <= now
      /\ truth.since <= now /\ now <= PageDeadline
  BY DEF ReadinessInv, InOrder
<1> QED
  BY <1>1, <1>2, <1>3, <1>4, ReadinessAssumption DEF Never, Unseen

LEMMA ReadinessInitInv == ReadinessInit => ReadinessInv
<1> SUFFICES ASSUME ReadinessInit PROVE ReadinessInv
  OBVIOUS
<1>1. /\ PageDeadline \in Nat /\ MaxText \in Nat /\ Never \in Times /\ 0 \in Times
      /\ Unseen \in 0..Unseen /\ Unseen # 0
  BY ReadinessAssumption DEF Never, Times, Unseen
<1>2. ReadinessTypeOK
  <2>1. net \in [PageRequests -> {"idle", "running", "over"}]
    BY DEF ReadinessInit
  <2>2. log \subseteq Records /\ entries \subseteq Records
    BY DEF ReadinessInit, Running, Records
  <2>3. {now, started, lastChange, changed, explicitSince, textSince, snapSince, netSince} \subseteq Times
    BY <1>1 DEF ReadinessInit
  <2>4. truth \in Truth /\ running \subseteq PageRequests /\ previous \in 0..Unseen /\ text \in 0..MaxText
    BY <1>1 DEF ReadinessInit, Truth
  <2>5. snapshot \in [text : 0..MaxText, ready : BOOLEAN] /\ met \subseteq wanted
    BY <1>1 DEF ReadinessInit
  <2>6. /\ autoWait \in BOOLEAN /\ minimum \in MinimumWaits /\ wanted \subseteq Selectors
        /\ challenged \in BOOLEAN /\ documentReady \in BOOLEAN /\ displayed \subseteq Selectors
    BY DEF ReadinessInit
  <2>7. waitAt \in WaitPlaces \cup {"settled", "unsettled", "failed"}
    BY DEF ReadinessInit, WaitPlaces, DriverPlaces
  <2> QED
    BY <2>1, <2>2, <2>3, <2>4, <2>5, <2>6, <2>7 DEF ReadinessTypeOK
<1>3. RequestsKnown
  BY DEF ReadinessInit, RequestsKnown, LogKnown, EntriesKnown, Noted, Told, Running
<1>4. TextKnown /\ InOrder
  BY <1>1 DEF ReadinessInit, TextKnown, InOrder
<1>5. SettledIsTrue
  BY DEF ReadinessInit, SettledIsTrue
<1> QED
  BY <1>2, <1>3, <1>4, <1>5 DEF ReadinessInv

(* Reading the log: the records tell all that happened since the last time. *)
LEMMA LogTakenKeeps ==
  ASSUME ReadinessInv, LogTaken, waitAt \in {"events", "read"}, waitAt' \in {"begin", "observe"}
  PROVE  RequestsKnown' /\ truth' \in Truth /\ truth'.since = netSince /\ entries' \subseteq Records
<1>1. /\ entries' = log /\ log' = {} /\ truth' = [running |-> Running, since |-> netSince]
      /\ UNCHANGED <<net, netSince, running, lastChange>>
  BY DEF LogTaken
<1>2. /\ net \in [PageRequests -> {"idle", "running", "over"}] /\ log \subseteq Records
      /\ entries = {} /\ netSince \in Nat
  BY WaitTimes DEF ReadinessInv, ReadinessTypeOK, RequestsKnown, WaitPlaces, DriverPlaces
<1>3. truth' \in Truth /\ truth'.since = netSince
  BY <1>1, <1>2 DEF Truth, Running
<1>4. ASSUME NEW r \in PageRequests PROVE LogKnown(r)' /\ EntriesKnown(r)'
  <2>1. LogKnown(r) /\ EntriesKnown(r)
    BY DEF ReadinessInv, RequestsKnown
  <2>2. r \in truth'.running <=> net[r] = "running"
    BY <1>1 DEF Running
  <2>3. r \in truth.running <=> r \in running
    BY <1>2, <2>1 DEF EntriesKnown, Told
  <2>4. net[r] \in {"idle", "running", "over"}
    BY <1>2
  <2>5. LogKnown(r)'
    BY <1>1, <2>2 DEF LogKnown, Told
  <2>6. EntriesKnown(r)'
    BY <1>1, <2>1, <2>2, <2>3, <2>4 DEF LogKnown, EntriesKnown, Told
  <2> QED
    BY <2>5, <2>6
<1>5. entries' = {} => Noted(truth.since)' /\ Noted(netSince)'
  BY <1>1, <1>2, <1>3 DEF ReadinessInv, RequestsKnown, Noted
<1>6. waitAt' \notin WaitPlaces \ {"begin", "observe"}
  OBVIOUS
<1> QED
  BY <1>1, <1>2, <1>3, <1>4, <1>5, <1>6 DEF RequestsKnown

(* Observing the records: the notes of the loop are those of the log.       *)
LEMMA ObserveKeeps ==
  ASSUME ReadinessInv, Observe(entries), UNCHANGED <<now, netVars>>
  PROVE  RequestsKnown' /\ running' \subseteq PageRequests /\ lastChange' \in Times
<1> DEFINE starts == {r \in PageRequests : <<r, "starts">> \in entries}
           ends == {r \in PageRequests : <<r, "ends">> \in entries} \cap (running \cup starts)
<1>1. /\ running' = (running \cup starts) \ ends
      /\ lastChange' = IF starts \cup ends # {} THEN now ELSE lastChange
      /\ entries' = {} /\ truth' = truth /\ UNCHANGED <<now, net, log, netSince>>
  BY DEF Observe, netVars
<1>2. /\ running \subseteq PageRequests /\ entries \subseteq Records
      /\ lastChange \in Times /\ now \in Times
  BY DEF ReadinessInv, ReadinessTypeOK
<1>3. running' \subseteq PageRequests /\ lastChange' \in Times
  BY <1>1, <1>2
<1>4. ASSUME NEW r \in PageRequests PROVE LogKnown(r)' /\ EntriesKnown(r)'
  <2>1. LogKnown(r) /\ EntriesKnown(r)
    BY DEF ReadinessInv, RequestsKnown
  <2>2. /\ r \in starts <=> <<r, "starts">> \in entries
        /\ r \in ends <=> (<<r, "ends">> \in entries /\ (r \in running \/ r \in starts))
    OBVIOUS
  <2>3. r \in running' <=> (r \in running \/ r \in starts) /\ r \notin ends
    BY <1>1
  <2>4. EntriesKnown(r)'
    BY <1>1, <2>1, <2>2, <2>3 DEF EntriesKnown, Told
  <2>5. LogKnown(r)'
    BY <1>1, <2>1 DEF LogKnown, Told
  <2> QED
    BY <2>4, <2>5
<1>5. Noted(truth.since)' /\ (log' = {} => Noted(netSince)')
  <2>1. CASE entries = {}
    <3>1. starts = {} /\ ends = {}
      BY <2>1
    <3>2. lastChange' = lastChange
      BY <1>1, <3>1
    <3> QED
      BY <1>1, <2>1, <3>2 DEF ReadinessInv, RequestsKnown, Noted
  <2>2. CASE entries # {}
    <3>1. PICK r \in PageRequests : <<r, "starts">> \in entries \/ <<r, "ends">> \in entries
      <4>1. PICK r \in PageRequests, what \in {"starts", "ends"} : <<r, what>> \in entries
        BY <1>2, <2>2 DEF Records
      <4> QED
        BY <4>1
    <3>2. r \in starts \/ r \in ends
      BY <3>1 DEF ReadinessInv, RequestsKnown, EntriesKnown
    <3>3. lastChange' = now
      BY <1>1, <3>2
    <3> QED
      BY <1>1, <3>3, WaitTimes, SMTT(30) DEF Noted
  <2> QED
    BY <2>1, <2>2
<1> QED
  BY <1>1, <1>3, <1>4, <1>5 DEF RequestsKnown

(* A step that leaves the requests alone, and what is known of them.        *)
LEMMA RequestsStay ==
  ASSUME RequestsKnown, UNCHANGED <<net, log, netSince, entries, running, lastChange, truth>>,
         waitAt' \in WaitPlaces \ {"begin", "observe"} => waitAt \in WaitPlaces \ {"begin", "observe"}
  PROVE  RequestsKnown'
BY DEF RequestsKnown, LogKnown, EntriesKnown, Told, Noted

(* The page shows another text or turns, and the clock ticks.               *)
LEMMA PageGoesOn ==
  ASSUME ReadinessInv, TextChanges \/ PageTurns \/ Tick
  PROVE  ReadinessInv'
<1>1. /\ UNCHANGED <<autoWait, minimum, wanted, waitAt, netVars, seenVars, lookVars, noteVars>>
      /\ waitAt \in WaitPlaces
  BY DEF TextChanges, PageTurns, Tick, optionVars
<1>2. UNCHANGED <<net, log, netSince, entries, started, running, lastChange, truth, snapshot, met,
                  snapSince, previous, changed, explicitSince>>
  BY <1>1 DEF netVars, seenVars, lookVars, noteVars
<1>3. /\ text' \in 0..MaxText /\ now' \in Nat /\ now <= now' /\ now' <= PageDeadline
      /\ textSince' \in Nat /\ textSince' <= now'
      /\ (text' = text /\ textSince' = textSince) \/ text' > text
  <2>1. CASE TextChanges
    BY <2>1, WaitTimes DEF TextChanges
  <2>2. CASE PageTurns
    BY <2>2, WaitTimes DEF PageTurns
  <2>3. CASE Tick
    BY <2>3, WaitTimes DEF Tick, shownVars
  <2> QED
    BY <2>1, <2>2, <2>3
<1>4. challenged' \in BOOLEAN /\ documentReady' \in BOOLEAN /\ displayed' \subseteq Selectors
  <2>1. /\ challenged \in BOOLEAN /\ documentReady \in BOOLEAN /\ displayed \subseteq Selectors
        /\ wanted \subseteq Selectors
    BY DEF ReadinessInv, ReadinessTypeOK
  <2>2. CASE TextChanges
    BY <2>1, <2>2 DEF TextChanges
  <2>3. CASE Tick
    BY <2>1, <2>3 DEF Tick, shownVars
  <2>4. CASE PageTurns
    <3>1. \/ documentReady' = ~documentReady /\ UNCHANGED <<displayed, challenged>>
          \/ /\ \E s \in wanted : displayed' \in {displayed \cup {s}, displayed \ {s}}
             /\ UNCHANGED <<documentReady, challenged>>
          \/ challenged /\ challenged' = FALSE /\ UNCHANGED <<documentReady, displayed>>
      BY <2>4 DEF PageTurns
    <3>2. CASE documentReady' = ~documentReady /\ UNCHANGED <<displayed, challenged>>
      BY <2>1, <3>2, Zenon
    <3>3. CASE /\ \E s \in wanted : displayed' \in {displayed \cup {s}, displayed \ {s}}
               /\ UNCHANGED <<documentReady, challenged>>
      <4>1. displayed' \subseteq Selectors
        BY <2>1, <3>3
      <4> QED
        BY <2>1, <3>3, <4>1, Zenon
    <3>4. CASE challenged /\ challenged' = FALSE /\ UNCHANGED <<documentReady, displayed>>
      BY <2>1, <3>4, Zenon
    <3> QED
      BY <3>1, <3>2, <3>3, <3>4
  <2> QED
    BY <2>2, <2>3, <2>4
<1>5. ReadinessTypeOK'
  <2>1. {now, started, lastChange, changed, explicitSince, textSince, snapSince, netSince}' \subseteq Times
    BY <1>2, <1>3, WaitTimes DEF Times, Never
  <2> QED
    BY <1>1, <1>2, <1>3, <1>4, <2>1 DEF ReadinessInv, ReadinessTypeOK
<1>6. RequestsKnown'
  BY <1>1, <1>2, RequestsStay DEF ReadinessInv
<1>7. TextKnown'
  BY <1>2, <1>3, WaitTimes DEF ReadinessInv, TextKnown
<1>8. InOrder'
  BY <1>1, <1>2, <1>3, WaitTimes DEF ReadinessInv, InOrder
<1>9. SettledIsTrue'
  BY <1>1 DEF SettledIsTrue, WaitPlaces, DriverPlaces
<1> QED
  BY <1>5, <1>6, <1>7, <1>8, <1>9 DEF ReadinessInv

LEMMA RequestMovesKeeps ==
  ASSUME ReadinessInv, NEW r \in PageRequests, RequestMoves(r)
  PROVE  ReadinessInv'
<1>1. /\ UNCHANGED <<autoWait, minimum, wanted, now, waitAt, challenged, text, documentReady,
                     displayed, textSince, entries, started, running, lastChange, truth,
                     snapshot, met, snapSince, previous, changed, explicitSince>>
      /\ netSince' = now /\ waitAt \in WaitPlaces
  BY DEF RequestMoves, optionVars, shownVars, seenVars, lookVars, noteVars
<1>2. PICK what \in {"starts", "ends"} :
        /\ log' = log \cup {<<r, what>>}
        /\ \/ what = "starts" /\ net[r] = "idle" /\ net' = [net EXCEPT ![r] = "running"]
           \/ what = "ends" /\ net[r] = "running" /\ net' = [net EXCEPT ![r] = "over"]
  BY DEF RequestMoves
<1>3. net \in [PageRequests -> {"idle", "running", "over"}] /\ log \subseteq Records
  BY DEF ReadinessInv, ReadinessTypeOK
<1>4. /\ net' \in [PageRequests -> {"idle", "running", "over"}]
      /\ log' \subseteq Records /\ log' # {}
  <2>1. net' \in [PageRequests -> {"idle", "running", "over"}]
    BY <1>2, <1>3
  <2>2. <<r, what>> \in Records
    BY DEF Records
  <2> QED
    BY <1>2, <1>3, <2>1, <2>2
<1>5. ReadinessTypeOK'
  BY <1>1, <1>4 DEF ReadinessInv, ReadinessTypeOK
<1>6. ASSUME NEW x \in PageRequests PROVE LogKnown(x)' /\ EntriesKnown(x)'
  <2>1. LogKnown(x) /\ EntriesKnown(x)
    BY DEF ReadinessInv, RequestsKnown
  <2>2. EntriesKnown(x)'
    BY <1>1, <2>1 DEF EntriesKnown, Told
  <2>3. LogKnown(x)'
    <3>1. CASE x = r
      BY <1>1, <1>2, <1>3, <2>1, <3>1 DEF LogKnown, Told
    <3>2. CASE x # r
      <4>1. /\ net'[x] = net[x]
            /\ <<x, "starts">> \in log' <=> <<x, "starts">> \in log
            /\ <<x, "ends">> \in log' <=> <<x, "ends">> \in log
        BY <1>2, <1>3, <3>2
      <4> QED
        BY <1>1, <2>1, <4>1 DEF LogKnown, Told
    <3> QED
      BY <3>1, <3>2
  <2> QED
    BY <2>2, <2>3
<1>7. RequestsKnown'
  BY <1>1, <1>4, <1>6 DEF ReadinessInv, RequestsKnown, Noted
<1>8. TextKnown' /\ InOrder'
  BY <1>1, WaitTimes DEF ReadinessInv, TextKnown, InOrder
<1>9. SettledIsTrue'
  BY <1>1 DEF SettledIsTrue, WaitPlaces, DriverPlaces
<1> QED
  BY <1>5, <1>7, <1>8, <1>9 DEF ReadinessInv

(* A step from one place to the next, a deadline or a driver that fails.    *)
LEMMA WaitGoesOn ==
  ASSUME ReadinessInv, ChallengeEnds \/ RoundBegins \/ LookFails \/ WaitOverdue
  PROVE  ReadinessInv'
<1>1. UNCHANGED <<optionVars, now, shownVars, netVars, seenVars, lookVars, noteVars>>
  BY DEF ChallengeEnds, RoundBegins, LookFails, WaitOverdue
<1>2. \/ waitAt = "challenge" /\ waitAt' = "events"
      \/ waitAt = "round" /\ waitAt' = "read"
      \/ waitAt' = "failed"
  BY DEF ChallengeEnds, RoundBegins, LookFails, WaitOverdue
<1>3. waitAt' \in WaitPlaces \cup {"failed"}
  BY <1>2 DEF WaitPlaces, DriverPlaces
<1>4. ReadinessTypeOK'
  BY <1>1, <1>3 DEF ReadinessInv, ReadinessTypeOK, optionVars, shownVars, netVars, seenVars, lookVars,
     noteVars
<1>5. RequestsKnown'
  BY <1>1, <1>2, RequestsStay DEF ReadinessInv, netVars, seenVars, WaitPlaces, DriverPlaces
<1>6. TextKnown' /\ InOrder'
  BY <1>1, <1>2 DEF ReadinessInv, TextKnown, InOrder, optionVars, shownVars, netVars, seenVars, lookVars,
     noteVars
<1>7. SettledIsTrue'
  BY <1>2 DEF SettledIsTrue
<1> QED
  BY <1>4, <1>5, <1>6, <1>7 DEF ReadinessInv

LEMMA LogReadKeeps == ASSUME ReadinessInv, EventsRead \/ LogRead PROVE ReadinessInv'
<1>1. /\ UNCHANGED <<autoWait, minimum, wanted, now, challenged, text, documentReady, displayed,
                     textSince, started, snapshot, met, snapSince, previous, changed, explicitSince>>
      /\ LogTaken
      /\ \/ waitAt = "events" /\ waitAt' = "begin"
         \/ waitAt = "read" /\ waitAt' = "observe"
  BY DEF EventsRead, LogRead, optionVars, shownVars, lookVars, noteVars
<1>2. UNCHANGED <<net, netSince, running, lastChange>> /\ log' = {}
  BY <1>1 DEF LogTaken
<1>3. RequestsKnown' /\ truth' \in Truth /\ truth'.since = netSince /\ entries' \subseteq Records
  BY <1>1, LogTakenKeeps
<1>4. ReadinessTypeOK'
  BY <1>1, <1>2, <1>3 DEF ReadinessInv, ReadinessTypeOK, WaitPlaces
<1>5. TextKnown' /\ InOrder'
  BY <1>1, <1>2, <1>3 DEF ReadinessInv, TextKnown, InOrder
<1>6. SettledIsTrue'
  BY <1>1 DEF SettledIsTrue
<1> QED
  BY <1>3, <1>4, <1>5, <1>6 DEF ReadinessInv

LEMMA ObservedKeeps == ASSUME ReadinessInv, Observed PROVE ReadinessInv'
<1>1. /\ UNCHANGED <<autoWait, minimum, wanted, now, challenged, text, documentReady, displayed,
                     textSince, netVars, started, snapshot, met, snapSince, previous, changed,
                     explicitSince>>
      /\ Observe(entries) /\ waitAt' = "look"
  BY DEF Observed, optionVars, shownVars, lookVars, noteVars
<1>2. UNCHANGED <<net, log, netSince, truth>> /\ entries' = {}
  BY <1>1 DEF Observe, netVars
<1>3. RequestsKnown' /\ running' \subseteq PageRequests /\ lastChange' \in Times
  BY <1>1, ObserveKeeps
<1>4. ReadinessTypeOK'
  BY <1>1, <1>2, <1>3 DEF ReadinessInv, ReadinessTypeOK, WaitPlaces, DriverPlaces
<1>5. TextKnown' /\ InOrder'
  BY <1>1, <1>2 DEF ReadinessInv, TextKnown, InOrder
<1>6. SettledIsTrue'
  BY <1>1 DEF SettledIsTrue
<1> QED
  BY <1>3, <1>4, <1>5, <1>6 DEF ReadinessInv

(* wait_for_content begins: at once over, or with the records handed to it. *)
LEMMA WaitBeginsKeeps == ASSUME ReadinessInv, WaitBegins PROVE ReadinessInv'
<1>1. /\ UNCHANGED <<autoWait, minimum, wanted, now, challenged, text, documentReady, displayed,
                     textSince, netVars, snapshot, met, snapSince, previous, explicitSince>>
      /\ waitAt = "begin"
  BY DEF WaitBegins, optionVars, shownVars, lookVars
<1>2. CASE NothingToWaitFor /\ waitAt' = "settled" /\ UNCHANGED <<seenVars, changed>>
  <2>1. UNCHANGED <<entries, started, running, lastChange, truth, changed, net, log, netSince>>
    BY <1>1, <1>2 DEF seenVars, netVars
  <2>2. ReadinessTypeOK'
    BY <1>1, <1>2, <2>1 DEF ReadinessInv, ReadinessTypeOK
  <2>3. RequestsKnown'
    BY <1>2, <2>1, RequestsStay DEF ReadinessInv, WaitPlaces, DriverPlaces
  <2>4. TextKnown' /\ InOrder'
    BY <1>1, <1>2, <2>1 DEF ReadinessInv, TextKnown, InOrder
  <2>5. SettledIsTrue'
    BY <1>1, <1>2 DEF SettledIsTrue, NothingToWaitFor
  <2> QED
    BY <2>2, <2>3, <2>4, <2>5 DEF ReadinessInv
<1>3. CASE /\ waitAt' = "round" /\ started' = now /\ changed' = now /\ Observe(EventsSoFar)
  <2>1. Observe(entries)
    BY <1>3 DEF EventsSoFar
  <2>2. UNCHANGED <<net, log, netSince, truth>> /\ entries' = {}
    BY <1>1, <2>1 DEF Observe, netVars
  <2>3. RequestsKnown' /\ running' \subseteq PageRequests /\ lastChange' \in Times
    BY <1>1, <2>1, ObserveKeeps
  <2>4. ReadinessTypeOK'
    BY <1>1, <1>3, <2>2, <2>3 DEF ReadinessInv, ReadinessTypeOK, WaitPlaces
  <2>5. TextKnown' /\ InOrder'
    BY <1>1, <1>3, <2>2, WaitTimes DEF ReadinessInv, TextKnown, InOrder
  <2>6. SettledIsTrue'
    BY <1>3 DEF SettledIsTrue
  <2> QED
    BY <2>3, <2>4, <2>5, <2>6 DEF ReadinessInv
<1> QED
  BY <1>2, <1>3 DEF WaitBegins

(* The looks at the text and at the selectors.                              *)
LEMMA SnapshotKeeps == ASSUME ReadinessInv, SnapshotTaken PROVE ReadinessInv'
<1>1. /\ UNCHANGED <<autoWait, minimum, wanted, now, challenged, text, documentReady, displayed,
                     textSince, net, log, netSince, entries, started, running, lastChange, truth,
                     previous, changed, explicitSince>>
      /\ waitAt = "look" /\ waitAt' \in {"decide", "select"}
      /\ snapshot' = [text |-> text, ready |-> documentReady] /\ snapSince' = textSince /\ met' = {}
  BY DEF SnapshotTaken, optionVars, shownVars, netVars, seenVars, noteVars
<1>2. ReadinessTypeOK'
  BY <1>1 DEF ReadinessInv, ReadinessTypeOK, WaitPlaces, DriverPlaces
<1>3. RequestsKnown'
  BY <1>1, RequestsStay DEF ReadinessInv, WaitPlaces, DriverPlaces
<1>4. TextKnown'
  <2>1. previous # Unseen => previous <= text
    BY WaitTimes DEF ReadinessInv, TextKnown
  <2>2. previous = text => textSince <= changed
    BY WaitTimes DEF ReadinessInv, TextKnown
  <2>3. snapshot'.text = text
    BY <1>1
  <2> QED
    BY <1>1, <2>1, <2>2, <2>3, WaitTimes DEF ReadinessInv, TextKnown
<1>5. InOrder'
  BY <1>1 DEF ReadinessInv, InOrder
<1>6. SettledIsTrue'
  BY <1>1 DEF SettledIsTrue
<1> QED
  BY <1>2, <1>3, <1>4, <1>5, <1>6 DEF ReadinessInv

LEMMA SelectorKeeps ==
  ASSUME ReadinessInv, NEW s \in Selectors, SelectorLookedAt(s)
  PROVE  ReadinessInv'
<1>1. /\ UNCHANGED <<autoWait, minimum, wanted, now, challenged, text, documentReady, displayed,
                     textSince, net, log, netSince, entries, started, running, lastChange, truth,
                     snapshot, snapSince, previous, changed, explicitSince>>
      /\ waitAt = "select" /\ waitAt' \in {"decide", "select"} /\ s \in wanted
      /\ met' \in {met, met \cup {s}}
  BY DEF SelectorLookedAt, optionVars, shownVars, netVars, seenVars, noteVars
<1>2. ReadinessTypeOK'
  BY <1>1 DEF ReadinessInv, ReadinessTypeOK, WaitPlaces, DriverPlaces
<1>3. RequestsKnown'
  BY <1>1, RequestsStay DEF ReadinessInv, WaitPlaces, DriverPlaces
<1>4. TextKnown' /\ InOrder'
  BY <1>1 DEF ReadinessInv, TextKnown, InOrder
<1>5. SettledIsTrue'
  BY <1>1 DEF SettledIsTrue
<1> QED
  BY <1>2, <1>3, <1>4, <1>5 DEF ReadinessInv

(* The decision: what the notes say of the looks is true.                   *)
LEMMA DecideKeeps == ASSUME ReadinessInv, Decide PROVE ReadinessInv'
<1>1. /\ UNCHANGED <<autoWait, minimum, wanted, now, challenged, text, documentReady, displayed,
                     textSince, net, log, netSince, entries, started, running, lastChange, truth,
                     snapshot, met, snapSince>>
      /\ waitAt = "decide" /\ previous' = snapshot.text /\ changed' = Changed
      /\ waitAt' \in {"round", "settled", "unsettled"}
  BY DEF Decide, optionVars, shownVars, netVars, seenVars, lookVars
<1>2. Changed \in Nat /\ Changed <= now /\ snapSince <= Changed
  BY WaitTimes DEF Changed, ReadinessInv, InOrder, TextKnown
<1>3. explicitSince' = Never \/ (MinimumOver /\ explicitSince' = Since)
  BY DEF Decide
<1>4. Since \in Times /\ Since \in Nat
  BY WaitTimes DEF Since, ReadinessInv, InOrder, ReadinessTypeOK
<1>5. MinimumOver => started + minimum <= Since
  BY WaitTimes DEF MinimumOver, Since, ReadinessInv, InOrder
<1>6. ReadinessTypeOK'
  <2>1. changed' \in Times /\ explicitSince' \in Times /\ previous' \in 0..Unseen
    BY <1>1, <1>2, <1>3, <1>4, WaitTimes DEF Times
  <2> QED
    BY <1>1, <2>1 DEF ReadinessInv, ReadinessTypeOK, WaitPlaces
<1>7. RequestsKnown'
  BY <1>1, RequestsStay DEF ReadinessInv, WaitPlaces, DriverPlaces
<1>8. TextKnown'
  BY <1>1, <1>2, WaitTimes DEF ReadinessInv, TextKnown
<1>9. InOrder'
  BY <1>1, <1>2, <1>3, <1>5 DEF ReadinessInv, InOrder
<1>10. SettledIsTrue'
  <2>1. CASE waitAt' = "settled"
    <3>1. Selected /\ MinimumOver /\ (ContentReady(Changed) \/ ~autoWait)
      BY <1>1, <2>1 DEF Decide
    <3>2. ASSUME autoWait
          PROVE  /\ snapshot.text > 0 /\ snapshot.ready /\ now - snapSince >= StableFor
                 /\ \/ now - started >= RequestWait
                    \/ truth.running = {} /\ now - truth.since >= StableFor
      <4>1. /\ snapshot.text > 0 /\ snapshot.ready /\ now - Changed >= StableFor
            /\ Quiet \/ now - started >= RequestWait
        BY <3>1, <3>2 DEF ContentReady
      <4>2. now - snapSince >= StableFor /\ now >= StableFor
        BY <1>2, <4>1, WaitTimes
      <4>3. Quiet => truth.running = {} /\ now - truth.since >= StableFor
        <5>1. entries = {} /\ Noted(truth.since)
          BY <1>1 DEF ReadinessInv, RequestsKnown, WaitPlaces
        <5>2. \A r \in PageRequests : r \in truth.running <=> r \in running
          BY <5>1 DEF ReadinessInv, RequestsKnown, EntriesKnown, Told
        <5>3. truth.running \subseteq PageRequests
          BY WaitTimes DEF Truth
        <5>4. running = {} => truth.running = {}
          BY <5>2, <5>3
        <5>5. Quiet => now - truth.since >= StableFor
          BY <4>2, <5>1, WaitTimes DEF Quiet, Noted
        <5> QED
          BY <5>4, <5>5 DEF Quiet
      <4> QED
        BY <4>1, <4>2, <4>3
    <3> QED
      BY <1>1, <2>1, <3>1, <3>2 DEF SettledIsTrue, Selected, MinimumOver
  <2>2. CASE waitAt' = "unsettled"
    <3>1. Selected /\ MinimumOver /\ autoWait /\ GivesUp
      BY <1>1, <2>2 DEF Decide
    <3>2. /\ now \in Nat /\ started \in Nat /\ minimum \in Nat /\ AutoWaitLimit \in Nat
      BY WaitTimes
    <3>3. now - Since >= AutoWaitLimit /\ started + minimum <= Since
      BY <1>5, <3>1 DEF GivesUp
    <3>4. now - started >= minimum + AutoWaitLimit
      <4>1. PICK s \in Nat : s = Since
        BY <1>4
      <4> QED
        BY <3>2, <3>3, <4>1
    <3> QED
      BY <1>1, <2>2, <3>1, <3>4, <3>2 DEF SettledIsTrue, Selected, MinimumOver
  <2>3. CASE waitAt' = "round"
    BY <2>3 DEF SettledIsTrue
  <2> QED
    BY <1>1, <2>1, <2>2, <2>3
<1> QED
  BY <1>6, <1>7, <1>8, <1>9, <1>10 DEF ReadinessInv

LEMMA ReadinessStepInv == ReadinessInv /\ [ReadinessNext]_readinessVars => ReadinessInv'
<1> SUFFICES ASSUME ReadinessInv, [ReadinessNext]_readinessVars PROVE ReadinessInv'
  OBVIOUS
<1>1. CASE TextChanges \/ PageTurns \/ Tick
  BY <1>1, PageGoesOn
<1>2. ASSUME NEW r \in PageRequests, RequestMoves(r) PROVE ReadinessInv'
  BY <1>2, RequestMovesKeeps
<1>3. CASE ChallengeEnds \/ RoundBegins \/ LookFails \/ WaitOverdue
  BY <1>3, WaitGoesOn
<1>4. CASE EventsRead \/ LogRead
  BY <1>4, LogReadKeeps
<1>5. CASE WaitBegins
  BY <1>5, WaitBeginsKeeps
<1>6. CASE Observed
  BY <1>6, ObservedKeeps
<1>7. CASE SnapshotTaken
  BY <1>7, SnapshotKeeps
<1>8. ASSUME NEW s \in Selectors, SelectorLookedAt(s) PROVE ReadinessInv'
  BY <1>8, SelectorKeeps
<1>9. CASE Decide
  BY <1>9, DecideKeeps
<1>10. CASE UNCHANGED readinessVars
  BY <1>10 DEF readinessVars, optionVars, shownVars, netVars, seenVars, lookVars, noteVars,
     ReadinessInv, ReadinessTypeOK, RequestsKnown, LogKnown, EntriesKnown, Told, Noted, TextKnown,
     InOrder, SettledIsTrue, NothingToWaitFor, Selected
<1> QED
  BY <1>1, <1>2, <1>3, <1>4, <1>5, <1>6, <1>7, <1>8, <1>9, <1>10
     DEF ReadinessNext, PageMovesOn, LoopTurns

(* wait_for_content: what it says when it stops waiting is true of what it  *)
(* looked at, the last text taken, the selectors as they were found and the *)
(* requests as the log told of them, and not only of the notes it took.     *)
THEOREM SettledIsHonest == ReadinessSpec => []SettledIsTrue
<1>1. ReadinessInv => SettledIsTrue
  BY DEF ReadinessInv
<1> QED
  BY <1>1, ReadinessInitInv, ReadinessStepInv, PTL DEF ReadinessSpec
=============================================================================
