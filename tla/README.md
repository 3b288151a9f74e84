# A TLA+ model of the text extraction service

The repository is an asyncio web service (`src/app/`) that fetches pages over
HTTP or in a browser, converts them to text, and answers single crawls, batches
and background jobs. Most of its code is straight-line text processing. What is
hard about it is what happens *between* its awaits: requests that share a
fetch, tasks that are cancelled in the middle of a write, worker processes that
hang, several server processes that share one state store. This directory
models those parts in TLA+, checks them with TLC and proves most of their safety
properties with TLAPS.

    tlc -config Jobs.cfg MCJobs          one run; the pairs are listed below
    tlapm CrawlProofs.tla                one of the eight proof modules

`PROJECT.json` is the index: components, runs, the mutation of the model that
breaks each property, the source lines each definition translates, findings,
hazards and theorems.

## 1. Inventory

### Components, state, operations

| component | source (`src/app/`) | state it keeps | operations |
|---|---|---|---|
| job runner | `jobs.py` | `tasks` (unfinished jobs of this process); per job a record dict in memory; records and rows in the shared store | `submit`, `status`, `rows`, `close`, `_run`/`deliver`, `_settle`, `_save` |
| batches | `service.py` (`stream_batch`, `_batch_item`, `crawl_batch`) | a semaphore and a task group per batch | run, deliver, abort |
| crawl service | `service.py`, `result_cache.py` | `inflight` futures; fresh and stale cache entries in the store | `crawl`, `_cached`, `_joined`, `_extract`, `_store` |
| admission | `capacity.py` | an `asyncio.Semaphore`, `active`, `waiting` | `slot` |
| worker pools | `workers.py` | `idle` queue of tokens, `slots`, `pending`, 2·size threads, worker processes | `run`, `_retire`, `_stop`, `close` |
| storage thread, life cycle | `resources.py` | an executor of one thread; the exit stack | `io`, `__aenter__`, `__aexit__` |
| deadlines | `deadline.py` | one instant per request | `remaining`, `run` |
| outbound rate limiter | `rate_limiter.py` | the last slot of each domain and of all, in the shared store | `reserve`, `acquire` |
| inbound limit | `inbound_limit.py` | a token bucket | `take` |
| HTTP fetcher | `http_fetcher.py` | none across fetches; per fetch attempts, redirects, validators | `fetch` |
| body reader | `body_reader.py` | per body wire and output counts, a decoder | `read_body` |
| browser fetcher, readiness | `js_fetcher.py`, `browser_readiness.py` | per job a guard; per page signatures and timers | `fetch`, `wait` |
| egress proxy | `egress_proxy.py` | open connections and their tasks | connect, relay, close |
| metrics | `metrics.py`, `prometheus.py` | totals and a ring of 60 minute buckets in the shared store | `record`, `snapshot` |
| robots policy | `robots.py` | answers per origin in the cache store | `allowed` |
| request body limit | `body_limit.py` | per request a count of received bytes | ASGI call |
| preflight routing | `preflight.py` | none | when to render, what is blocked |
| API, schemas, configuration, results, conversion, target checks, Chrome driver, logging, tools | the rest | none that a protocol depends on | declarative or pure |

### How they interact

* A **crawl** asks the cache on the storage thread, joins a leader or becomes
  one, waits for admission, extracts (HTTP or a browser worker, then a
  conversion worker), stores, and resolves the future its followers await.
* A **job** runs `stream_batch`, which crawls each URL in its own task and
  delivers its item inside the batch slot; `deliver` writes the row and now and
  then the record, through the storage thread. Another server process may serve
  the client that polls: it shares the store and nothing else.
* All **storage** of one process goes through `Resources.io`, one thread that
  works calls off in order. A task that is cancelled while it awaits a call
  leaves the call behind: it is dropped if it has not begun and lands otherwise.
  Job records rely on this order (`resources.py:79-81`).
* **Shutdown** unwinds the exit stack: jobs first, then the pools, the HTTP
  client, the proxy, the stores, the storage thread last.
* A **deadline** reaches everything: as a timer around the request
  (`CrawlService.crawl`), as timers around single awaits (`Deadline.run`), and
  as a plain test of the remaining time (`Deadline.remaining`).

### What is hard, and what correct means

Section "hazards" of `PROJECT.json` lists these at their lines. In short:

* *Jobs*: rows numbered without a gap while URLs finish together, fail and are
  cancelled; a record never promises rows that have expired or are not there;
  a client that pages through the rows does not mistake a pause for the end; a
  job of a process that died is reported lost rather than forgotten; the bound
  on active jobs counts submits that have not returned.
* *Crawls*: one fetch for identical requests; a leader always resolves its
  future; its own cancellation is not its followers' failure; no slot is left
  behind; a stored result is not fetched again.
* *Admission*: permits conserved and wake-ups not lost when a waiter is
  cancelled in the instant it is woken.
* *Workers*: tokens conserved, one owner per worker, no process forgotten, no
  deadlock between hanging exchanges and the stops that would end them,
  `close()` leaves nothing running.
* *Outbound rates*: slots of one limit an interval apart although the clock was
  read before the storage thread got to the reservation, other processes reserve
  in between, entries expire, and attempts leave after they reserved.
* *Inbound limit*: batches larger than the burst run once the bucket is full, and
  the bucket owes the excess; what a refused client is told must be enough.
* *Fetches*: every request leaves checked and paced, also after redirects and
  retries; validators go to their issuer alone; no prohibited address is given as a
  page's own; no response, browser or guard is left behind.
* *Egress*: what is dialled is what was checked; the connection bound; no handler
  survives a shutdown.
* *Readiness*: "settled" is true of what was looked at, though every look is a round
  trip of its own and the page goes on between any two; the wait ends for every page.
* *Bodies*: a truncated or refused body is one that had to be; nothing is cut
  silently; what is buffered is bounded.
* *Metrics, robots*: records of several processes with late clocks are counted
  once and in their minute; an answer comes from the request's own transport and
  is not out of date.
* *Start and stop*: no part outlives one it needs, wherever start or stop fails.
* *HTTP boundary*: no work and no token for a call that has not shown its key and
  valid fields; an error is one its route documents, or has one of three other reasons.

## 2. Modules

| module | models | EXTENDS / INSTANCE |
|---|---|---|
| `JobContract` | abstract: what the store promises about jobs | |
| `Jobs` | `jobs.py`, `stream_batch`, `_batch_item`, `io`, crash and restart, a polling client | `Contract == INSTANCE JobContract` |
| `Capacity` | `capacity.py` over `asyncio.Semaphore` | |
| `Crawl` | `CrawlService` for requests of one key, composed with `Capacity` and the storage thread | `Capacity` |
| `Extract` | `_extract`, `preflight.py`, `worker_tasks.py`, the choice of a converter | |
| `WorkerPool` | `workers.py`: loop, threads and processes | |
| `RateLimiter` | `rate_limiter.py`: attempts of several processes over one store | |
| `InboundLimit` | `inbound_limit.py` and the Retry-After of `main.py` | |
| `HttpFetch` | `http_fetcher.py`: attempts, redirects, validators, one deadline | |
| `BodyReader` | `body_reader.py` | |
| `BrowserFetch` | `js_fetcher.py`: attempts in workers behind one guard | |
| `Readiness` | `browser_readiness.py`: the waiting loops against a page that changes | |
| `EgressProxy` | `egress_proxy.py`: handlers, limit, shutdown | |
| `Robots` | `robots.py` over the shared cache | |
| `Metrics` | `metrics.py` over the shared store | |
| `BodyLimit` | `body_limit.py`: reading, refusing, draining, replaying | |
| `Api` | `main.py`, `error_docs.py`: the stages of a call and its answers | |
| `Lifecycle` | `Resources.__aenter__`, `__aexit__` | |
| `JobsProofs`, `JobContractProofs` | proofs about the jobs and their contract | the module of that name |
| `StoreProofs` | proofs about the store of the jobs, and that they keep the contract | `JobsProofs` |
| `CrawlProofs` | proofs about admission and the crawl | `Crawl`, `Capacity` |
| `PoolProofs` | proofs about the pool | `WorkerPool` |
| `RateProofs` | proofs about both limits on rates | `RateLimiter`, `InboundLimit` |
| `FetchProofs` | proofs about fetches, the waits for a page and the guard | `HttpFetch`, `BrowserFetch`, `Readiness`, `EgressProxy` |
| `PartsProofs` | proofs about the parts that keep their state to themselves | `BodyLimit`, `Api`, `Robots`, `Extract`, `Lifecycle`, `Metrics`, `BodyReader` |
| `MCJobs`, `MCCrawl` | model values and symmetry for TLC | `Jobs`, `Crawl` |
| `MCRequests` | the five parts a request passes through, one of them acting | `Crawl`, `HttpFetch`, `BrowserFetch`, `Readiness`, `EgressProxy` |
| `MCParts` | the ten other parts with a state of their own, one of them acting | the rest but `Jobs` and `WorkerPool` |

`Crawl` is composed with `Capacity` action by action, and `Jobs` with its storage
thread and its reader, because they share state. The parts in `MCRequests` and
`MCParts` share none: they meet at calls and answers, and each module takes the
answers of the others as free choices (`acquire` may return or refuse, a fetch may
end in any of its errors). So one run can check several of them by choosing at the
start which one acts. Their state spaces add up; in a product they would multiply
and show nothing more.

Operators named `...Late`, `...Early`, `Unshielded`, `TwoThreads` and the like,
each commented as a mistaken variant or standing directly before the operator
it varies, are the mutations `PROJECT.json` uses; no action uses them.

### `Jobs` and the code

A step of a task is what it does between two awaits. `pc[j]` is where `submit`
or `_run` of job `j` stands, `item[j][u]` where `_batch_item` of URL `u` does.

| action | code |
|---|---|
| `Submit`, `Submitted`, `SubmitCancelled` | `submit` up to the save, after it, and its `except BaseException` |
| `Run`, `Running` | `_run` up to the batch; the save there is unguarded, so an error ends the task |
| `Acquire`, `CrawlEnds`, `QueueExpires` | `_batch_item`: the batch semaphore, the crawl, the deadline in the queue |
| `WriteRow`, `RowWritten`, `ProgressSaved` | `deliver`: the order lock, the row, the count, the throttled save; then the `finally` that frees the slot |
| `GroupAborts`, `BatchEnds` | the task group: the first failed delivery cancels the others; `_run` then settles as done or failed |
| `Settled` | the end of `_run` and the done callback that frees the place |
| `Close`, `BatchCancelled`, `CloseReads`, `CloseRead`, `CloseSettled`, `Closed` | `close`: cancel all, gather, then get and settle each job found; the executor goes last |
| `ThreadRuns`, `ThreadTouches`, `ThreadFails`, `ThreadSkips` | the storage thread; `_settle` touches row after row, so each touch is a write of its own |
| `Crash`, `Restart` | the process dies between any two steps; the next one starts with an empty `tasks` |
| `ReadRecord`, `ReadRow`, `EndPage` | `rows` called by a client page after page, through another process, until an empty page of an ended job |

Time is a clock in ticks. Deadlines, `LOST_AFTER_SECONDS` and expiries are
absolute instants, as in the code. `Tick` lets no job be unfinished longer than
`Slack` past its deadline in a live process: the crawl's own deadline ends it,
and storage is fast compared to a tick. The throttle of progress saves
(`PROGRESS_EVERY_SECONDS`) is a free choice. Of a record only the status, the
count and the deadline are kept, of a row only its URL and expiry.

A save carries no record: `functools.partial` holds the dict and it is
serialised when the thread runs it, with whatever it says by then.

### `Crawl` and the code

Requests have one cache key; some are forced refreshes. `pc[r]` names the await:
`look` (`cache.get`), `follow` (another's future), `stale` (the revalidation
entry), `slot`, `work` (`_extract`), `set` and `setstale` (`_store`).
`Strike` puts a timer or a cancellation on a task at any await and `Unwinds` is
the task running with it; in between an outer timer may still overrule an inner
one, and `Verdict` says what the leader leaves to its followers, as
`except CancelledError`/`except Exception` of `_cached` do. `Extracted`
abstracts everything between admission and the store to its three outcomes.

### `Capacity` and the code

`permits` and `queue` are the semaphore's `_value` and its wakeable `_waiters`;
`stage` is where a request stands. `Release`/`HandOn` follow the library's
`release` (one waiter woken per release, the permit handed over directly) and
the wake loop at the end of `acquire`. `Cancel` strikes a waiter before or
after it was handed a permit and `Unwind` is that waiter running.

### `WorkerPool` and the code

`run` is split at its awaits (`get`, `start`, `exchange`, `retire`, `cleanup`).
`queue` and `threads` are the pool's executor; `StartRuns`, `WorkerReplies`,
`ExchangeEnds`, `StopKills`, `CallEnds` are its threads. A worker may never
answer. A start whose call was cancelled has two callbacks, and they are two
steps: the one that takes it out of `pending`, and `DiscardStarted`. A call on a
thread keeps the name of the `run` that made it; `Awaited` says whether that one
still waits for it, `Dropped` takes one out of the queue that has not begun.

### `RateLimiter` and the code

An attempt reads the clock in `acquire` (`Ask`), and its `reserve` waits in the
queue `calls[p]` of its process's storage thread. `Begin` computes the slot with
the transaction open, `Decline` is the 504 of a slot beyond the deadline,
`Commit` writes the entries of the attempt's limits, `Fail` is a store that is
busy or an operation that fails and rolls back, `Skip` a call whose attempt left
before it was begun. `Start` is the end of the sleep and `_request`'s test of
the deadline; `Depart` is the deadline or a cancellation at either await. An
attempt that leaves after the thread has begun its call is an `orphan`: its slot
is still reserved. Floats are whole ticks. `granted` is a ghost: it keeps every
slot reserved, heard of or not.

### `InboundLimit` and the code

`take` does not await, so a call is one step: `Take` or `TurnAway`, by what the
refilled bucket holds. `RetryAfter` is `take`'s answer and `main.py`'s
`math.ceil` of it in one. `window` opens a stretch of time at any moment and
counts the URLs admitted in it; `told` keeps what one refused request was told
until anybody is admitted. Floats are whole tokens and ticks.

### `Extract` and the code

One extraction, from robots.txt to the answer: `RobotsAnswer`, `Fetched`, `Prepared`
(`prepare_document` in its worker), `Rendered`, `Anonymized` and `AnswerGiven` are
what `_extract` does between its awaits, `AwaitFails` an error in any of them.
`NeedsBrowser` is the routing of auto mode, over what a text looks like.
`ReasonsAgree` relates `Success` and `FailureReason`, which the code computes apart.

### `HttpFetch` and the code

| action | code |
|---|---|
| `Validate`, `Pace`, `Send` | the three steps before each request of `_redirects` |
| `Respond`, `Follow` | the headers: a redirect (loop, too many), 304, or a body to read |
| `Read`, `Answer` | `read_body`, then the end of `_redirects` and of the attempt |
| `Breaks`, `SleepFor`, `Wake` | HTTPX's errors, the delay, the next attempt |
| `DeadlineStrikes` | `deadline.run`, `remaining()` and HTTPX's own timeouts |

`cleared` notes for which page the checks of the next request were made, and a
request uses them up.

### `BrowserFetch`, `Readiness` and the code

`BrowserFetch` has the awaits of `fetch` and the places of `selenium_fetch`, which
runs in a worker; `WorkerKilled` is the pool's doing. What the browser shows is the
page asked for, another one, one of a prohibited address or one of Chrome's own, and
`PageMoves` changes it between any two calls of the driver. The last calls are steps
of their own: `FrameLookedAt` (js_fetcher.py:126), `HtmlCaptured` (131),
`PictureTaken` (142), `AddressTaken` (147). So what is returned can be of two pages,
and the check of the address (187) is of the last one only; `still` says that the page
stayed, and `BrowserSound` claims no more of the content than holds then. (TLC refutes
`"prohibited" \notin {rendered.content, rendered.picture}` in a few steps. What a browser
may connect to at all the guard decides: `EgressSound`.)

`Readiness` is the inside of its "load", `wait_for_challenge` and `wait_for_content`,
against a page whose title, text, selectors and requests change at any time. A round
of the loop is `RoundBegins`, `LogRead`, `Observed`, `SnapshotTaken`,
`SelectorLookedAt` for one selector after the other, and `Decide`, which reads the
clock when all has been looked at. Time passes and the page goes on between any two of
them, so the verdict is about the looks: `snapshot` and `snapSince` are the text taken
and since when the page had shown it, `truth` is what the log had to tell when it was
read. `SettledIsTrue` compares the verdict with these. Of the page at the moment the verdict is
given it says nothing: `now - textSince >= StableFor` does not hold of a page that is
called settled, because its text may change after it was taken and before line 195, though
docs/settings.md:122 says that the text is still. The wait is modelled for a page with a good
status: for any other the fetcher leaves `wait_for_content` out (js_fetcher.py:123).

### `EgressProxy` and the code

`handlerAt[c]` is the await of `_handle`. Asyncio accepts in two steps (`Connects`,
`Accept`), and a task that is cancelled before its first step never runs its
`finally`: it opened nothing, but its client stays open until that goes by itself
(`unstarted`, which `EgressSound` names as the one exception). `ExitBegins`, `Gathered`, `TwoSeconds`, `ExitReturns` are `__aexit__`.

### `BodyReader`, `BodyLimit` and the code

A body is a short sequence of units (the beginning and end of a gzip member, data,
junk); `BodyReader` feeds it chunk by chunk to a decoder that stops at its output
limit, and `BodyHonest` compares the verdict with the whole body. In `BodyLimit`
each message of the client is a step: `ReadPiece`, `DrainPiece`, the disconnects,
and `DrainOver` for the second the drain may take. A client that goes away half-way
leaves the application a part of its body followed by the disconnect. A message is
appended before the length is looked at, so a body exceeds `max_bytes` by at most one
message before it is refused: `BodyKept` states that bound, and that it is not
`max_bytes` itself, as `body_limit.py:23` says, is finding 6.

### `Robots`, `Metrics` and the code

`Robots` is `allowed` for several requests over different transports, with lookups
and stores that wait for the storage thread. `Metrics` is `record` (clock, then the
transaction) by several processes and `stats`, which reads bucket after bucket
outside a transaction; histories of every minute say what it should have read.

### `Lifecycle`, `Api` and the code

`Lifecycle` starts seven parts one after the other and pops their closes when the
start fails, is cancelled, or the service stops; any of these steps may raise. A
store that is opened after its caller was cancelled, whose `expire()` raises, or
whose companion's `close()` raises is left open: the code has no close for it, and
`lost` names those. `Api` takes each call through body, key, fields, admission,
options and work, and compares every answer with what the route documents
(`Documented`). Three kinds of error need not be listed: a store that fails (500), a body
the framework cannot decode to text (400, which `/crawl` happens to list, and
`/crawl/batch` and `/jobs` do not, though CHANGELOG.md:143 says that every endpoint lists
its errors), and the 401 of the documentation's own routes, which are not in the schema.

### What is assumed of code outside `src/`

* `asyncio.Semaphore` is fair and hands permits over as described (CPython
  3.13's wake loop included); a `TaskGroup` cancels its children on the first
  error and raises after all have ended; callbacks of a future run in order.
* Cancelling the await of an executor call drops the call if it has not begun,
  and the drop is in effect before the cancelled task runs on. Results of one
  thread reach the loop in order.
* diskcache: an entry is readable until its absolute expiry; every operation
  succeeds or raises without effect.
* Processes on one host read one wall clock, and it does not go back. The storage
  thread begins and ends a reservation within `Delay` of the clock `acquire` read;
  the code relies on that delay being below the 60 seconds an entry outlives its
  interval (`Delay <= Margin`). `transact` of the store serialises the reservations
  of all processes and rolls back what fails.
* uvicorn finishes or cancels request handlers before it runs the shutdown.
* asyncio attaches an accepted transport to its server one turn of the loop before it
  calls the handler's callback; HTTPX hands out chunks of one size; zlib inflates in
  order and stops where its output is full.
* A server sends 304 only to a conditional request.
* The framework parses JSON, then runs the dependencies, then reports fields that do
  not validate. A body that cannot be decoded to text it answers with 400 at once.

## 3. Runs

| run | config | instance | distinct states | checks |
|---|---|---|---|---|
| `jobs` | `Jobs.cfg` | 1 job of 3 URLs, 2 at a time, 1 fault, 1 crash; a client with pages of 1 | 2 230 000 | `TypeOK`, `RowsGapFree`, `RowsBackRecord`, `ResultsBound`, `ImplementsContract`, `ReaderComplete` |
| `jobs_live` | `JobsLive.cfg` | 2 jobs for 1 place, 1 fault, 1 crash | 500 000 | `ActiveBound`, `EveryJobEnds`, `ShutdownMarksJobs` |
| `workers` | `WorkerPool.cfg` | 3 calls, 1 slot, 2 jobs per worker, 1 death | 97 000 | `TypeOK`, `TokensConserved`, `WorkersAccounted`, `PoolSettles` |
| `crawl` | `Crawl.cfg` | 3 requests, 1 slot, 1 queue place, 1 fault, 1 expiry | 432 000 | `OneFetch`, `FutureAlive`, `SlotsMatch`, `NoRepeatFetch`, `CancelStaysPrivate` |
| `requests` | `Requests.cfg` | the crawl with 1 request struck; 3 pages, 2 retries, chains of 2, a deadline of 3; a browser with 2 retries; a page with 1 request, 1 selector and a deadline of 2; 2 connections for 1 place | 850 000 | `RequestsTypeOK`, `AnswersTrue`, `RequestsCleared`, `BrowserSound`, `SettledIsTrue`, `EgressSound`, `RequestsEnd` |
| `parts` | `Parts.cfg` | see below | 1 880 000 | `PartsTypeOK` and one or two properties of each of the ten parts |
| `jobs_count`, `workers_reuse`, `workers_close`, `crawl_deadline`, `egress`, `body_limit` | | | | findings, see below |

`WorkersAccounted` says in one that a worker has one owner, is not forgotten, and
is not left behind by `close()`; `PoolSettles` that calls return, stops happen and
`close()` ends; `CapacityInv` is the five invariants of the admission control.

Why the bounds are enough:

* *Jobs.* Rows need three URLs for a row to be in the store, one being written
  and one waiting for the order lock at the same time; two of them run at once,
  so the third starts in a slot that was freed. One fault is enough to fail a
  row, a save, a settle or a close; one crash to lose a process anywhere, and
  the run continues after a restart. `Ttl`, `LostAfter` and `Timeout` are
  chosen so that a record can expire, and a job can become lost before it does: what
  holds of the defaults, 3600 and 30 seconds. With a ttl below the 30 seconds, which
  `config.py` allows, `EveryJobEnds` fails: the record of a job whose process died is
  gone before it is lost, although jobs.py:172-173 says that it outlives its deadline
  long enough. No run has that case.
  The client reads the record and then row after row, at any time and from another
  process; pages of 1 make it read the record anew before every row.
  The clock stops at `MaxTime`, beyond the expiry of everything stored.
* *Crawls.* Three requests are a leader, a follower and a forced refresh beside
  them, or a leader, a follower and a third that leads after the leader is gone.
  One slot and one queue place make the third be refused.
* *Workers.* One slot makes every leak of a token fatal; three calls follow one
  another on it, so a worker is started, reused, worn out and replaced. Two
  threads are what the pool of one slot has, and all of them can hang.
* *HTTP fetch.* Three pages are the one asked for, one that holds validators and
  one that does not; chains of two requests meet both the loop and the limit. Three
  attempts are a first, a middle and a last one, which alone reports a busy server.
  `Deadline` cuts in during every await, and delays are below, at and above it.
* *Browser, readiness.* Two retries as above; two blocked connections are some in an
  earlier attempt and some in the last. Four pages are one of each kind. The
  page that is waited for has a text that comes late or at once, a request that starts
  and ends before, between and after the looks, a selector that comes and goes, and a
  clock that passes every limit of the loops: 1 tick stable, 2 for requests, 1 of
  auto-wait, and a deadline of 2 that can strike first. A text that takes another's
  place goes the same way through the code as the first one. The theorem removes the
  bounds.
* *Egress.* Two connections for one place: one is refused, or one is late. The
  theorem removes the bound.
* *Admission* (`parts`). Five requests, two permits and three waiters are the least
  with which two permits are under way to waiters while a third still waits.
* *Rates* (`parts`). Three attempts are one that reserved, one that waits with the
  clock it read and one of the other process that overtakes it; two hosts and the
  global limit give an attempt two limits at once, and a host that asks for no pause
  (interval 0) only the global one. A deadline of 1 is met by the first slot and missed
  by the third, and time runs to the expiry of the first entry (`Horizon`). A batch of
  5 against a burst of 3 is the case the inbound bucket treats apart. An interval so
  long that an entry would expire under a waiting attempt is checked and proved up to
  `Horizon - Timeout - Delay` (`Covered`).
* *Robots.* Two visits over one transport race for its entry while a third has one
  of its own; an unreachable file is kept for 1, others for 2 of 3 ticks.
* *Metrics.* A ring of two buckets is reused within a run of four minutes, by two
  recorders that may be a minute late, while the reader is between the buckets.
* *Bodies.* Six units are two members and something after them; chunks of two units
  cut them anywhere. For uploads, pieces of 0, 1 and 2 meet the limit of 2 exactly
  and overshoot it, and so they do the drain of 3.
* *Boundary.* Two calls compete for one token and one job; URLs are within, at and
  above what is allowed.

### Fairness

* Jobs: the event loop runs every ready task, the storage thread works its queue
  off, every crawl ends (its deadline does that, `service.py`), time passes.
  Nothing is owed by clients, and no crash, fault, restart or shutdown is owed.
* Crawls: the loop resumes what is ready, an extraction ends, the thread works.
  No timer is needed (`CrawlProgress`).
* Workers: threads run what they are given and the loop delivers. A *reply* is
  not owed, which is the point; instead the deadline interrupts a wait for a
  reply or a token sooner or later. Waits for a start or a stop are not
  interrupted except by `close()`.
* Fetches (`HttpProgress`, `BrowserProgress`): clocks advance and timers fire,
  nothing else. No server answers, no thread validates, no page ends.
* Readiness: time passes and the loop turns. Nothing is owed by the page.
* Egress (`EgressProgress`): the loop delivers cancellations and callbacks, two
  seconds pass, and clients of the guard go in the end: the HTTP client is closed
  before the guard, a browser is quit or killed. No remote side owes anything, and
  no transport ever has to detach.

Weak fairness suffices: a step of a task stays enabled until it is taken or
until a timer replaces it by another one of the same task. In `MCRequests` the
steps of all parts that are owed are one fair action (`Progress`), which is the
weaker assumption of the two: it only says that the part that acts does not stop
while one of its owed steps is possible. Each part is finite in what it can do
besides, so that is enough.

## 4. Proofs

The first part of `CrawlProofs` proves, for every `Limit`, `MaxQueue` and finite set of
requests (`CapacityAssumption`), that `CapacityInv` is an invariant:
`InitInv`, `StepInv`, then `CapacityInvariant` and one theorem per part.

* `CapacityInv` is inductive as a whole and none of its parts is alone. That no
  permit lies idle (`NoIdlePermit`) needs the queue to hold exactly the pending
  requests (`QueueOrder`), so that a waiter that runs wakes the right ones; the
  semaphore staying within its limit needs `PermitsConserved`; the queue bound
  needs `waiting` to count the waiters.
* All actions by which a request gives up or takes up a permit go through one
  operator, `HandOn`, so one lemma (`HandOnKeepsInv`) covers `Resume`,
  `ResumeLate`, `Unwind` and `Leave`; `MoveOne` covers the moves that hand
  nothing on. `HandOnCounts` is the arithmetic: waking `n` of the pending
  changes each count by exactly `n`. `FirstWaiters` and `WithoutRemoves` are
  the facts about queues without repetition.

`JobContractProofs` proves that a client of the abstract contract can rely on
it: rows are distinct and "done" means complete (`ContractHolds`), and an ended
job changes no more until it expires (`EndedStaysFrozen`). `JobsKeepTheContract`
and `ClientsCanRely` (below) make this true of the runner.

`RateProofs` proves for any attempts, processes, hosts and intervals
(`RateAssumption`) that slots of one limit are apart (`SlotsStayApart`) and that
reservations reach no further ahead than the longest deadline
(`BacklogIsBounded`). `SlotsApart` is not inductive: `RateInv` adds why.

* `StoreCovers`: the entry of a key lies behind every slot reserved under it, and
  stays for `Margin` beyond that and `Horizon` beyond the reservation.
* `CallsRecent`: a call that waits read the clock at most `Delay` ago, and nobody
  takes back the call the thread has begun.
* `TransactionApart`: the slot of the open transaction is apart from all before.

`SlotAfter` is the heart. If the entry is there, the slot is an interval behind
it. If it has expired, then `Delay <= Margin` makes even the old clock of the
attempt lie behind every slot the entry covered. `Commit` then only turns the
open slot into a reserved one. `OneCallLess` and `OneCallMore` are the facts
about the queues, `CallDone`, `CallDoneInVain`, `MoveKeeps` and `NothingReserved`
what several actions have in common, and there is one lemma per action.

The module goes on to why an attempt is turned away (`RefusalsHaveACause`): every
entry of the store is the slot of an attempt that reserved under that key
(`CauseInv`), and an attempt asks before its own deadline, so a slot beyond it is so
because of another attempt's. What was recorded of an attempt that reserved never changes
(`Recorded`), so the cause stays.

It also proves for every burst, rate and largest batch
(`InboundAssumption`) that no stretch of time sees more URLs than the burst, the
refill and one batch's excess (`WindowIsBounded`), and that Retry-After is enough
(`RetryIsHonest`). The inductive invariant keeps an account: what was admitted
since the window opened, and what is left, came from the burst and the refill
(`WindowPaid`); what a refused request was told covers what it lacks
(`RetryPaid`). `Refill` is all that is used of the products, `RetryCovers` is the
rounding up.

`FetchProofs` proves four invariants and one action property about what a fetch
touches, for any number of retries, pages, loads, requests and connections.

* A fetch without a browser answers what was asked (`AnswersAreTrue`), and each of its
  requests was validated and paced for the page it goes to (`RequestsAreCleared`).
  `HttpInv` adds the order: in the place before a request, `ChecksInOrder` says which
  checks have been made *for the current page*; a request uses them up and a redirect
  starts over. It also keeps a validator with the page that issued it.
* `BrowserIsSound`: `BrowserInv` counts slots against loads place by place
  (`SlotsUsed`), says where a browser may be alive (`BrowserKept`): only behind the
  guard, and never when its result is looked at; and what has been found of the page
  so far (`FoundKept`): as long as it is still, all of it is of the page shown.
* `EgressIsSound`: `EgressInv` is `ConnKept(c)` for every connection, besides types.
  A handler that runs is a task that counts, what it dials is what was checked, it
  closes what it opened and its client, unless it was cancelled before its first step,
  and after the server has waited none runs but those accepted too late (finding 5). `OneConnSteps` is the frame: a step that changes one connection
  leaves the others' facts alone, so each lemma argues about one connection.
* `SettledIsHonest`: `ReadinessInv` compares the notes of the loop with what happened,
  look by look. `LogKnown(r)` says of each request that what was known at the last
  reading and what the log has to tell since make up what it did, `EntriesKnown(r)`
  that the requests known to run and the records not yet observed make up what was
  known at that reading. `TextKnown` says that as long as the snapshot shows the text
  noted last, it has been shown since `changed` at the latest. `LogTakenKeeps` and
  `ObserveKeeps` are the two halves of reading the log, `DecideKeeps` the verdict.
  The proof showed that a first draft of the model mixed up "no signature yet" with an
  instant; `Unseen` keeps them apart, as `previous = None` does in the code.

`PartsProofs` proves that the application gets the body the client sent, or none of
it, and that no more is held or drained than a piece beyond its bound (`BodyIsKept`);
that no call reaches admission or work unless it was authorized and valid, and that
every error has its reason: its route documents it, or it is one of the three that no
route does (`CallsGoInOrder`); that robots.txt is one's
own and recent (`RobotsAreOwnAndRecent`); that `success`, `failure_reason` and the
options agree with what was done (`AnswersAreHonest`); and that parts are closed in
order and nothing stays open in the end but, at most, the stores in `lost`
(`PartsCloseInOrder`).

* `LimitInv` says that the two counts are what was sent as long as the loops run.
  `BodyKept` speaks of *some* piece that was the last; when a later one is longer,
  `LongerPiece` supplies the witness.
* `ApiInv` keeps for each call what its stage implies (`CallKnown`): the stages come in
  the order of `After`, which the property itself does not mention. `OneCallSteps`,
  `PassSteps` and `RejectSteps` are what all stages have in common.

* `RobotsInv` gives every answer a last instant of use (`Lasts`): an entry of the
  cache expires by then, a visit that holds one decides by then, and both hold rules
  that were fetched over the transport of their key.
* `ExtractInv` says of each await what the document, its conversion and the options
  are known to be there; `Hidden` is what anonymizing has to leave out.
* `LifeInv`: the parts that are open are those begun so far, `Begotten(n)`, but for the
  two stores, whose opening and closing the storage thread does step by step
  (`StackKnown`). `NeedsStarted` is the order of the starts.

Two parts compute over data, and the module goes on to those.

*Sums.* `Metrics` sums over rings, histograms and minutes. The library's induction
theorems take an operator, but that the strict subset of a finite set is well-founded
is stated of sets, and from it follow `SmallerSetInduction`, `SubsetInduction` and
`NaturalsInductionSet`, where what is shown of each element is membership in a set.
`SumUnrolls` finds with them the recursive function a sum stands for; `SumTake` takes
any element out first, and `SumGrows`, `SumAdds`, `SumSame` and `SumMonotone` are what
the proofs cite.

* `MetricsAreHonest`, for any ring, bounds, latencies and recorders whose patience is
  shorter than the ring. `BucketsHold` and `HistoryKept` relate the ring to the minutes:
  a bucket that is used holds all of one minute, and a minute that was recorded is in
  its bucket until a later one of that bucket is; `RecordersInTime` is why no late
  recorder takes a bucket back to an hour before. `ReadSoFar` is what `stats()` knows in
  the middle of the ring: of each minute it passed at least what was stored when it
  began, and no more than is stored now. `ByLatency` ties each histogram to the
  latencies it stands for; from it `PercentileIsClose` shows that the percentile lies
  in the bucket of the true one and exceeds no latency.
* `BodiesAreHonest`, for bodies of any length, chunks of any size, any limits and any
  inflation. `LoopUnfolds` gives the states that the fold over a chunk goes through.
  `Fed(so, n)` says what one of them knows of the first `n` units of the wire without
  mention of chunks, `FeedKeeps` that a unit keeps it, `ChunkKeeps` that a chunk does;
  `BodyInv` is the same between chunks. So how the body was cut makes no difference.

The rest of `CrawlProofs` proves all that the run `crawl` checks, for every number of requests and
limits, in four arguments.

* `LeadInv` is who leads: a future is pending while its request leads and resolved when
  it has answered, what it holds tells what struck the leader (`FutureKnown`), and one
  that is not forced leads only as the one in `inflight` (`RoleKnown`). `OneFetch`,
  `FutureAlive` and `CancelStaysPrivate` follow. Every action is a request that
  `Lands` somewhere, or moves as in `MoveKeepsLead`.
* `CrawlKeepsCapacity` is a refinement: every step of the crawl is a step of
  `Capacity` or leaves it alone, so all that is proved of admission holds in it.
* `SlotsInv` adds `SlotKnown(r)` to that, for `SlotsMatch`. `StageAfter` says what each
  action of admission makes of its request, `OthersStay` that others are only woken.
* `CallInv` is about the order of the storage calls, for `NoRepeatFetch`: a request has
  one call under way, before the thread or behind it (`CallKnown`), and a lookup that
  missed what is stored by now has its answer ahead of the store's in the loop's queue
  (`AheadOfStore`). So whoever looks up later finds it. `ReadyStep` and `CallsStep` say
  what a request can do to the two queues.

`PoolProofs` proves `WorkersAccounted` and `TokensConserved` for any calls, workers and
slots. `PoolInv` says where a worker can be: waiting in the idle queue, with one call,
or leaving - to be stopped, or an orphan of a cancelled start (`WorkerKnown`). Queues
are reasoned about as the set of what is in them and as what is in them once
(`Single`); `QueueMoves` is all an action does to the queue, `RunMoves` what a call
does while one worker changes hands, `QuietStep` what most steps of a thread are.
`ClosingInv` is what `close()` has come to: no call, then no start, then nobody but
those it could not see (finding 3). For the tokens, `OthersHold` and `TokensMove` count
what is in the idle queue and what calls hold.

`JobsProofs` proves of `Jobs`, for any jobs, URLs, limits, faults and crashes, that its
types hold, that active jobs and results in memory are bounded, and that rows have no
gaps. `JobsInv` relates three things of a job: where its tasks stand, the calls it has
in the storage queue, and the rows that are stored.

* `CallKnown(c)` ties a call to the task that awaits it, or to nobody. A row in the
  queue has the number the job counts next, and its URL has no row yet.
* `QueueKnown`: nobody awaits two calls, no two rows of a job are under way (the order
  lock), and only reads follow a settle.
* `RowsKnown(j)` is why there are no gaps although a cancelled write goes on: the rows
  are those counted, or those and one more, which landed and was not counted yet or,
  when the job is over, never will be (finding 1). With the lock no second such row
  can come.
* The row numbers fit into those of the URLs by a pigeonhole argument (`RowsFit`): no
  two rows show one URL, so there is an injection.
* `OneJobMoves` is the frame: a step of one job leaves alone what is known of the
  others, so each lemma argues about one job. `CallLeaves`, `CallsMade`, `Awaits`,
  `Drops` and `Cancels` are what actions do to the queue.

`StoreProofs` goes on to the store, for any jobs, URLs, limits and lifetimes with
`Slack < Ttl`. That is the one hypothesis the code does not check: a live process ends a
job within `Slack` of its deadline, which takes it the time of a few storage calls,
sooner than a result's lifetime runs out (`JOB_RESULT_TTL`, an hour by default). Without
it a job can outlive its own record. The four configurations have `Slack = 1` and `Ttl`
2 or 3.

`StoreInv` is inductive together with `JobsInv`. TLC checked it before it was proved, on
all states of `Jobs.cfg` and on 11.6 million states of an instance with two jobs.

* `RowsLast(j)` is about time: an unfinished record and the rows of an open job last for
  the deadline and the ttl together, a settled job's rows exactly as long as its record,
  and a job the process holds is no later than `Slack` beyond its deadline.
* `StatusKnown(j)` says which status the dict and the record can have at each place of
  the task. A dict that says done stands for items that are all done.
* `WriteKnown(c)` is what a write in the queue can rely on when it lands. A save writes
  the dict as it is *then*, so this relates the record to the dict of now, not to that of
  the call; a settle knows how far its touches came (`at`), also when its task was
  cancelled and nobody awaits it any more.
* `CallsFit(c)` and `Behind(c, d)` are the order: nothing of a job stands behind its first
  save while it is submitted, and once it is over only its settle and reads follow.
* `Others` is the frame for one job, `TaskStore` for a task that only moves on;
  `QueueSame`, `QueueNew`, `QueueCut` and `CallGone` are what steps do to the queue.
  `SaveLands`, `RowStored`, `SettleLands` and `HeadTouches` are the four writes.

From it follow `RowsBackTheirRecord`, then `ClientsMissNoRow`: what a client has so far
is an initial piece of what is stored (`ReaderInv`, which only needs that rows stay,
`RowsStored`), and at an empty page of a settled job, whose rows expire no sooner than
its record, that piece is everything.

`JobsKeepTheContract` is the refinement. `StoreMoves` sorts the steps: nearly all leave
the visible store as it is (`StoreStill`), a tick expires the set of records whose time
has come (`TickExpires`), and a finished write is one step of the contract or none:
`SaveKeepsContract` accepts, begins or finishes, `RowKeepsContract` adds the next row,
`SettleKeepsContract` finishes, or expires a job whose ttl ran out before its settle
came to the record. `WriteFindsRecord` is the crux: a write to a job that was stored
finds its record still there, or the contract would see an expired job come back.
`DoneShowsAll` is why a job that says done shows a row for every URL.

`ClientsCanRely` takes what `JobContractProofs` shows of the contract over to the runner:
done means complete, no URL has two rows, and an ended job is frozen until it expires.
`Promised` is a second instance of the contract, with its theorems.

What stays with TLC:

* Liveness (`EveryJobEnds`, `ShutdownMarksJobs`, `PoolSettles`, `RequestsEnd`): the
  prover has no reasoning about fairness.
* The type invariants of the compositions, `RequestsTypeOK` and `PartsTypeOK`: the parts
  share no state, and the types their proofs need are proved in each.

## 5. Findings

Each is a run that TLC must find violated.

1. `jobs_count`: a job that fails because a row could not be stored can end with
   fewer URLs counted than stored. The count is raised after the write came
   back; another row's failure cancels that wait while the write goes on.
   README.md says a job that ends by itself saves its exact count.
2. `workers_reuse`: a second cancellation, or one during a start, frees the slot
   while its process is still there; the next call starts another. README.md
   says the worker is terminated before the slot is reused.
3. `workers_close`: a cancelled start has left `pending` but its other callback
   has not run; `close()` finds nothing left and shuts the executor down.
4. `crawl_deadline`: whether a leader's deadline reaches its followers as a
   failure or sends them to lead depends on which of its timers fires first.
5. `egress`: a connection is attached to the server one turn of the loop before its
   handler is made. If the guard closes in between, the handler appears after the list
   of tasks was taken: nobody cancels it, and it goes on resolving and dialling after
   the comment "All handlers are finished." (egress_proxy.py:139).
6. `body_limit`: the message that exceeds `max_bytes` is held as well, also while the
   rest is drained; body_limit.py:23 says never more is buffered.

## 6. Not modelled

* Within the modelled parts: the `succeeded` count, error texts and timestamps
  of a record; jobs of other server processes (only their reads); keys of other
  crawls (they only compete for slots); `result_cache_ttl = 0`; the other users
  of the storage thread (metrics, rates, robots), whose calls only delay the
  ones modelled; what a worker computes; directories of dead workers;
  `crawl_batch`, which gathers items without deliveries.
* Markup, links, formulas and the texts of the schemas: pure text processing or
  declarations, with no state a protocol depends on. What is modelled of conversion is
  which converter runs and what its outcome says of itself (`Extract`); of the schemas,
  that a call is valid or not (`Api`).
* Configuration, results and logging: constants and value types. The bounds
  `config.py` checks are the assumptions on the models' constants.
* Target validation: the table of address classes, evaluated by a library.
  `EgressProxy` has what `resolve_target` refuses (`Allowed`); `HttpFetch` and
  `BrowserFetch` use its verdict.
* The Chrome driver, the load test and the deployment files: external programs and
  tools around the service. Starting and quitting a browser is part of `BrowserFetch`.
* Two things have no property. A job result ttl of less than 30 seconds (section 3,
  *Jobs*). And a leader that was already extracting when a forced refresh stored a newer
  result overwrites it (service.py:218): nothing promises how old an entry is, except
  that it was fetched after its request began, and both orders keep that.

## 7. Plan

1. The bounds that `MetricsTypeOK` puts on each count: they need the number of records
   under way next to `MetricsInv`.
2. A property of how old an answer may be, if the service ever promises one (service.py:218,
   above).
