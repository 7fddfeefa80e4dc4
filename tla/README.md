# docker-composer-api: a model of the gateway

The gateway puts OpenAI- and Anthropic-style HTTP APIs in front of the Cursor SDK. Most of
it translates messages, one request at a time. What is hard about it is the state that
outlives a request: agents that wait for a client's tool results between two HTTP requests,
keys that fail and are rotated, and background work. This project models that state in TLA+,
checks it with TLC on small instances and proves its safety properties with TLAPS. All source paths below
are under `src/src/`.

## 1. Inventory

| part | state it keeps | operations | hard because of | correct when |
|---|---|---|---|---|
| session lock (`session-hub.ts`) | `lockTails`: one promise chain per session | acquire, tryAcquire, release, abort | promise reactions interleave with aborts and with a sweep in the middle of a probe | one request inside, in order, nobody forgotten |
| session hub (`session-hub.ts`) | slots in an insertion-ordered `Map`, holds, hold timers, limits | put, get, sweep, registerHold, resolve/rejectPending, state changes, drop, configure | timers against answers, eviction under pressure | no hold forgotten, no running turn killed, limit kept |
| durable turns (`cursor-runner.ts`, `tool-compat.ts`) | the slot's agent, run, pump, issued ids, consumed ids, the box of the tool callback | enter, resume, create, replace, resolve, send, consume, park, abort, settle | a run outlives the HTTP request that began it; aborts at every await; late callbacks of old runs | no call lost or repeated, slot settled, lock released |
| key pool and rotation (`key-pool.ts`, `key-rotating-runner.ts`, `quota-bucket*.ts`, rows in `store.ts`) | keys, failure counts, bucket marks, session bindings, grants | select, report, record success, bind, rotate, admin changes | every store access is an await; two requests fail or succeed on one key at once | pinned turns stay, grants hold, no retry after output |
| gateway keys (`gateway-key-pool.ts`, `auth.ts`) | a snapshot of the rows | refresh, resolve, add, set status, seed | restarts, the environment and administrators change one table | a revoked key does not authenticate |
| agent store (`agent-store.ts`) | agents, runs, run events, blobs; in memory or SQLite | touch, append, update, sweep, drop | sweeps against live runs, events before their run | nothing of a live run goes, nothing of a dead one stays |
| usage reconciler (`usage-reconciler.ts`, costs and baselines in `store.ts`) | queue, timers, active tasks, baselines | schedule, execute, retry, book, drain | totals are cumulative, late and stale; rows are deleted; shutdown and crashes | nothing booked twice or lost, tasks and drain end |
| executor leases (`executor-warmup.ts`) | leases, orphans, releases under way, cool-downs | warm, recycle, releaseAll, evict | prewarms that land late, releases that fail or time out and are tried again | every handle is released once or kept, reports are true |
| Cursor Bot runs (`cursor-bot/store.ts`, `background-worker.ts`, `service.ts`, `tool-loop.ts`, `routes.ts`) | runs with leases, events, tool calls; the request, the worker and the followers of a run | create, lease, take over, append, replay, record, submit, cancel, resume | crashes, lapsed leases, late ends, clients that reconnect | an end is final, a result counts once, events have no gap, nothing is stranded |
| Cursor Bot sub-agents (`subagent-scheduler.ts`) | children in flight, counts | spawn, cancelAll | parent and child end in any order | the child's run and the parent's call both end |
| Cursor Bot transport and credentials | credentials, tokens | pick, refresh, disable | refreshes at once | I/O |
| streaming (`server.ts`) | the generator of one response, its abort signal, its log row | pull, event, error, abort, destroy, log, save | the client, the idle timer, the runner and the store each end it in their own way | blocks in order, one true log row, a completed response is stored |
| routing, prompt delta, identities, tool compatibility | none | pure functions | data | agree with their definitions |
| protocol, admin pages, settings, proxy, debug records | configuration | HTTP | - | - |

How they interact: `server.ts` hands a request to `KeyRotatingRunner.stream`, which takes a key
from the pool and calls `CursorAgentRunner.stream`; a request with a durable identity enters the
session's lock, works on the session's slot in the hub, and leaves the slot to the next request.
The SDK's agent calls back into the slot (`registerHold`) and into the pump of the current send.
The hub's timers and sweeps drop slots on their own, sparing the running ones. When the request is
over, `finishLog` writes its row and schedules a task that asks Cursor for its cost. A request for
the Cursor Bot goes to `cursor-bot/service.ts` instead, which keeps a run in the bot's own store.
On shutdown `index.ts` closes the HTTP server, drains the reconciler, drops the slots, releases the
executors and stops the bot's worker, in this order.

`PROJECT.json` lists all parts with their status, and under `hazards` the places where the code
can go wrong in a way that a test would hardly reach, with the properties that watch them.

## 2. Modules

| module | models | built on |
|---|---|---|
| `SessionLine` | what the lock promises: one line, its head inside | - |
| `SessionLock` | the promise chain that implements it | refines `SessionLine` |
| `SessionHub`, `MCSessionHub` | slots, holds, timers, eviction of several sessions | the lock as `inside` |
| `DurableTurn`, `MCDurableTurn` | the turns of one session, request by request, and the SDK's runs | the lock as `holder`, the hub as `Evict` |
| `KeyRotation`, `MCKeyRotation` | key selection, rotation and the rows it uses | - |
| `ExecutorLeases`, `MCExecutorLeases` | prewarmed executors, their retirement and release | - |
| `UsageBooking` | tasks of the reconciler and what they book | - |
| `BotRuns` | runs of the Cursor Bot, their drivers, followers and routes | - |
| `GatewayStream` | one generation request, from handler to log row | - |
| `SessionLock_proofs`, `SessionHub_proofs`, `DurableTurn_proofs`, `KeyRotation_proofs`, `ExecutorLeases_proofs`, `UsageBooking_proofs`, `BotRuns_proofs`, `GatewayStream_proofs` | theorems (section 4) | the module of that name, TLAPS |

In all of them a step is one stretch of code between two awaits, for JavaScript runs such a
stretch without interruption. Where several awaits are merged, no other event could come in
between (the continuations are microtasks of one event) or what comes in between touches nothing
the step reads; where an await is a step of its own although the store answers at once (SQLite is
synchronous), the reason is that `StateStore` is an asynchronous interface, that the code itself
treats such an await as a point where another request gets in (`key-pool.ts:456-460`), and that
two requests resumed by one event alternate microtask by microtask.

### SessionLock

`tail` is `lockTails.get(sessionId)`. A ticket is named by its request. `released` and `settled`
are the resolved `held` and `tail` promises: `Settle` is the promise reaction. `Line`, `Probe`
contain `bindLock`; `Release` and `GiveUp` contain its release function with the map deletion.
`turn`, `bound` and `detached` are history.

### SessionHub

`order` is the insertion order of the `slots` map, which the LRU choice reads. Deadlines are kept
as the time left and idle times as the time passed, so `Tick` needs no bound. `fate` records what
became of each execute's promise. Calls on a slot come from the request inside its lock; the
agent (`RegisterHold`), the timer, sweeps by other requests and `Configure` come at any time.

### DurableTurn

One session. `current` is the hub's entry; `slot[a]` the slot object of the a-th agent, which a
request keeps using after the hub dropped it, as the code's closures do. `run[n]` is the n-th
send with its `EventPump`: `queue` are its items, `deaf` the resolvers left by aborted requests.
`box[a]` is the `pumpRef` of the agent's tool callback. `req[r]` are the locals of `runDurableLocked`
and `consumeDurablePump` (`caught`, `told`, `tools` are `capturedToolCalls`, `sdkEventToolCalls`,
`toolCalls`); its `pc` is the await it stands at. `handed` and `brokenOff` are history.
A request is a new user turn, the same turn again, or results for calls that were handed out.

Left out: the texts and digests (whether a history matches is a choice: `Refuse`, `Replace`); run
stamps (an item always lies in the pump it was pushed to, so the stamp check never discards what
the model keeps apart already); the collision fork, which is another session key; the store's
mapping of sessions to agents; the aliases of call ids and the matching of a told call by its name,
so that a call stands for itself; the stateless fallback, during which the request keeps the lock
and touches nothing (`settling`).

### KeyRotation

`status`, `failures`, `marks`, `binding`, `grant` are columns of the store; `req[r]` the locals of
`stream` and of `select`, `recordSuccess`, `reportFailure` on its behalf. Which candidate is taken
(weights, cursor, order) is open. `MaxEvents` bounds what operators, the bot and the clock do.

### ExecutorLeases

A lease is named by the warm-up that made it; `table` is `leases`, `orphans` and `settling` are the
fields of those names, `task` the promises in `settling`, `left` bounds the calls, and `MaxMade`
the names of leases, above what the calls can make. Whether a lease
is past its cool-down, or the least recently used, is open. A release that throws at once and one
that rejects are the same. A `warm` that joins one under way changes nothing. Two warm-ups of one
id at once overwrite each other's entry (`executor-warmup.ts:125`, `:149`); `warm` has one caller
(`index.ts:381`, once at start), so this does not happen as the program is wired, and `HandleKept`
excepts it by name (`overwritten`). `recycle` comes from `cursor-runner.ts:201` on an upstream
authentication failure, `releaseAll` from a proxy change (`index.ts:214`) and from shutdown (`:406`).

### UsageBooking

`row[l]` is the cost of a request's log row (`Absent`, `Unknown` for NULL), `baseline` the table of
that name, `task` where a pending task is. `total` is what Cursor has charged, and an answer may be
any total up to it, for replicas lag. There are finitely many logs (a bound of the instance), for
their amounts are summed. `cleared` and `strays` are history. `Restart` stands for a crash and for
the exit after the drain. The two components of an amount are treated alike and are one.

### BotRuns

`rows` gives the order of rowids; `status`, `lease`, `lastSeq`, `delivery`, `call` are columns (one call
per run). `inline[p]` is where the generator of `streamWithTools` stands; `worker` the run the worker
has in hand. `conn`, `seen`, `wire` are a client that follows a run: it connects with any prefix of the
events, which covers any number of reconnects by induction. Events are their numbers. One process
serves all, with synchronous SQLite, so `ReplayBridge`'s buffer is always empty. The worker may take
any time and end in any way `RunExecution` allows, though today's (`index.ts:291-303`) hands every run
back at once; `BackgroundWorker.cancel` is modelled although no route calls it. Left out:
`next_run_at` (no caller passes a back-off), `cancelAll` (it is called in the catch, when no child is in
flight), the limits on sub-agents (a refused child is a tool that answered with an error).

### GatewayStream

`gen` is the generator chain under `Readable.from`: not begun, waiting, held at a yield, over. `next`
is what it does after the chunks in `out`. `reason` is `abortReason`, set exactly when the signal has
fired. A chunk is what a client tells apart: `plain`, the start, the deltas and the stop of block `i`,
`final` (`[DONE]`, `message_stop`, `response.completed` or the whole body), `error`. The four kinds of
request with their options are initial states.

## 3. Runs

| run | instance | result |
|---|---|---|
| `session_lock` | 4 requests, 2 with abort signals; 60,717 states | all properties hold, and the chain implements `SessionLine` |
| `session_lock_aborts` | 3 requests, 1 with a signal | **violated** `Serial` |
| `session_hub` | 3 sessions, a plain and a delegated call, limit 1 or 2; 143,696 states | all hold |
| `durable_turn` | 2 requests, 2 agents, 2 sends, 2 things said per run; 615,739 states | all hold |
| `durable_turn_lost` | 3 requests, 1 agent, 1 send, 3 things said | **violated** `NothingLost` |
| `key_rotation` | 2 requests of one session (one durable), 2 keys, 2 buckets, 1 event from outside; 201,470 states | all hold |
| `key_rotation_marks` | the same, one gateway key unlimited | **violated** `OtherMarksSurvive` |
| `executor_leases` | 2 ids, 3 warm-ups, with or without a recycle, 2 concurrent releaseAll; 227,000 states | all hold |
| `usage_booking` | 2 requests, 1 durable agent, totals to 2, 3 attempts, queue of 1, 1 mode switch; 236,000 states | all hold |
| `usage_switch` | the same instance | **violated** `NeverTooMuch` |
| `bot_runs` | a run and its child, 1 frame, 2 iterations, 1 resume, 2 starts; 470,885 states | all hold |
| `gateway_stream` | every kind of request, 4 events; 45,726 states | all hold |

Why the bounds are enough. The lock's hazards need a holder, a waiter that aborts, one behind it
and one that probes: four requests, and both with and without signals. The hub's need more sessions
than slots, a slot of each kind for eviction to choose from, two holds of different length in one
slot, and a limit that shrinks. A durable turn's need one request to leave something behind and one
to find it, an agent and its replacement, a run and the one after it, and two calls in one run (the
violation needs a third request, and a third thing said). Rotation's need a failing and a remaining
key, a mark on either bucket, and one event in between; more events only repeat them.
A lease can be in the way of an older one, and a release of a newer one (three warm-ups), and two
reports can wait for one release. Two requests split one agent's total, the third attempt is past a
retry that waits in the queue. A run is begun, left, taken over and answered within two iterations and
two starts, and a page of one event makes every replay one of several pages. Four events reach
every order of two kinds of block with what closes them.
Deadlock checking is off in every run: all requests may be through, and the operator may stop.

**Fairness.** A promise whose resolution is due resolves, and a continuation that is due runs: weak
fairness on each request's own steps (`SessionLock`, `DurableTurn`, `KeyRotation`). Nothing makes a
client arrive, answer or leave, an agent speak, or a run end. That a request waiting for its pump
moves on (`HttpAbort`) is due to the server's idle timeout; that an upstream attempt of rotation
ends is due to the bounds `cursor-runner.ts` puts on its waits. In `SessionHub` time passes and an
expired timer fires. In `ExecutorLeases` the deadline of a release passes (its timer is not unref'd,
`executor-warmup.ts:336`), but no release ever has to answer. In `UsageBooking` timers fire and a call
is given up after its timeout; Cursor never has to answer. In `BotRuns` the worker polls, what it
executes returns, leases lapse and the process is started again; nothing is asked of requests,
upstream or clients, and `LeftRunTaken` allows for a process that is down. In `GatewayStream` the idle
timer fires, the store answers, and the response is pulled on or destroyed; the runner may be silent.

### What the violations show

- `session_lock_aborts`: the last waiter in line aborts and its release deletes the map entry
  (`session-hub.ts:816`) under the request that is still inside. The next request goes in beside it.
  All other lock properties are stated for an attached chain, and proved for it.
- `durable_turn_lost`: two calls are held; a request with one result waits for the run and is
  aborted - by its client or, as the request with the other result queues behind it at the lock, by
  the idle timeout. It parks, but the promise of its `pump.next()` stays in the queue's `resolvers`
  and takes the first item that the run pushes for the request after it. If that is the `end` item,
  that request waits until its own idle timeout.
- `key_rotation_marks`: `recordSuccess` writes back the marks it read before an await.
- `usage_switch`: the reconciler asks for the mode of sessions when the answer is there. A task of a
  durable agent that is pending at a switch to stateless sessions writes the agent's total into the
  row (`usage-reconciler.ts:164`), of which earlier requests have had their part.

### Seen on the way

Behaviour the models contain and no property forbids; most of it is at odds with a comment only.

- `server.ts:918` says that only a stream that was aborted carries an abort reason. A client that reads
  slowly lets the idle timer fire while the last chunks wait; the stream ends with 200 and the row
  carries `idle_timeout`.
- `server.ts:1231` says that no request goes unlogged. A stream destroyed before its first pull runs no
  `finally`; `LogTellsEnd` is about streams that were begun.
- A whole `/v1/responses` body is logged as 200 before it is stored (`server.ts:383-395`); if that
  fails the client is sent 500.
- An abort of a parent does not reach a running child although `subagent-scheduler.ts:287` means it to:
  `cancelAll` is called when the generator has left the child.
- The inline lease lasts five minutes and is not renewed (`service.ts:441`), so the worker takes over
  the run of a request that is still alive; `TerminalIsFinal` is what protects its result. The worker
  also emits its last event for a run that a route has cancelled.
- The event stream of a run that ends later is never ended by the server (`routes.ts:111-122`), and
  shutdown waits for it.

## 4. Proofs

Every safety property that a passing run checks, as an invariant or as an action property, is also a
theorem: for any number of requests, sessions, keys, agents, runs, warm-ups, logs and events, whatever
the limits. The assumptions are the named ones of the modules: that the values for "nothing" are not
among the ids, that limits are positive, that the parameters have their types, that there are finitely
many limits to configure (`SessionHub`) and finitely many logs (`UsageBooking`, for the sums), and that
more leases can be named than the calls make (`ExecutorLeases`). Only
`SerialWithoutAborts` has a hypothesis of its own, which its name tells.
`PROJECT.json` lists the theorems with the property each one states.

Each module proves `Init => IInv` and `IInv /\ [Next]_vars => IInv'` first, one lemma per action or per
piece that actions share. TLC checked each `IInv` on the instance of the module's run before its proof.

- **`SessionLock_proofs`**: type correctness, mutual exclusion, exact probes, no overtaking, that the
  chain implements `SessionLine`, and, with no abort signals, exclusion without proviso. Mutual
  exclusion is not inductive: nothing in it says that a settled promise speaks for everybody before
  it. The invariant orders tickets by their turn. `GapInv`: between a ticket and the one it waits for,
  nobody live stands; hence `SettledInv`: a settled tail is older than every live ticket; hence
  `HeadInv`: a holder is the oldest live ticket, and there is one such. `TailInv`: the map entry is
  the youngest live ticket. All this holds while the chain is attached, which is where
  `session_lock_aborts` bites.
- **`SessionHub_proofs`**: type correctness and the hub's seven safety properties. `SlotsInv`, per slot:
  the timer is the deadline, there is one exactly while the slot awaits tools, it covers every hold,
  and an execute waits exactly while its hold is there. `OrderInv`: the map is sorted by age and its
  members are the live slots. The work is in the data: the greatest of a finite set, which
  `refreshHoldDeadline` takes; that filtering and appending keep a sequence sorted, which `touch` and
  `drop` do; that the order is as long as there are live slots, for `LimitKept`. Type correctness
  needs `RangeInv` besides: what is left of a hold is within the longest TTL.
- **`DurableTurn_proofs`**: type correctness, `NoSlotLeftRunning`, `PumpsAreOwn`, `NothingHeldIsForgotten`
  and `EachCallOnce`. None is inductive, since a call passes through many hands. `HubInv` and `ReqInv`
  say which slot and which pump the one request inside may speak of at each await, the slot in the
  hub or one that has gone; `QueueInv` what may lie in a pump, and in what order; `CallsInv` that a
  call once handed out lies in no pump and is either among its slot's issued ids or of a run that
  nobody will be told of again; `HeldInv` where a call that is held open may be: with the client, in
  its pump, in the hands of the request that parks or hands it out, or broken off by an abort - or
  gone with an item that a deaf resolver took, as `durable_turn_lost` shows.
- **`KeyRotation_proofs`**: type correctness, `PinnedTurnStays`, `GrantRespected`, `OutputEndsRotation`
  and `MarksOnlySteer`. What is tried comes from candidates that were listed before an await, so
  `PinInv` and `GrantInv` speak of the candidates and of what the request was allowed when it began;
  a limited grant stays limited (`Kept`) although administrators remove keys, since an empty one
  would mean all keys. `EmittedInv`: between two attempts nothing has gone out.
- **`ExecutorLeases_proofs`**: `HandleCalledOnce`, `NoHandleLost` and `ReportsTruth`. A lease is live
  while its executor is held or may yet be. `Sound`: one call at a time and none after the handle was
  given back; `KeptInv`: a live lease is in the table, an orphan or some task's, a retained one in the
  table or an orphan; `AdminInv`: a `releaseAll` that has met no failure waits for the release of every
  live lease that it took.
- **`UsageBooking_proofs`**: `QueueInOrder` (a task is queued once, and no more are active than the limit
  allows), `BooksBalance` and `AsksUntilBooked`. `BookedOnce` is an equation between a baseline and a
  sum; with `TaskInv` (a row was given nothing before its task is over, and a task's agent is its own or
  its session's) it is inductive. The sums are the community modules' folds, which follow `CHOOSE`: that
  the recursion behind them has one solution, that the order does not matter and that one more
  member adds its amount is shown by the least counterexample on the number of members.
- **`BotRuns_proofs`**: `TerminalStays`, `ResultAcceptedOnce`, `ReplayWithoutGap`. One lemma says what any
  step may do to the status, to the call and to the event count of a run. `WireInv` adds to `ReplayExact`
  that a client has seen no more than there is; that `Backfill` delivers every event after the one
  seen, in pages of any size, is shown by the least counterexample.
- **`GatewayStream_proofs`**: `StreamWellFormed`, `LogTellsTheEnd`, `CompletedIsStored`. The properties
  speak of what was sent, and the client may be cut off between any two chunks, so the invariant is about
  `sent \o out`: it is well formed as a whole (`FormInv`) and in it as many blocks were started and
  stopped as the generator's locals say (`Under`); the log row is empty while the end is open (`EndInv`).

Model-checked only. Liveness: `EveryWaiterServed`, `AwaitingEnds`, `LockIsReleased`, `EveryRequestEnds`,
`ReleaseEnds`, `EveryTaskEnds`, `LeftRunTaken`, `BegunEnds` rest on fairness, and so on `ENABLED`, which
is out of the prover's reach. The four violations are counterexamples and need no proof. Type
correctness of `ExecutorLeases`, `UsageBooking`, `BotRuns` and `GatewayStream` is part of their
invariants and not stated as a theorem of its own.

## 5. Plan

Done: the lock, the hub, the durable turns, key rotation, executor leases, the booking of costs, the
runs of the Cursor Bot, streaming, and the proofs of all their safety properties. Next, in this order:

1. Properties that the proofs made visible: which parts of an inductive invariant are worth stating of
   the code for themselves (a pump's order, where a call may be, that a live lease is never nobody's).
2. `AgentStore`: the promise that both stores give the SDK, and the SQLite one as its implementation.
3. `GatewayKeys`: seeding, restarts and administration against authentication.
4. Pure algorithms against reference definitions: the weighted choice and scopes of `routing.ts`,
   the transcript's delta of `prompt-delta.ts`.

### Not modelled

Protocol translation, the proxy, the admin pages, settings, wording and logs (conversions and I/O of
a single request); the transport of the Cursor Bot (framing) and the exchange of its credentials;
generated protobuf code; the stateless turns of `cursor-runner.ts`, where each request has an agent
of its own and shares nothing but the executor leases; gateway keys and the agent store for now. A
change of a gateway key and the refresh of the snapshot are one step for every request, since SQLite
answers synchronously and only microtasks lie between.
