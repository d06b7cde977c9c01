# Verification of the C++ API gateway

TLA+ models of the gateway under `src/apigateway`, the TLC runs that check them,
and TLAPS proofs. `PROJECT.json` lists the runs, the mutants every property
is tested with, the source lines behind each definition, the hazards, and the
theorems.

## The system

A single reactor thread owns all client connections and sleeps on a kqueue. It
reads and parses requests and hands complete ones to a thread pool. A worker
asks the rate limiter, runs the middleware chain, routes the request to a
handler or forwards it to an upstream host, and pushes a completion that names
the connection by descriptor number only. A wake-up (EVFILT_USER) brings the
reactor back to write the response and close the connection. One request is
served per connection.

| Component | State | Operations | Talks to |
|---|---|---|---|
| Reactor (`ApiGateway`) | `connections_`, `running_`, `abandoningWork_`, kqueue filters, `completionQueue_` | `run`, readable/writable/accept handlers, `drainCompletionQueue`, `dispatchToThreadPool`, `stop`, signals, `teardown` | clients (sockets), workers (task queue, completion queue, wake channel) |
| `ThreadPool` | `tasks_`, `stopping_`, mutex, condition variable | `enqueue`, `workerLoop`, destructor | callers of `enqueue` (reactor) |
| `RateLimiter` | `tokens_`, `lastRefillTimeNs_` (atomics) | `tryAcquire`, `refill` | all workers |
| `ProxyManager`, `HttpClient`, `ConnectionPool` | idle connections per host (mutex); per call a client with descriptor, state and buffers | `forward`, `connect`/`send`/`receive`, `lease`, `release`, `reapStale`, `closeAll` | all workers, upstream hosts |
| `AsyncLogger` | two buffers, `activeIndex_`, `flushRequested_`, `stopping_` | `log`, `flush`, background loop, destructor | every thread |
| Middleware chain | list of functions, per run an index and an `advanced` flag | `add`, `run`, `Next` | worker, router (terminal step) |
| `Router` | trie of patterns, fixed once running | `addRoute`, `addProxyRoute`, `match` | worker |
| Request parsing | per connection: buffer, scan offset, expected size | `hasEnoughBytesToParse`, `tryParseRequest` | reactor |
| `HttpResponse`, JSON escaping | one object | `setStatus`, `setHeader`, `toBytes`, `appendJsonEscaped` | worker |
| `Socket`, `main` | none | system calls; construction order | all |

What is hard, and what has to be true of each part:

- **Reactor.** Interleaving of reactor, workers and clients; edge-triggered
  filters; descriptors that are closed and reused within a batch of events;
  completions addressed by number; shutdown with work in flight. It is correct
  if no client gets another's bytes, no descriptor is reused while something is
  owed to it, no edge or wake-up is lost, every request is resolved and teardown
  ends with the workers joined before the kqueue is closed.
- **Thread pool.** Notification after unlocking, tasks that enqueue tasks, a
  destructor that drains. Every accepted task runs once, wake-ups are not lost,
  the destructor returns.
- **Rate limiter.** Two atomics, two compare-and-swaps per refill, rounding,
  wrap-around. Tokens are conserved, time is turned into tokens once, the limit
  holds.
- **Upstream.** Descriptors handed to and fro between threads by number, late
  and unasked answers, timeouts, connections that die in the pool. One owner per
  descriptor, responses that belong to their requests, a bounded pool, calls
  that return.
- **Logger.** One condition variable for two kinds of waiters, two buffers that
  change roles. Each record once and in order; `flush()` means what it says.
- **Request parsing.** Limits, and a search for the end of the headers that resumes
  where the last chunk ended. How a client cuts its bytes into chunks must not
  matter, and the buffer must stay bounded.
- **Router.** A match never comes back from the literal child it has taken, and a
  registration that throws leaves nodes behind. `match()` finds the route that is
  most literal, and no registration hands the requests of a route to another.
- **Middleware and the worker's task.** User code calls `next()` as often as it
  likes, throws and catches, around a terminal step that may forward. Nothing runs
  twice, and exactly one answer is pushed, the one that is due.
- **JSON escaping.** Any bytes, on every side of the ranges of UTF-8. The result is
  the body of a JSON string that reads back as the text.

The full list is in `PROJECT.json` under "hazards", each at its line.

## Modules

| Module | Models | Notes |
|---|---|---|
| `Reactor` | the event loop, connections, kqueue, task and completion queues, shutdown | see below |
| `GatewayService` | abstract: what a client is promised | a client's request is taken in once and answered once, by its own response, and its connection closed afterwards or at shutdown |
| `TaskService` | abstract: what a thread pool promises | work is begun once and in order, nothing is taken in after the stop, threads leave an empty queue, the destructor returns last |
| `ReactorService` | refinement mappings Reactor -> GatewayService and Reactor's pool -> TaskService | `ServiceSpec` |
| `ThreadPool` | `ThreadPool.cpp/.hpp` | refines `TaskService` (`PoolSpec`); `Reactor` abstracts it to `TakeTask` and `WorkerExit` |
| `RateLimiter` | `RateLimiter.cpp` | one step per atomic operation |
| `Upstream` | `ProxyManager::forward`, `HttpClient`, `ConnectionPool` | concurrent calls |
| `AsyncLogger` | `AsyncLogger.cpp` | |
| `Router` | the trie of `Router.cpp` | registration and `match()` |
| `RequestPipeline` | `dispatchToThreadPool`'s task, `Middleware.cpp`, `routeRequest` | extends `Router`; `Reactor` abstracts it to `PushCompletion` |
| `RequestReader` | `hasEnoughBytesToParse`, `tryParseRequest` | `Reactor` abstracts it to `Verdict` |
| `JsonEscape` | `JsonEscape.cpp` | an algorithm and its reference |
| `MC*` | instances for TLC | symmetry sets only |
| `*Proofs` | TLAPS proofs | see "Proofs" |

Operators marked "Seeded fault" are plausible bugs; they are used by no module and
exist to show that each property can fail (PROJECT.json, "mutants").

### Reactor

Variables `conns`, `running`, `tasks`, `completions`, `abandoning` are the
members of the same meaning. `armed` is the set of filters registered with the
kqueue, `active` the knotes that are ready, `batch` the events `kevent()`
returned and the loop has not come to. `pc` says which handler the reactor is
in. Batches are any subset of `active` with at most `MaxEvents` members, taken in
any order. `Raise` models EV_CLEAR: a *change* activates a knote; retrieving
the event clears it. A handler that loops over system calls is one action per
call (`Receive`, `SendSome`, `Accept`...), so clients and workers run between two
calls; what it does before the next call is part of the same action.

Request bytes are a few pieces; each leaves the request incomplete, completes
it or makes it malformed (`Verdict`). What a worker computes is one step that
either gives a response or an empty one (building the 500 failed).

`accept()` may fail at any call, and every failure ends the loop as EAGAIN does
(`ApiGateway.cpp:362`): `StopAccepting` when it takes nothing (EAGAIN, EMFILE, ENFILE,
ENOBUFS), `AcceptAborted` when it takes a connection that its client has reset
in the backlog (ECONNABORTED). `stranded` remembers that connections were left there.

### ThreadPool

A critical section is one step, `wait()` is `Wait` (predicate false, sleep) and
waking up returns the worker to "locking", where it looks at the predicate again.
`Enqueue` and `NotifyOne` are two steps. Tasks may enqueue. Spurious wake-ups
happen at any time. Exceptions of a task stay in its `packaged_task`.

### RateLimiter

Each load and compare-and-swap is a step. Loads, the reloads of failed
compare-and-swaps included, may return any earlier value; this is weaker than
what relaxed atomics give (they give coherence per thread), so the invariants hold a
fortiori. A successful compare-and-swap acts on the latest value. The product of elapsed
time and rate is taken modulo `Word`; the assumption `Capacity + Word \div Second
< Word` keeps the sum `currentTokens + tokensToAdd` from wrapping (in the program:
a capacity below about 1.8 * 10^19). `granted`, `made`, `spilled` and `claimed`
are history: the numbers of the tokens that are on their way from the first
compare-and-swap to the second, so that no sum over threads is needed.

### Upstream

`call[w]` is worker `w`'s activation of `forward()`; `sock` is what is behind each
descriptor, `idle` is `idleByHost_`. A response is a sequence of items whose
last completes it (Content-Length reached), ends it and the connection
(`Connection: close`), or is malformed. A call whose response is complete is at
"release" when it keeps the connection and at "return" when it does not; both are
states of their own, so that invariants can look at the response. Upstreams answer in
parts, late, wrongly or not at all, and close or reset at any time. Waits that time
out are actions that are enabled while there is nothing to read. `lease()` is
one step under the mutex; its probes concern different connections.

**Upstreams that send what nobody asked for.** Bytes beyond Content-Length, with the
response or after it, a 408 on an idle connection, 100 Continue, chunks after a header
section (`HttpClient.cpp:372-403` takes a response without Content-Length as complete
there): all of them are `Stray`, an item that belongs to no request and comes on any open
connection at any time. Where it comes decides what becomes of it. What `recv()` reads
beyond the end of a response is dropped; what is on a pooled connection when `lease()`
probes it closes the connection. What comes after that, while a call is connecting,
sending or waiting (`Awaited`), is taken for the response to the call's request
(`HttpClient.cpp:393-404`), since HTTP/1.1 gives no means to tell; the true response may
then find the connection in the pool. The field `strayed` of a socket records
that this has happened on it. `PoolIsSound` and `ResponsesMatchRequests` exempt that
connection and nothing else: they say that everything before the probe is harmless, that late
answers are, and that the damage never leaves the connection. The exemption is the code's
exposure, not an assumption: the proofs assume nothing of what upstreams send.

### AsyncLogger

Critical sections are steps; `log()` notifies after its own. `waiting` is the
set of threads asleep on the one condition variable, so `notify_one()` may wake
the background thread or a caller of `flush()`. `Swap` is allowed from sleep (the
200 ms have passed) and when the predicate holds. After the destructor has
begun nobody logs (`main.cpp` constructs the logger first, so it goes last).

### Router

A path is the sequence of the texts between its slashes, a trie node the sequence of
the edges that lead to it, and `paramChild` the edge `AnyText`. `Register` walks
down as `resolveOrCreateNode` does: `Walked` says how far it comes before it throws,
and the nodes created until then stay. `match()` is `Found`: `Descend` takes the
literal child if there is one and never comes back. `MatchIsMostLiteral` compares it
with a definition that looks at the accepted patterns one by one.

### RequestPipeline

A program registers routes and middleware, then runs; then one request goes through
the task of a worker. `frames` is the stack of middleware whose call has not
returned, with the `advanced` flag of each call's `Next`. Middleware is user code: it
may change the request or the response, call `next()` again, throw, and catch. A
`Next` is used by the call it was given to and not after it. `routeRequest` is the
terminal step: 404, a handler (which may write all of its response, its status or body
only, or nothing, and then return or throw), a typed handler, or a proxy, whose reply goes
out as it came. Authors stand for texts: a response says who wrote its status line and
who its body, and of a middleware whether it did so before or after it called `next()`.

### RequestReader

A byte is CR, LF or another; what the header section says beyond its ends of line
(`malformed`, `contentLength`) is chosen at the start and read when the section is
complete. `Receive` is one `recv()` with `hasEnoughBytesToParse` and
`tryParseRequest`: `ResumeFrom` is where the search goes on, `Parsed` the order of the
rejections. After the verdict the client may send on (`unread`), so that
`ChunksDoNotMatter` can ask what the whole stream would have got in one piece.

### JsonEscape

What is modelled is `JsonEscape.cpp`; the JSON text that `routeRequest` puts around the
escaped path and parameters is not.
`AppendJsonEscaped` is the loop of the code over bytes as numbers. `CodePoints` decodes
UTF-8 by the value of its bits, not by the code's ranges, and `ReadJson` reads
the body of a JSON string; the one must be the other after the escape.

## Runs

| Run | Bounds | Shows |
|---|---|---|
| `reactor_safety` | 2 clients, 2 descriptors, 2 workers, 1 piece, batches of 2 | all invariants and the refinements. Two descriptors and two clients are what it takes to reuse a number while work for its old owner is under way; two workers let completions overtake one another; batches of two hold an event that an earlier one could make stale. A client may give up in the backlog, before or behind another. No shutdown request: it would multiply the states; PollFails still takes the reactor to teardown |
| `reactor_live` | 1 client, 1 descriptor, 2 workers, 2 pieces, replies of 2 units in a send buffer of 1, stop and signal | liveness. Partial reads and partial writes both happen, and a handler has to come back |
| `reactor_stop` | as above, 1 worker, stop only | violation: `stop()` before the store in `run()` is lost |
| `thread_pool` | 3 workers, 2 callers, 4 tasks | more tasks than workers and more workers than callers: queueing, sleeping and late notifications coexist; the promise of `TaskService` is kept |
| `rate_limiter` | 2 threads, capacity 2, costs 1 and 2, rate 2 per 5 units, word 12, 7 ticks | a rate that does not divide the second (rounding), a product (7 * 2) that wraps at 12, a bucket smaller than what the time is worth (spilling) |
| `upstream_safety` | 3 workers, 1 host, 3 descriptors, 3 requests, 2 idle, 2 instants, unasked items | reuse, eviction at the limit, reaping, unasked items before and after the probe. Three connections and room for two make an eviction; a descriptor closed by a failure or a probe is opened again. One host: hosts share nothing but descriptor numbers, and the theorems are for any number of hosts |
| `upstream_live` | 2 workers, 1 host, 2 descriptors, 2 requests, 1 idle, malformed replies and unasked items of every kind but the one that closes | `forward()` returns |
| `upstream_idle` | 1 worker, 1 descriptor, 2 requests, clock 0..2, timeout 1 | violation: idle connections do not age |
| `async_logger` | 3 callers, 3 records, 3 flushes | several flushes and records in each phase of the thread's round, and shutdown |
| `pipeline` | any 3 of 10 registrations, 7 requests, chains of up to 2 middleware | patterns that share prefixes, two names at one node, failures after new nodes and duplicates; three registrations are a route, a failure and a route that meets both. Two middleware are an inner and an outer one |
| `pipeline_proxied` | one proxy route, one request, one middleware | violation: what a middleware writes into the response after `next()` is not sent when the request was proxied |
| `text` | request line 2, header section 8, body 2, chunks of 1 to 4 bytes, streams of 10; texts of up to 4 bytes out of 25 | every cut of every stream: the terminator in up to 4 chunks, each limit reached, passed by one, and in one chunk with what decides. Every text of the bytes on both sides of every comparison of the escape; 4 bytes are the longest sequence of UTF-8. The two share no state and are explored one beside the other |

Deadlock is not checked: each system may stop (all clients served, all requests
forwarded, torn down). That it stops nowhere else is what the liveness properties
say.

Bounds on counters: `MaxPieces`, `Asks`, `MaxTasks`, `Requests` (each forwarded
once), `MaxTime`, `MaxRecords`, `MaxFlushes`, `MaxRegistrations`,
`MaxStream`, `MaxLength`. `kMaxMiddleware` and the limits of the reader are the code's, scaled down. One part comes before the end of
an upstream's response. One unasked item is on its way at a time, and none comes on a connection
on which one has been taken for a response: nothing is claimed of that connection any more.

## Fairness

Weak fairness of threads that can go on, and nothing else.

- Reactor: `WF(ReactorStep)` and `WF(WorkerStep(w))`. Handlers terminate and the
  operating system schedules. `Poll` with an empty result (the timeout) is part
  of `ReactorStep`. Clients, signals and callers of `stop()` owe nothing.
- ThreadPool: `WF` per worker, per pending `notify_one()`, for the destructor.
  A task comes to an end (`FinishTask`). Sleep ends only by a notification.
- Upstream: `WF(CallStep(w))`; each wait is a `poll()` with a timeout, hence
  some step of the call is always enabled. Upstreams owe nothing.
- AsyncLogger: `WF` for the background thread *while it is awake*, for callers
  and the destructor; nothing is assumed of the 200 ms, which shows that
  they are not needed.
- RateLimiter has no liveness property: its loops are lock-free, not wait-free,
  and a thread may starve under contention.

## Proofs

For every value of the constants that satisfies the modules' named
assumptions (finite sets of threads and descriptors, positive sizes, markers such as `NoFd`
outside the sets they mark).

`ReactorProofs`: `TypeCorrect`; then `Inv == TypeInv /\ Filters /\ Work`.
`RepliesReachTheirClient` is not inductive: a reply is right because the
connection's write buffer answers its own client (`ReplyOwner`), which holds
because the completion at the head of the queue is for a connection that still
awaits it (`WorkMatchesConnection`), which holds because no handler that could
close a connection runs for one whose filters are gone (`OneModePerConnection`
and `EventsAreCurrent`, the parts of `EventsFollowMode`; `ActiveIsArmed`,
`CurrentEventTaken`), and there is never a second piece of work for a descriptor
(`OneResponsePerConnection`). `Joining` gives
`KqueueIsClosedLast` (a theorem only: what the run checks of it is part of `ServiceSpec`, the pool is
joined before teardown ends), `Awake` gives `CompletionsAreAnnounced`. The other direction of
`WorkMatchesConnection`, that a connection which awaits a completion has one on its way
(`AwaitedIsOnItsWay`), is preserved on top of `Inv`: a task moves from the queue to a worker and
on to the completion queue, and until the pool is abandoned nothing else takes it away.

`Owners` (a client has one connection) on top of `Inv` gives `EdgesAreKept` and
`BacklogIsAnnounced`: a connection in the backlog has an event ahead, unless an `accept()` has failed, for
whatever reason, and no client has connected since. `ReactorImplementsService` has two parts. Each action is mapped to an
action of `GatewayService` or a stutter; and as far as the task queue and the workers go, to one of
`TaskService` or a stutter.

The thread pool is proved once and used once. `PoolImplementsService` says that `ThreadPool`,
with its mutex, condition variable and destructor, implements `TaskService`; the mapping forgets
who sleeps and who is to be notified. On the other side `WorkersAreThePool` says that
`TakeTask` and `WorkerExit` of `Reactor` are `Begin` and `Leave` of `TaskService` and nothing
else: the same guard, the same effect. So the reactor's proofs consider every way of taking work and of
leaving that a pool which keeps the promise may have, and no other.

`ThreadPoolProofs`: `Ordered` (queue follows what was begun), `Progress` (begun
is running or finished), `Ending` (a worker ends only when nothing is left)
give `TasksRunOnce`. `WakeUpsAreKept` counts: sleeping implies that the queue is no
longer than the workers awake plus the notifications to come, and each step
changes both sides by at most one in the right direction. `PoolImplementsService` maps each
critical section to one step of `TaskService`; that the destructor returns last is the join.

`RateLimiterProofs`: `Batches` (the tokens claimed and not yet credited are disjoint
finite sets of numbers up to `made`, one set per thread) turns the sum over threads
into one cardinality that a claim raises and a credit lowers by `toAdd`; that gives
`TokensAreConserved`. The arithmetic is in one lemma, `Worth`: what a refill claims has
passed, costs no less than its tokens, and leaves less than a token and a rounding
error unless the product wrapped. With `Readings` (what a call has read is not ahead
of the clock or the timestamp) it gives `ClaimsAreDisjoint`; conservation and disjoint
claims give `LimitHolds`; `Converted` (the timestamp only moves forward, so what
is left only shrinks) gives `NoTimeIsWasted`. The order in which relaxed loads
return values plays no part.

`AsyncLoggerProofs`: `InOrder` (written, in the thread's hands, in the active buffer:
concatenated they are 1..accepted) with `Drained` (the thread's hands are empty
between its check and the next swap, everything is after the destructor) gives
`RecordsAreKept`. `Sleepers` (callers sleep only while a flush is asked for, the thread
only while none is) is why a `notify_one()` cannot go astray; with `Announced` it gives
`WakeUpsAreKept`. `Answered` (a caller whose request has been answered has its records
written) gives `FlushesAreComplete`.

`RequestPipelineProofs`: `Stack` (what has run is 1, 2, ... without a gap, at least
as deep as the stack, and a frame whose `advanced` is unset is the last thing that ran)
gives `RunsOnce`: `next()` on an unadvanced frame can only reach what has not run. `Work`
(the response's authors, the untouched one included, are among `Authors`, `proxied` is the route that is due) holds on
as more runs (`DueIsKept`) and with `Completion` gives `AnswersAreDue`.

`UpstreamProofs`: `Owners` (what a call holds and what the pools hold are different
descriptors with the right host) and `Pools` (bounded, in order of use, without
repetition) are preserved together with the types: `Shape`. `erase(remove_if)` keeps
a subsequence (`Kept`); that there is an n-th fresh entry is a counting argument
(`Nth`, `Ranks`). `Exchange` adds what is in flight: unless something has
strayed onto its connection, what comes first in the inbox of a call that waits answers its request, what
ends a response leaves nothing pending, and a call that has not sent yet finds neither bytes nor answers
outstanding (the probe); pooled connections have nothing pending. It gives `PoolStaysSound` and
`ResponsesMatch`. Of `Replies` and `Unasked` nothing is assumed but the kinds of items there are.

`RequestPipelineProofs` also proves `Router`. `Registered` (every accepted pattern has all its
nodes in the trie, their names are its own, and handlers and accepted registrations correspond)
is kept by registrations that succeed and by those that throw half way. By induction
on the walk (`FitsIsReached`), the walk of `match()` ends at the last node of a pattern exactly when
the pattern fits; that gives `MatchesArePromised`, and with "a trie only grows" `RoutesStay`.

`RequestReaderProofs`: more bytes do not move the first end of line or of the section (`FirstStays`), so a
parsed section keeps its verdict (`ParsedStays`), and an unfinished one that is refused is refused, with
the exception named, whatever follows (`UnfinishedStays`). The search that resumes three bytes
back finds what a search of everything would (`EnoughIsEnough`). `Waiting`, `Decided` and `Bounded`
together are inductive and give `VerdictsHold` and `BufferStaysBounded`.

Where a proof needs induction over numbers, it takes the least counterexample of a *set* of numbers from
the library's theorem on well-founded relations (`Least`, `AllNumbers`).

`JsonEscapeProofs`: the loop of the code and the two readers it is compared with are recursive functions
over a sequence of unknown length. `Rounds` is the loop they share; by induction on the number of bytes at
the end (`OnwardExists`) it has a value, and each round adds its own share (`RoundsUnfold`). What
`utf8SequenceLength` accepts with its tables of ranges is what UTF-8 defines by the value of the bits:
one lemma per length, by the intervals of bytes that give the values that need that many (`TwoBytes`,
`ThreeBytes`, `FourBytes`, `Lengths`). A round appends one token of JSON, which says what the text says
(`TokenIs`), wherever it stands (`SameBytes`). An induction from the end of the text backwards
(`ReadsBackEverywhere`) gives `EscapedTextTheorem`.

Every safety property of the passing runs is a theorem. Only model-checked: the liveness properties
(`EveryRequestIsResolved`, `PeerEndIsNoticed`, `ShutdownCompletes`, `EveryTaskRuns`, `DestructorReturns`,
`ForwardReturns`, `FlushReturns`), because fairness is beyond the prover.

## Disagreements found

- `reactor_stop` / `StopEndsRun`: `run()` stores `true` into `running_`
  unconditionally, so a thread-safe `stop()` that comes just before is lost.
- `upstream_idle` / `LeaseIsFresh`: the comment at `ApiGateway.cpp:126` says a
  health probe on `lease()` considers an over-age connection stale; it does not,
  and nothing calls `reapStale()`.
- `pipeline_proxied` / `LaterChangesAreSent`: `Middleware.hpp:42-43` says that a middleware
  may change the response after `next()`; of a proxied request the worker sends the upstream's bytes
  (`ApiGateway.cpp:772`), and the change is dropped. `ApiGateway.hpp:103-105` knows that the response
  "only mirrors" the reply, on the implementer's side.

Observed and not promised otherwise: an end of stream that arrives together
with the last bytes of an incomplete request is not noticed until teardown
(`ApiGateway.cpp:458`, the edge is used up by the short read); connections left in the
backlog by an `accept()` that failed wait until the next client connects; what an upstream sends
unasked after the probe of `lease()` is taken for the next response (above); `maxIdlePerHost == 0` would
dereference the end of an empty vector. A registration that throws may hide an
older route, though never redirect it: the literal nodes it has created stay, and
`match()` does not come back from them (`Router.cpp:103`, `:241`).
When a middleware catches what a handler throws, what the handler had written
of its response is sent. A request line too long may be told (414) before, or in place of,
a header section too large (431), depending on how the bytes arrive.

## Not modelled

The spelling of what is parsed and serialized: methods, header names and values, the
status line, log lines; their verdicts are inputs of the models. Header rewriting
of forwarded requests. A `Next` that middleware keeps and calls after its own call
has returned. Routes registered while the reactor runs. Socket options and address
resolution. `setNonBlocking()` throwing after `accept()`. Data races outside the
documented use (`use()` or `setLogFile()` while running). Memory exhaustion, except where
the code handles it (the last-resort 500). `main.cpp` constructs the parts and
calls `run()`; the handler dispatch test is a test.

## Plan

1. Composition, continued: `RequestReader` and `RequestPipeline` give the verdicts and responses that
   `Reactor` takes as given, as `ThreadPool` does its workers.
2. `HttpClient`'s response parser with its limits, byte by byte, as `RequestReader` does for requests;
   with it, `Stray` could say which of the unasked bytes make a response at all.
3. The safety halves of the liveness properties, where a step can be shown to remain possible (a measure
   that each fair step lowers), as action properties with proofs.
