------------------------------ MODULE Reactor ------------------------------
(***************************************************************************)
(* The event loop of ApiGateway: one reactor thread that owns every client *)
(* connection, the kqueue it sleeps on, and the worker threads it hands    *)
(* complete requests to.  A completion comes back carrying nothing but the *)
(* descriptor number of the connection it is for, so that number must not  *)
(* have been reused meanwhile; every filter is edge-triggered (EV_CLEAR),  *)
(* so no edge may be dropped while there is still something to read; and   *)
(* teardown must not pull the kqueue from under a worker.                  *)
(*                                                                         *)
(* What a worker does between taking a task and pushing its completion is  *)
(* one step here (PushCompletion).  A request is a few pieces, each of which      *)
(* leaves the request incomplete, completes it or makes it malformed.      *)
(***************************************************************************)
EXTENDS Naturals, Sequences, FiniteSets, Functions

CONSTANTS
    Fds,        (* descriptors the process may have open for clients        *)
    Clients,    (* client sockets; each one connects at most once           *)
    Workers,    (* the threads of the ThreadPool                            *)
    NoFd,       (* ident of the events that are not about a client socket   *)
    NoClient,   (* owner of a write buffer nobody has filled yet            *)
    MaxPieces,  (* bound: pieces a client sends                             *)
    ReplySize,  (* units a serialized reply takes in a socket's send buffer *)
    SendRoom,   (* units the send buffer of a socket holds                  *)
    MaxEvents,  (* kMaxEventsPerPoll                                        *)
    Asks        (* bound: the ways a shutdown is asked for, once each       *)

ASSUME ReactorAssumption ==
    /\ NoFd \notin Fds
    /\ NoClient \notin Clients
    /\ IsFiniteSet(Fds)
    /\ Workers # {}          \* ThreadPool(0) starts one thread
    /\ MaxPieces \in Nat
    /\ ReplySize \in Nat \ {0}
    /\ SendRoom \in Nat \ {0}
    /\ MaxEvents \in Nat \ {0}
    /\ Asks \subseteq {"stop", "signal"}

VARIABLES
    (* the client's end of each connection *)
    phase,      \* "away" | "backlog" | "open" | "closed", per client
    unread,     \* pieces sent and not yet received by the gateway
    sent,       \* number of pieces sent
    fin,        \* the client has shut down its sending side
    reset,      \* the client has reset the connection
    sndbuf,     \* units of the reply in the socket's send buffer
    replies,    \* for whose requests the bytes written to this client were made
    backlog,    \* connections the listening socket holds, oldest first
    (* the kqueue *)
    armed,      \* client-socket filters registered with it
    active,     \* events waiting to be retrieved
    kqOpen,
    (* the reactor thread and the members only it touches *)
    pc, cur, batch, conns,
    running,
    stranded,   \* history: accept() failed with connections left, nobody came since
    (* shared with the workers *)
    tasks, completions, worker, abandoning, stopping,
    asked       \* history: the shutdowns asked for

netVars    == <<phase, unread, sent, fin, reset, sndbuf, replies, backlog>>
kqVars     == <<armed, active, kqOpen>>
loopVars   == <<pc, cur, batch, running, stranded>>
poolVars   == <<tasks, completions, worker, abandoning, stopping>>
vars       == <<netVars, kqVars, loopVars, conns, poolVars, asked>>

-----------------------------------------------------------------------------
Piece      == {"part", "last", "bad"}
Event      == {"READ", "WRITE", "LISTEN", "USER", "SIGNAL"} \X (Fds \cup {NoFd})
Listen     == <<"LISTEN", NoFd>>
User       == <<"USER", NoFd>>
Signal     == <<"SIGNAL", NoFd>>

\* ApiGateway::Connection: writeBuffer is abstracted to the request it answers
\* and, with writeOffset, to the number of units still unsent.
Connection == [client : Clients, awaiting : BOOLEAN, unsent : 0..ReplySize,
               replyTo : Clients \cup {NoClient}]
\* A task and a CompletionResult name their connection by descriptor only; the
\* client is what the request bytes (and so the response) belong to.
Task       == [fd : Fds, client : Clients]
Result     == [fd : Fds, client : Clients, size : {0, ReplySize}]
NoTask     == [fd |-> NoFd, client |-> NoClient]
WorkerState == [at : {"idle", "taken", "running", "wake", "gone"}, task : Task \cup {NoTask}]

FdOf(c)    == {f \in DOMAIN conns : conns[f].client = c}
\* Seeded fault: a failed accept() is not recognised and -1 becomes a key.
FreeFdsOrNone == (Fds \ DOMAIN conns) \cup {NoFd}
FreeFds    == Fds \ DOMAIN conns
\* Seeded fault: the end of the stream does not wake the handler.
ReadableBytesOnly(c) == unread[c] # <<>> \/ reset[c]
Readable(c) == unread[c] # <<>> \/ fin[c] \/ reset[c]
Writable(c) == sndbuf[c] < SendRoom \/ reset[c]

\* A state change of client c's socket activates the knotes of these kinds that
\* are registered for it.
Raise(c, kinds) == active \cup (armed \cap (kinds \X FdOf(c)))

\* registerEvent(f, READ, EV_DELETE) and registerEvent(f, WRITE, EV_ADD): a
\* knote added while its condition already holds is active at once.
Rearm(f, w) ==
    /\ armed'  = (armed \ {<<"READ", f>>}) \cup {<<"WRITE", f>>}
    /\ active' = (active \ {<<"READ", f>>})
                     \cup (IF w THEN {<<"WRITE", f>>} ELSE {})

Disarm(f) ==
    /\ armed'  = armed \ ({"READ", "WRITE"} \X {f})
    /\ active' = active \ ({"READ", "WRITE"} \X {f})

-----------------------------------------------------------------------------
(* Clients and the network.                                                *)

Connect(c) ==
    /\ kqOpen /\ phase[c] = "away"
    /\ phase' = [phase EXCEPT ![c] = "backlog"]
    /\ backlog' = Append(backlog, c)
    /\ active' = active \cup {Listen}
    /\ stranded' = FALSE
    /\ UNCHANGED <<unread, sent, fin, reset, sndbuf, replies, armed, kqOpen, pc, cur,
                   batch, running, conns, poolVars, asked>>

SendPiece(c, p) ==
    /\ phase[c] \in {"backlog", "open"} /\ ~fin[c] /\ ~reset[c]
    /\ sent[c] < MaxPieces
    /\ sent' = [sent EXCEPT ![c] = @ + 1]
    /\ unread' = [unread EXCEPT ![c] = Append(@, p)]
    /\ active' = Raise(c, {"READ"})
    /\ UNCHANGED <<phase, fin, reset, sndbuf, replies, backlog, armed, kqOpen,
                   loopVars, conns, poolVars, asked>>

ShutDownSending(c) ==
    /\ phase[c] \in {"backlog", "open"} /\ ~fin[c] /\ ~reset[c]
    /\ fin' = [fin EXCEPT ![c] = TRUE]
    /\ active' = Raise(c, {"READ"})
    /\ UNCHANGED <<phase, unread, sent, reset, sndbuf, replies, backlog, armed,
                   kqOpen, loopVars, conns, poolVars, asked>>

\* A reset discards what the gateway has not read and wakes both filters.
ResetConnection(c) ==
    /\ phase[c] \in {"backlog", "open"} /\ ~reset[c]
    /\ reset' = [reset EXCEPT ![c] = TRUE]
    /\ unread' = [unread EXCEPT ![c] = <<>>]
    /\ active' = Raise(c, {"READ", "WRITE"})
    /\ UNCHANGED <<phase, sent, fin, sndbuf, replies, backlog, armed, kqOpen,
                   loopVars, conns, poolVars, asked>>

ReadReply(c) ==
    /\ phase[c] = "open" /\ ~reset[c] /\ sndbuf[c] > 0
    /\ sndbuf' = [sndbuf EXCEPT ![c] = @ - 1]
    /\ active' = Raise(c, {"WRITE"})
    /\ UNCHANGED <<phase, unread, sent, fin, reset, replies, backlog, armed,
                   kqOpen, loopVars, conns, poolVars, asked>>

-----------------------------------------------------------------------------
(* run(): the loop.                                                        *)

Run ==
    /\ pc = "constructed"
    /\ running' = TRUE
    /\ pc' = "poll"
    /\ UNCHANGED <<netVars, kqVars, cur, batch, stranded, conns, poolVars, asked>>

LeaveLoop ==
    /\ pc = "poll" /\ ~running
    /\ pc' = "exited"
    /\ UNCHANGED <<netVars, kqVars, cur, batch, running, stranded, conns, poolVars, asked>>

\* kevent() returns at most MaxEvents of the waiting events, none when it times
\* out; EV_CLEAR resets what it returns.
Batches == {b \in SUBSET active :
              /\ Cardinality(b) <= MaxEvents
              /\ Cardinality(b) < MaxEvents => b = active}

Poll ==
    /\ pc = "poll" /\ running
    /\ \E b \in Batches : batch' = b /\ active' = active \ b
    /\ pc' = "events"
    /\ UNCHANGED <<netVars, armed, kqOpen, cur, running, stranded, conns, poolVars, asked>>

\* kevent() fails with anything but EINTR: run() throws.
PollFails ==
    /\ pc = "poll" /\ running
    /\ pc' = "exited"
    /\ UNCHANGED <<netVars, kqVars, cur, batch, running, stranded, conns, poolVars, asked>>

\* The loop over the batch picks the events in any order.
NextEvent(e) ==
    /\ pc = "events" /\ e \in batch
    /\ batch' = batch \ {e}

TakeUser ==
    /\ NextEvent(User)
    /\ pc' = "drainEvent"
    /\ UNCHANGED <<netVars, kqVars, cur, running, stranded, conns, poolVars, asked>>

\* onShutdownSignal(): the rest of the batch is still processed.
TakeSignal ==
    /\ NextEvent(Signal)
    /\ running' = FALSE
    /\ UNCHANGED <<netVars, kqVars, pc, cur, stranded, conns, poolVars, asked>>

TakeListen ==
    /\ NextEvent(Listen)
    /\ pc' = "accepting"
    /\ UNCHANGED <<netVars, kqVars, cur, running, stranded, conns, poolVars, asked>>

TakeRead(f) ==
    /\ NextEvent(<<"READ", f>>)
    /\ IF f \in DOMAIN conns /\ ~conns[f].awaiting
       THEN pc' = "reading" /\ cur' = f
       ELSE UNCHANGED <<pc, cur>>
    /\ UNCHANGED <<netVars, kqVars, running, stranded, conns, poolVars, asked>>

TakeWrite(f) ==
    /\ NextEvent(<<"WRITE", f>>)
    /\ IF f \in DOMAIN conns
       THEN pc' = "writing" /\ cur' = f
       ELSE UNCHANGED <<pc, cur>>
    /\ UNCHANGED <<netVars, kqVars, running, stranded, conns, poolVars, asked>>

EndOfBatch ==
    /\ pc = "events" /\ batch = {}
    /\ pc' = "drain"
    /\ UNCHANGED <<netVars, kqVars, cur, batch, running, stranded, conns, poolVars, asked>>

BackToEvents == pc' = "events" /\ cur' = NoFd

-----------------------------------------------------------------------------
(* onListenReadable(): accept until accept() fails.                        *)

NewConnection(c) == [client |-> c, awaiting |-> FALSE, unsent |-> 0, replyTo |-> NoClient]

\* Seeded fault: one accept() per event.
AcceptOne ==
    /\ pc = "accepting" /\ backlog # <<>>
    /\ \E f \in FreeFds :
         LET c == Head(backlog) IN
         /\ conns' = [g \in DOMAIN conns \cup {f} |->
                        IF g = f THEN NewConnection(c) ELSE conns[g]]
         /\ phase' = [phase EXCEPT ![c] = "open"]
         /\ backlog' = Tail(backlog)
         /\ armed' = armed \cup {<<"READ", f>>}
         /\ active' = IF Readable(c) THEN active \cup {<<"READ", f>>} ELSE active
    /\ pc' = "events"
    /\ UNCHANGED <<unread, sent, fin, reset, sndbuf, replies, kqOpen, cur, batch,
                   running, stranded, poolVars, asked>>

Accept ==
    /\ pc = "accepting" /\ backlog # <<>>
    /\ \E f \in FreeFds :
         LET c == Head(backlog) IN
         /\ conns' = [g \in DOMAIN conns \cup {f} |->
                        IF g = f THEN NewConnection(c) ELSE conns[g]]
         /\ phase' = [phase EXCEPT ![c] = "open"]
         /\ backlog' = Tail(backlog)
         /\ armed' = armed \cup {<<"READ", f>>}
         /\ active' = IF Readable(c) THEN active \cup {<<"READ", f>>} ELSE active
    /\ UNCHANGED <<unread, sent, fin, reset, sndbuf, replies, kqOpen, loopVars,
                   poolVars, asked>>

\* accept() returns -1.  EAGAIN, EMFILE, ENFILE, ENOBUFS: the handler does not
\* tell them apart, and whoever waits is left waiting.
StopAccepting ==
    /\ pc = "accepting"
    /\ stranded' = (backlog # <<>>)
    /\ pc' = "events"
    /\ UNCHANGED <<netVars, kqVars, cur, batch, running, conns, poolVars, asked>>

\* ECONNABORTED: the connection that was next has been reset and is gone.
AcceptAborted ==
    /\ pc = "accepting" /\ backlog # <<>> /\ reset[Head(backlog)]
    /\ phase' = [phase EXCEPT ![Head(backlog)] = "closed"]
    /\ backlog' = Tail(backlog)
    /\ stranded' = (backlog' # <<>>)
    /\ pc' = "events"
    /\ UNCHANGED <<unread, sent, fin, reset, sndbuf, replies, kqVars, cur, batch,
                   running, conns, poolVars, asked>>

-----------------------------------------------------------------------------
(* closeConnection(), and the handlers of a client socket.                 *)

CloseConnection(f) ==
    LET c == conns[f].client IN
    /\ Disarm(f)
    /\ conns' = Restrict(conns, DOMAIN conns \ {f})
    /\ phase' = [phase EXCEPT ![c] = "closed"]
    /\ unread' = [unread EXCEPT ![c] = <<>>]
    /\ sndbuf' = [sndbuf EXCEPT ![c] = 0]
    /\ sent' = [sent EXCEPT ![c] = 0]
    /\ fin' = [fin EXCEPT ![c] = FALSE]
    /\ reset' = [reset EXCEPT ![c] = FALSE]

\* What the buffer amounts to once these pieces have been appended to it: the
\* first one that is not a mere part decides.
Verdict(pieces) ==
    LET decided == SelectSeq(pieces, LAMBDA p : p # "part")
    IN IF decided = <<>> THEN "part" ELSE Head(decided)

\* Seeded faults: the READ filter stays registered; the WRITE filter is registered
\* before there is a response.
DispatchKeepingRead(f) ==
    /\ conns' = [conns EXCEPT ![f].awaiting = TRUE]
    /\ tasks' = Append(tasks, [fd |-> f, client |-> conns[f].client])
    /\ BackToEvents
    /\ UNCHANGED <<armed, active>>
DispatchArmingWrite(f) ==
    /\ conns' = [conns EXCEPT ![f].awaiting = TRUE]
    /\ Rearm(f, TRUE)
    /\ tasks' = Append(tasks, [fd |-> f, client |-> conns[f].client])
    /\ BackToEvents

\* dispatchToThreadPool(): from here on only the completion touches f.
Dispatch(f) ==
    /\ conns' = [conns EXCEPT ![f].awaiting = TRUE]
    /\ armed' = armed \ {<<"READ", f>>}
    /\ active' = active \ {<<"READ", f>>}
    /\ tasks' = Append(tasks, [fd |-> f, client |-> conns[f].client])
    /\ BackToEvents

\* rejectRequest(): 400, 413, 414 or 431 without the help of a worker.
Reject(f) ==
    /\ conns' = [conns EXCEPT ![f].unsent = ReplySize, ![f].replyTo = conns[f].client]
    /\ Rearm(f, Writable(conns[f].client))
    /\ BackToEvents
    /\ UNCHANGED tasks

\* Seeded fault: one recv() per event, whether or not it filled the buffer.
KeepReadingOnce(full) ==
    /\ BackToEvents
    /\ UNCHANGED <<conns, armed, active, tasks>>

\* A short read ends the handler, a full one goes round the loop again.
KeepReading(full) ==
    /\ IF full THEN UNCHANGED <<pc, cur>> ELSE BackToEvents
    /\ UNCHANGED <<conns, armed, active, tasks>>

\* recv() returns all there is, unless that fills the buffer.
Receive ==
    /\ pc = "reading"
    /\ LET f == cur
           c == conns[f].client
       IN /\ ~reset[c]
          /\ \E k \in 1 .. Len(unread[c]), full \in BOOLEAN :
               /\ k < Len(unread[c]) => full
               /\ unread' = [unread EXCEPT ![c] = SubSeq(@, k + 1, Len(@))]
               /\ LET v == Verdict(SubSeq(unread[c], 1, k)) IN
                  \/ v = "last" /\ Dispatch(f)
                  \/ v = "bad"  /\ Reject(f)
                  \/ v = "part" /\ KeepReading(full)
    /\ UNCHANGED <<phase, sent, fin, reset, sndbuf, replies, backlog, kqOpen,
                   batch, running, stranded, completions, worker, abandoning,
                   stopping, asked>>

\* recv() returns 0 or an error other than EAGAIN.
ReceiveEnd ==
    /\ pc = "reading"
    /\ LET c == conns[cur].client IN reset[c] \/ (unread[c] = <<>> /\ fin[c])
    /\ CloseConnection(cur)
    /\ BackToEvents
    /\ UNCHANGED <<replies, backlog, kqOpen, batch, running, stranded, poolVars, asked>>

ReceiveAgain ==
    /\ pc = "reading"
    /\ ~Readable(conns[cur].client)
    /\ BackToEvents
    /\ UNCHANGED <<netVars, kqVars, batch, running, stranded, conns, poolVars, asked>>

\* onConnectionWritable(): one send() that takes a unit.
SendSome ==
    /\ pc = "writing" /\ conns[cur].unsent > 0
    /\ LET c == conns[cur].client IN
       /\ ~reset[c] /\ sndbuf[c] < SendRoom
       /\ sndbuf' = [sndbuf EXCEPT ![c] = @ + 1]
       /\ replies' = [replies EXCEPT ![c] = @ \cup {conns[cur].replyTo}]
    /\ conns' = [conns EXCEPT ![cur].unsent = @ - 1]
    /\ UNCHANGED <<phase, unread, sent, fin, reset, backlog, kqVars, loopVars,
                   poolVars, asked>>

SendAgain ==
    /\ pc = "writing" /\ conns[cur].unsent > 0
    /\ ~Writable(conns[cur].client)
    /\ BackToEvents
    /\ UNCHANGED <<netVars, kqVars, batch, running, stranded, conns, poolVars, asked>>

\* Everything sent, or send() failed.
SendEnd ==
    /\ pc = "writing"
    /\ conns[cur].unsent = 0 \/ reset[conns[cur].client]
    /\ CloseConnection(cur)
    /\ BackToEvents
    /\ UNCHANGED <<replies, backlog, kqOpen, batch, running, stranded, poolVars, asked>>

-----------------------------------------------------------------------------
(* drainCompletionQueue(), after a wake-up or at the end of a batch.       *)

DrainOne ==
    /\ pc \in {"drainEvent", "drain"} /\ completions # <<>>
    /\ completions' = Tail(completions)
    /\ LET r == Head(completions) IN
       IF r.fd \in DOMAIN conns
       THEN /\ conns' = [conns EXCEPT ![r.fd] = [@ EXCEPT !.awaiting = FALSE,
                                                         !.unsent = r.size,
                                                         !.replyTo = r.client]]
            /\ armed' = armed \cup {<<"WRITE", r.fd>>}
            /\ active' = IF Writable(conns[r.fd].client)
                         THEN active \cup {<<"WRITE", r.fd>>} ELSE active
       ELSE UNCHANGED <<conns, armed, active>>
    /\ UNCHANGED <<netVars, kqOpen, loopVars, tasks, worker, abandoning, stopping, asked>>

DrainEnd ==
    /\ pc \in {"drainEvent", "drain"} /\ completions = <<>>
    /\ pc' = IF pc = "drain" THEN "poll" ELSE "events"
    /\ UNCHANGED <<netVars, kqVars, cur, batch, running, stranded, conns, poolVars, asked>>

-----------------------------------------------------------------------------
(* A worker thread: the pool's loop around the task of dispatchToThreadPool. *)

\* Seeded fault: front() without pop().
TakeTaskNoPop(w) ==
    /\ worker[w].at = "idle" /\ tasks # <<>>
    /\ worker' = [worker EXCEPT ![w] = [at |-> "taken", task |-> Head(tasks)]]
    /\ UNCHANGED <<netVars, kqVars, loopVars, conns, tasks, completions, abandoning,
                   stopping, asked>>

TakeTask(w) ==
    /\ worker[w].at = "idle" /\ tasks # <<>>
    /\ worker' = [worker EXCEPT ![w] = [at |-> "taken", task |-> Head(tasks)]]
    /\ tasks' = Tail(tasks)
    /\ UNCHANGED <<netVars, kqVars, loopVars, conns, completions, abandoning,
                   stopping, asked>>

DropTask(w) ==
    /\ worker[w].at = "taken" /\ abandoning
    /\ worker' = [worker EXCEPT ![w] = [at |-> "idle", task |-> NoTask]]
    /\ UNCHANGED <<netVars, kqVars, loopVars, conns, tasks, completions, abandoning,
                   stopping, asked>>

BeginTask(w) ==
    /\ worker[w].at = "taken" /\ ~abandoning
    /\ worker' = [worker EXCEPT ![w].at = "running"]
    /\ UNCHANGED <<netVars, kqVars, loopVars, conns, tasks, completions, abandoning,
                   stopping, asked>>

\* Seeded fault: an exception of the handler escapes the task.
PushCompletionOrThrow(w) ==
    /\ worker[w].at = "running"
    /\ worker' = [worker EXCEPT ![w] = [at |-> "idle", task |-> NoTask]]
    /\ UNCHANGED <<netVars, kqVars, loopVars, conns, tasks, completions, abandoning,
                   stopping, asked>>

\* The request has been handled; the response is empty when not even the 500
\* could be built.
PushCompletion(w) ==
    /\ worker[w].at = "running"
    /\ \E n \in {0, ReplySize} :
         completions' = Append(completions, [fd |-> worker[w].task.fd,
                                             client |-> worker[w].task.client,
                                             size |-> n])
    /\ worker' = [worker EXCEPT ![w].at = "wake"]
    /\ UNCHANGED <<netVars, kqVars, loopVars, conns, tasks, abandoning, stopping, asked>>

\* Seeded fault: the worker does not wake the reactor.
TriggerWakeMissing(w) ==
    /\ worker[w].at = "wake"
    /\ worker' = [worker EXCEPT ![w] = [at |-> "idle", task |-> NoTask]]
    /\ UNCHANGED <<netVars, kqVars, loopVars, conns, tasks, completions, abandoning,
                   stopping, asked>>

TriggerWake(w) ==
    /\ worker[w].at = "wake"
    /\ active' = active \cup {User}
    /\ worker' = [worker EXCEPT ![w] = [at |-> "idle", task |-> NoTask]]
    /\ UNCHANGED <<netVars, armed, kqOpen, loopVars, conns, tasks, completions,
                   abandoning, stopping, asked>>

WorkerExit(w) ==
    /\ worker[w].at = "idle" /\ stopping /\ tasks = <<>>
    /\ worker' = [worker EXCEPT ![w].at = "gone"]
    /\ UNCHANGED <<netVars, kqVars, loopVars, conns, tasks, completions, abandoning,
                   stopping, asked>>

-----------------------------------------------------------------------------
(* Shutting down.                                                          *)

\* stop(), from any thread while the gateway exists.
Stop ==
    /\ pc \notin {"joining", "tornDown"}
    /\ "stop" \in Asks \ asked
    /\ asked' = asked \cup {"stop"}
    /\ running' = FALSE
    /\ active' = active \cup {User}
    /\ UNCHANGED <<netVars, armed, kqOpen, pc, cur, batch, stranded, conns, poolVars>>

\* SIGINT or SIGTERM while its disposition is SIG_IGN, which it is until teardown
\* restores the default.
DeliverSignal ==
    /\ pc \notin {"joining", "tornDown"}
    /\ "signal" \in Asks \ asked
    /\ asked' = asked \cup {"signal"}
    /\ active' = active \cup {Signal}
    /\ UNCHANGED <<netVars, armed, kqOpen, loopVars, conns, poolVars>>

\* Seeded fault: the pool is not told to stop before its threads are joined.
BeginTeardownOnly ==
    /\ pc \in {"constructed", "exited"}
    /\ running' = FALSE /\ abandoning' = TRUE
    /\ pc' = "joining"
    /\ UNCHANGED <<netVars, kqVars, cur, batch, stranded, conns, tasks, completions,
                   worker, stopping, asked>>

\* ~ApiGateway(), up to the join of the workers.
BeginTeardown ==
    /\ pc \in {"constructed", "exited"}
    /\ running' = FALSE
    /\ abandoning' = TRUE
    /\ stopping' = TRUE
    /\ pc' = "joining"
    /\ UNCHANGED <<netVars, kqVars, cur, batch, stranded, conns, tasks, completions,
                   worker, asked>>

\* Seeded fault: the threads are detached instead of joined.
NotJoined == TRUE
AllJoined == \A w \in Workers : worker[w].at = "gone"

\* teardown() after threadPool_.reset(): close the connections, the listening
\* socket and the kqueue.
EndTeardown ==
    /\ pc = "joining" /\ AllJoined
    /\ conns' = Restrict(conns, {})
    /\ phase' = [c \in Clients |-> IF phase[c] = "away" THEN "away" ELSE "closed"]
    /\ backlog' = <<>>
    /\ unread' = [c \in Clients |-> <<>>]
    /\ sndbuf' = [c \in Clients |-> 0]
    /\ sent' = [c \in Clients |-> 0]
    /\ fin' = [c \in Clients |-> FALSE]
    /\ reset' = [c \in Clients |-> FALSE]
    /\ armed' = {} /\ active' = {}
    /\ kqOpen' = FALSE
    /\ pc' = "tornDown"
    /\ UNCHANGED <<replies, cur, batch, running, stranded, poolVars, asked>>

-----------------------------------------------------------------------------
Init ==
    /\ phase = [c \in Clients |-> "away"]
    /\ unread = [c \in Clients |-> <<>>]
    /\ sent = [c \in Clients |-> 0]
    /\ fin = [c \in Clients |-> FALSE]
    /\ reset = [c \in Clients |-> FALSE]
    /\ sndbuf = [c \in Clients |-> 0]
    /\ replies = [c \in Clients |-> {}]
    /\ backlog = <<>>
    /\ armed = {} /\ active = {} /\ kqOpen = TRUE
    /\ pc = "constructed" /\ cur = NoFd /\ batch = {}
    /\ conns = [f \in {} |-> NewConnection(NoClient)]
    /\ running = FALSE /\ stranded = FALSE
    /\ tasks = <<>> /\ completions = <<>>
    /\ worker = [w \in Workers |-> [at |-> "idle", task |-> NoTask]]
    /\ abandoning = FALSE /\ stopping = FALSE
    /\ asked = {}

ClientStep(c) ==
    \/ Connect(c)
    \/ \E p \in Piece : SendPiece(c, p)
    \/ ShutDownSending(c) \/ ResetConnection(c) \/ ReadReply(c)

HandlerStep ==
    \/ TakeUser \/ TakeSignal \/ TakeListen \/ EndOfBatch
    \/ \E f \in Fds : TakeRead(f) \/ TakeWrite(f)
    \/ Accept \/ StopAccepting \/ AcceptAborted
    \/ Receive \/ ReceiveEnd \/ ReceiveAgain
    \/ SendSome \/ SendAgain \/ SendEnd
    \/ DrainOne \/ DrainEnd

\* The reactor thread, and after run() the thread that destroys the gateway.
ReactorStep == Run \/ LeaveLoop \/ Poll \/ HandlerStep \/ BeginTeardown \/ EndTeardown

WorkerStep(w) ==
    \/ TakeTask(w) \/ DropTask(w) \/ BeginTask(w)
    \/ PushCompletion(w) \/ TriggerWake(w) \/ WorkerExit(w)

Next ==
    \/ \E c \in Clients : ClientStep(c)
    \/ ReactorStep \/ PollFails
    \/ \E w \in Workers : WorkerStep(w)
    \/ Stop \/ DeliverSignal

Spec == Init /\ [][Next]_vars

\* The operating system schedules the reactor thread and every worker; handlers
\* terminate.  Nothing is assumed of clients, signals or callers of stop().
FairSpec ==
    /\ Spec
    /\ WF_vars(ReactorStep)
    /\ \A w \in Workers : WF_vars(WorkerStep(w))

-----------------------------------------------------------------------------
(* Properties.                                                             *)

\* Types of every variable.
TypeOK ==
    /\ phase \in [Clients -> {"away", "backlog", "open", "closed"}]
    /\ unread \in [Clients -> Seq(Piece)]
    /\ sent \in [Clients -> 0..MaxPieces]
    /\ fin \in [Clients -> BOOLEAN] /\ reset \in [Clients -> BOOLEAN]
    /\ sndbuf \in [Clients -> 0..SendRoom]
    /\ replies \in [Clients -> SUBSET (Clients \cup {NoClient})]
    /\ backlog \in Seq(Clients)
    /\ armed \in SUBSET ({"READ", "WRITE"} \X Fds)
    /\ active \in SUBSET Event /\ batch \in SUBSET Event
    /\ kqOpen \in BOOLEAN
    /\ pc \in {"constructed", "poll", "events", "accepting", "reading", "writing",
               "drainEvent", "drain", "exited", "joining", "tornDown"}
    /\ cur \in Fds \cup {NoFd}
    /\ DOMAIN conns \in SUBSET Fds
    /\ \A f \in DOMAIN conns : conns[f] \in Connection
    /\ running \in BOOLEAN /\ stranded \in BOOLEAN
    /\ tasks \in Seq(Task) /\ completions \in Seq(Result)
    /\ worker \in [Workers -> WorkerState]
    /\ abandoning \in BOOLEAN /\ stopping \in BOOLEAN
    /\ asked \in SUBSET Asks

Reading(f) == <<"READ", f>> \in armed
Writing(f) == <<"WRITE", f>> \in armed
Busy(w)    == worker[w].at \in {"taken", "running"}

\* A connection is in exactly one of three modes: its READ filter is registered
\* and it has no reply yet; it awaits a completion and no filter is registered;
\* its WRITE filter is registered.  A descriptor that is not in connections_ has
\* no filter.  (onConnectionReadable, rejectRequest, drainCompletionQueue and
\* closeConnection each change part of this.)
OneModePerConnection ==
    /\ \A f \in Fds \ DOMAIN conns : ~Reading(f) /\ ~Writing(f)
    /\ \A f \in DOMAIN conns :
         /\ Reading(f) => ~Writing(f) /\ conns[f].replyTo = NoClient
         /\ conns[f].awaiting <=> ~Reading(f) /\ ~Writing(f)

\* What is owed to a descriptor: a queued task, a task a worker holds or a
\* completion not drained yet.
Owed(f, c) ==
    \/ \E i \in DOMAIN tasks : tasks[i] = [fd |-> f, client |-> c]
    \/ \E w \in Workers : Busy(w) /\ worker[w].task = [fd |-> f, client |-> c]
    \/ \E i \in DOMAIN completions : completions[i].fd = f /\ completions[i].client = c

\* Work that is on its way for a descriptor belongs to the connection that has
\* the descriptor now, and that connection awaits it: a descriptor is never
\* closed, so never reused, while a worker owes it a response, and the completion
\* queue needs nothing but the number to find the right client.  (What is left in
\* the queue when the gateway has been torn down is never looked at.)
WorkHasConnection ==
    \A f \in Fds, c \in Clients :
        Owed(f, c) /\ kqOpen =>
                      /\ f \in DOMAIN conns
                      /\ conns[f].client = c
                      /\ conns[f].awaiting

\* A connection has at most one response on its way, wherever that response is.
OneResponsePerConnection ==
    /\ \A i, j \in DOMAIN tasks : tasks[i].fd = tasks[j].fd => i = j
    /\ \A i, j \in DOMAIN completions : completions[i].fd = completions[j].fd => i = j
    /\ \A v, w \in Workers :
         Busy(v) /\ Busy(w) /\ worker[v].task.fd = worker[w].task.fd => v = w
    /\ \A i \in DOMAIN tasks, j \in DOMAIN completions : tasks[i].fd # completions[j].fd
    /\ \A w \in Workers : Busy(w) =>
         /\ \A i \in DOMAIN tasks : tasks[i].fd # worker[w].task.fd
         /\ \A i \in DOMAIN completions : completions[i].fd # worker[w].task.fd

\* A connection awaits a response only while one is on its way: no task, and no result,
\* is lost between the queues before the pool is abandoned.
AwaitedIsOnItsWay ==
    \A f \in DOMAIN conns :
        conns[f].awaiting => abandoning \/ Owed(f, conns[f].client)

\* Together: a connection awaits a response exactly when one, and only one, is on its
\* way to it through the task queue, a worker and the completion queue.
WorkMatchesConnection ==
    WorkHasConnection /\ AwaitedIsOnItsWay /\ OneResponsePerConnection

\* The events of a batch are still about the connections they were raised for
\* when their turn comes, although earlier events of the same batch close
\* connections, accept new ones on their descriptors and drain completions.
EventsAreCurrent ==
    /\ \A f \in Fds : /\ <<"READ", f>> \in batch => Reading(f)
                      /\ <<"WRITE", f>> \in batch => Writing(f)
    /\ pc = "reading" => cur \in Fds /\ Reading(cur)
    /\ pc = "writing" => cur \in Fds /\ Writing(cur)

\* Both: the filters follow the connections, and the events the filters.
EventsFollowMode == OneModePerConnection /\ EventsAreCurrent

\* No client receives a byte of a response made for another client's request.
RepliesReachTheirClient == \A c \in Clients : replies[c] \subseteq {c}

\* Edge-triggered filters lose nothing: while there are bytes or a reset to be
\* noticed on a connection that is being read, or room for a reply that is being
\* written, the event is waiting or its handler is about to look.
NoLostEdge ==
    \A f \in DOMAIN conns :
        LET c == conns[f].client
            Noticed(kind, at) == \/ <<kind, f>> \in active \cup batch
                                 \/ pc = at /\ cur = f
        IN /\ Reading(f) /\ (unread[c] # <<>> \/ reset[c]) => Noticed("READ", "reading")
           /\ Writing(f) /\ Writable(c) => Noticed("WRITE", "writing")

\* Connections wait in the backlog only with an event to announce them, unless
\* accept() has failed while they waited; and then only until the next client
\* connects, whose event takes them all in.
NoStrandedBacklog ==
    backlog # <<>> => stranded \/ Listen \in active \cup batch \/ pc = "accepting"

\* A completion is never left to the 250 ms timeout of kevent(): from the moment
\* it is pushed, some worker is about to trigger the wake-up, the wake-up is
\* waiting, or the reactor is on its way to a drain.
CompletionWillBeSeen ==
    completions # <<>> /\ pc = "poll"
        => User \in active \/ \E w \in Workers : worker[w].at = "wake"

\* Every request handed to the workers is answered or its connection closed.
AwaitsReply(c) == \E f \in DOMAIN conns : conns[f].client = c /\ conns[f].awaiting
EveryRequestIsResolved == \A c \in Clients : AwaitsReply(c) ~> ~AwaitsReply(c)

\* A client that shuts its side down after the gateway has read all it sent is
\* noticed: the connection is closed.  (When the end arrives together with unread
\* bytes of an incomplete request it may not be; see the README.)
EndPending(c) ==
    /\ fin[c] /\ unread[c] = <<>>
    /\ \E f \in FdOf(c) : Reading(f) /\ <<"READ", f>> \in active
PeerEndIsNoticed == \A c \in Clients : EndPending(c) ~> phase[c] = "closed"

\* A shutdown signal, whenever it comes, and stop(), once run() has started, end in
\* a completed teardown: workers joined, sockets and kqueue closed.
ShutdownCompletes ==
    ("signal" \in asked \/ (~running /\ pc # "constructed")) ~> pc = "tornDown"

\* "Runs the reactor until stop() is called" (ApiGateway.hpp): a call of stop(),
\* whenever it comes, ends the reactor.
StopEndsRun == "stop" \in asked ~> pc = "tornDown"
=============================================================================
