------------------------------ MODULE Upstream ------------------------------
(***************************************************************************)
(* Forwarding requests to upstream hosts: ProxyManager::forward(), run by  *)
(* several workers at once, the HttpClient each call has on its stack, and *)
(* the ConnectionPool they share.  A descriptor number is all the pool     *)
(* keeps of a connection, so whoever holds the number must be the only one *)
(* to use and close it; and a connection that goes back to the pool must   *)
(* be done with the exchange it was used for, or the next request would be *)
(* answered with what was meant for the last one.                          *)
(*                                                                         *)
(* The HttpClient is local to forward(), so the calls of its methods that  *)
(* touch nothing else are part of the step before them.  A response is a   *)
(* few items, of which the last completes it (Content-Length reached).     *)
(***************************************************************************)
EXTENDS Naturals, FiniteSets, SequencesExt

CONSTANTS
    Workers,      (* threads that call forward()                             *)
    Hosts,        (* upstream host:port keys                                 *)
    Fds,          (* descriptors the process may have open for upstreams     *)
    Requests,     (* bound: requests, each forwarded once                    *)
    NoFd, NoHost, NoRequest,
    MaxIdle,      (* kProxyMaxIdlePerHost                                    *)
    IdleTimeout,  (* kProxyIdleTimeout                                       *)
    MaxTime,      (* bound of the clock                                      *)
    Replies,      (* how upstreams end their responses                       *)
    Unasked,      (* what they send without having been asked                *)
    Reaping       (* whether anybody calls reapStale()                       *)

ASSUME UpstreamAssumption ==
    /\ NoFd \notin Fds /\ NoHost \notin Hosts /\ NoRequest \notin Requests
    /\ MaxIdle \in Nat \ {0}      \* release() looks for an oldest entry
    /\ IdleTimeout \in Nat /\ MaxTime \in Nat
    /\ Replies \subseteq {"end", "endClose", "bad"}
    /\ Unasked \subseteq {"part", "end", "endClose", "bad"}
    /\ Reaping \in BOOLEAN

VARIABLES
    todo,       \* requests nobody has forwarded yet
    call,       \* per worker, its call of forward()
    idle,       \* idleByHost_: the pooled connections of a host, oldest first
    sock,       \* per descriptor, the connection behind it
    clock,      \* steady_clock
    alive       \* the pool has not been destroyed

vars == <<todo, call, idle, sock, clock, alive>>

-----------------------------------------------------------------------------
\* A piece of what an upstream sends, and the request it answers, if any.  "part": the
\* response goes on.  The others end it: "end" by Content-Length, "endClose" with
\* Connection: close besides, and "bad" is not HTTP or too large.
Item   == [req : Requests \cup {NoRequest}, kind : {"part", "end", "endClose", "bad"}]
\* inbox: sent by the upstream, not received yet.  pending: requests the upstream
\* has received and not answered.  begun: it has sent a part of the next answer.
\* strayed (history): something unasked came when the client took all that came for
\* the response it was waiting for.
Socket == [host : Hosts \cup {NoHost}, inbox : Seq(Item), pending : Seq(Requests),
           begun : BOOLEAN, eof : BOOLEAN, strayed : BOOLEAN]
Closed == [host |-> NoHost, inbox |-> <<>>, pending |-> <<>>,
           begun |-> FALSE, eof |-> FALSE, strayed |-> FALSE]
Fresh(h) == [Closed EXCEPT !.host = h]
Pooled == [fd : Fds, lastUsed : 0 .. MaxTime]
\* "release" and "return": response_ is complete, and the connection kept or not.
Stage  == {"none", "lease", "connect", "connecting", "sending", "receiving",
           "release", "return"}
\* fd is the descriptor the call holds (HttpClient::fd_, or the local variable it is
\* in on the way from or to the pool); got is whose parts its readBuffer_, and then
\* its response_, is made of.
Call   == [at : Stage, host : Hosts \cup {NoHost}, fd : Fds \cup {NoFd},
           req : Requests \cup {NoRequest}, got : SUBSET (Requests \cup {NoRequest})]
NoCall == [at |-> "none", host |-> NoHost, fd |-> NoFd, req |-> NoRequest, got |-> {}]

FreeFds == {f \in Fds : sock[f].host = NoHost}

\* closeSocket() for every descriptor of S.
SocketsWithout(S) == [f \in Fds |-> IF f \in S THEN Closed ELSE sock[f]]

\* forward() returns, with an error response but for Return; ~HttpClient closes the
\* descriptor it holds.
End(w) ==
    /\ sock' = SocketsWithout({call[w].fd})
    /\ call' = [call EXCEPT ![w] = NoCall]
    /\ UNCHANGED <<todo, idle, clock, alive>>

-----------------------------------------------------------------------------
(* ConnectionPool.                                                         *)

\* Seeded fault: the probe only looks for the end of the stream.
HealthyIfOpen(f) == ~sock[f].eof

\* isHealthy(): the probe finds neither bytes nor the end of the stream.
Healthy(f) == sock[f].inbox = <<>> /\ ~sock[f].eof

\* lease(): newest first, closing the unhealthy ones on the way.  (Probes of
\* different connections are independent, so one step stands for the loop.)
Lease(w) ==
    /\ call[w].at = "lease"
    /\ LET pool == idle[call[w].host] IN
       \E found \in 0 .. Len(pool) :
         /\ found # 0 => Healthy(pool[found].fd)
         /\ \A i \in found + 1 .. Len(pool) : ~Healthy(pool[i].fd)
         /\ idle' = [idle EXCEPT ![call[w].host] = SubSeq(pool, 1, found - 1)]
         /\ sock' = SocketsWithout({pool[i].fd : i \in found + 1 .. Len(pool)})
         /\ call' = IF found = 0
                    THEN [call EXCEPT ![w].at = "connect"]
                    ELSE [call EXCEPT ![w].at = "sending", ![w].fd = pool[found].fd]
    /\ UNCHANGED <<todo, clock, alive>>

\* The entry std::min_element returns: the first of those used longest ago.
IsOldest(pool, i) ==
    \A j \in DOMAIN pool : pool[i].lastUsed <= pool[j].lastUsed
                           /\ (pool[i].lastUsed = pool[j].lastUsed => i <= j)

Entry(w) == [fd |-> call[w].fd, lastUsed |-> clock]

\* Seeded fault: releaseFd() does not give the descriptor up, so ~HttpClient closes it.
ReleaseStillOwning(w) ==
    /\ call[w].at = "release"
    /\ idle' = [idle EXCEPT ![call[w].host] = Append(@, Entry(w))]
    /\ sock' = SocketsWithout({call[w].fd})
    /\ call' = [call EXCEPT ![w] = NoCall]
    /\ UNCHANGED <<todo, clock, alive>>

\* The connection is kept: releaseFd() and release(); then forward() returns.
Release(w) ==
    /\ call[w].at = "release"
    /\ LET pool == idle[call[w].host] IN
       \/ /\ Len(pool) >= MaxIdle
          /\ \E i \in DOMAIN pool :
               /\ IsOldest(pool, i)
               /\ idle' = [idle EXCEPT ![call[w].host] = Append(RemoveAt(pool, i), Entry(w))]
               /\ sock' = SocketsWithout({pool[i].fd})
       \/ /\ Len(pool) < MaxIdle
          /\ idle' = [idle EXCEPT ![call[w].host] = Append(pool, Entry(w))]
          /\ UNCHANGED sock
    /\ call' = [call EXCEPT ![w] = NoCall]
    /\ UNCHANGED <<todo, clock, alive>>

\* It is not, and ~HttpClient closes it.
Return(w) ==
    /\ call[w].at = "return"
    /\ End(w)

Stale(c) == clock - c.lastUsed > IdleTimeout

\* The n-th number of S.
Nth(S, n) == CHOOSE i \in S : Cardinality({j \in S : j < i}) = n - 1

\* What std::remove_if leaves of a pool: its fresh entries in their order.
Kept(pool) ==
    LET fresh == {i \in DOMAIN pool : ~Stale(pool[i])}
    IN [n \in 1 .. Cardinality(fresh) |-> pool[Nth(fresh, n)]]

ReapStale ==
    /\ Reaping /\ alive
    /\ sock' = SocketsWithout({f \in Fds : \E h \in Hosts : \E i \in DOMAIN idle[h] :
                                             idle[h][i].fd = f /\ Stale(idle[h][i])})
    /\ idle' = [h \in Hosts |-> Kept(idle[h])]
    /\ UNCHANGED <<todo, call, clock, alive>>

\* ~ConnectionPool; the gateway has joined its workers by then.
CloseAll ==
    /\ alive /\ \A w \in Workers : call[w].at = "none"
    /\ alive' = FALSE
    /\ sock' = SocketsWithout({f \in Fds : \E h \in Hosts : \E i \in DOMAIN idle[h] :
                                             idle[h][i].fd = f})
    /\ idle' = [h \in Hosts |-> <<>>]
    /\ UNCHANGED <<todo, call, clock>>

-----------------------------------------------------------------------------
(* ProxyManager::forward() and HttpClient.                                 *)

Forward(w, h, r) ==
    /\ alive /\ call[w].at = "none" /\ r \in todo
    /\ todo' = todo \ {r}
    /\ call' = [call EXCEPT ![w] = [NoCall EXCEPT !.at = "lease", !.host = h, !.req = r]]
    /\ UNCHANGED <<idle, sock, clock, alive>>

\* createConnectingSocket().
Connect(w) ==
    /\ call[w].at = "connect"
    /\ \E f \in FreeFds :
         /\ sock' = [sock EXCEPT ![f] = Fresh(call[w].host)]
         /\ call' = [call EXCEPT ![w].at = "connecting", ![w].fd = f]
    /\ UNCHANGED <<todo, idle, clock, alive>>

\* Seeded fault: the failure of socket() goes unnoticed.
ConnectFailsUnnoticed(w) ==
    /\ call[w].at = "connect"
    /\ call' = [call EXCEPT ![w].at = "connecting"]
    /\ UNCHANGED <<todo, idle, sock, clock, alive>>

\* No descriptor, no such address, or refused at once: 502, with nothing to close.
ConnectFails(w) ==
    /\ call[w].at = "connect"
    /\ End(w)

\* completeConnect() and prepareRequest().
CompleteConnect(w) ==
    /\ call[w].at = "connecting"
    /\ call' = [call EXCEPT ![w].at = "sending"]
    /\ UNCHANGED <<todo, idle, sock, clock, alive>>

\* The connection attempt times out (504) or is found to have failed (502).
ConnectionNotMade(w) ==
    /\ call[w].at = "connecting"
    /\ End(w)

\* The last byte of the request is accepted by the socket; an upstream that has
\* closed its end never sees it.
Send(w) ==
    /\ call[w].at = "sending"
    /\ sock' = IF sock[call[w].fd].eof THEN sock
               ELSE [sock EXCEPT ![call[w].fd].pending = Append(@, call[w].req)]
    /\ call' = [call EXCEPT ![w].at = "receiving"]
    /\ UNCHANGED <<todo, idle, clock, alive>>

\* send() fails (502), or the socket takes no more for ioTimeout (504).
SendFails(w) ==
    /\ call[w].at = "sending"
    /\ End(w)

\* recv() into readBuffer_ and tryParseResponse().  A complete response drops what
\* was read beyond it and keeps the connection unless the upstream said otherwise.
Receive(w) ==
    /\ call[w].at = "receiving"
    /\ LET f     == call[w].fd
           inbox == sock[f].inbox
           rest(k) == [sock EXCEPT ![f].inbox = SubSeq(inbox, k + 1, Len(inbox))]
       IN \E k \in 1 .. Len(inbox), last \in 0 .. Len(inbox) :
         /\ last <= k /\ (last # 0 => inbox[last].kind # "part")
         /\ \A i \in 1 .. k : (last = 0 \/ i < last) => inbox[i].kind = "part"
         /\ LET used  == IF last = 0 THEN 1 .. k ELSE 1 .. last
                got   == call[w].got \cup {inbox[i].req : i \in used}
                Is(x) == last # 0 /\ inbox[last].kind = x
            IN \/ /\ last = 0
                  /\ call' = [call EXCEPT ![w].got = got]
                  /\ sock' = rest(k)
               \/ /\ Is("end")
                  /\ call' = [call EXCEPT ![w].at = "release", ![w].got = got]
                  /\ sock' = rest(k)
               \/ /\ Is("endClose")
                  /\ call' = [call EXCEPT ![w].at = "return", ![w].got = got]
                  /\ sock' = rest(k)
               \/ /\ Is("bad")          \* malformed or too large: 502
                  /\ call' = [call EXCEPT ![w] = NoCall]
                  /\ sock' = SocketsWithout({f})
    /\ UNCHANGED <<todo, idle, clock, alive>>

\* recv() returns 0 or fails: 502.
ReceiveEnd(w) ==
    /\ call[w].at = "receiving"
    /\ LET s == sock[call[w].fd] IN s.inbox = <<>> /\ s.eof
    /\ End(w)

\* Seeded faults: the connection of a timed-out request goes back to the pool; the
\* timeout only covers the first byte.
ReceiveTimesOutKeeping(w) ==
    /\ call[w].at = "receiving"
    /\ LET s == sock[call[w].fd] IN s.inbox = <<>> /\ ~s.eof
    /\ call' = [call EXCEPT ![w].at = "release"]
    /\ UNCHANGED <<todo, idle, sock, clock, alive>>
ReceiveTimesOutOnce(w) ==
    /\ call[w].at = "receiving"
    /\ LET s == sock[call[w].fd] IN s.inbox = <<>> /\ ~s.eof
    /\ call[w].got = {}
    /\ End(w)

\* Nothing to read for ioTimeout: 504.  The answer may still come, to a
\* descriptor that is closed by then.
ReceiveTimesOut(w) ==
    /\ call[w].at = "receiving"
    /\ LET s == sock[call[w].fd] IN s.inbox = <<>> /\ ~s.eof
    /\ End(w)

-----------------------------------------------------------------------------
(* Upstream hosts and time.                                                *)

\* A part of the response to the oldest request; bound: one part before the end.
AnswerPart(f) ==
    /\ sock[f].pending # <<>> /\ ~sock[f].begun /\ ~sock[f].eof
    /\ sock' = [sock EXCEPT ![f].begun = TRUE,
                            ![f].inbox = Append(@, [req |-> Head(sock[f].pending), kind |-> "part"])]
    /\ UNCHANGED <<todo, call, idle, clock, alive>>

\* The end of the response to the oldest request.
Answer(f, kind) ==
    /\ sock[f].pending # <<>> /\ ~sock[f].eof
    /\ sock' = [sock EXCEPT ![f].begun = FALSE, ![f].pending = Tail(@),
                            ![f].eof = (kind = "endClose"),
                            ![f].inbox = Append(@, [req |-> Head(sock[f].pending), kind |-> kind])]
    /\ UNCHANGED <<todo, call, idle, clock, alive>>

\* A call holds f, past the probe of lease(), and has no whole response before it yet:
\* tryParseResponse() takes the next bytes for its response, whatever they are.
Awaited(f) ==
    /\ \E w \in Workers : call[w].fd = f /\ call[w].at \in {"connecting", "sending", "receiving"}
    /\ \A i \in DOMAIN sock[f].inbox : sock[f].inbox[i].kind = "part"

\* Bytes that answer no request, at any time: in excess of Content-Length, with the
\* response or after it, a 408 on an idle connection, 100 Continue, chunks.  Bounds:
\* one such item on its way at a time, and none where one has strayed already.
Stray(f, kind) ==
    /\ sock[f].host # NoHost /\ ~sock[f].eof /\ ~sock[f].strayed
    /\ \A g \in Fds : \A i \in DOMAIN sock[g].inbox : sock[g].inbox[i].req # NoRequest
    /\ \A w \in Workers : NoRequest \notin call[w].got
    /\ sock' = [sock EXCEPT ![f].strayed = Awaited(f),
                            ![f].inbox = Append(@, [req |-> NoRequest, kind |-> kind])]
    /\ UNCHANGED <<todo, call, idle, clock, alive>>

\* An upstream may close or reset a connection at any time, answered or not; a
\* reset takes what has not been received with it.
UpstreamCloses(f) ==
    /\ sock[f].host # NoHost /\ ~sock[f].eof
    /\ \E unread \in {<<>>, sock[f].inbox} :
         sock' = [sock EXCEPT ![f].eof = TRUE, ![f].inbox = unread,
                              ![f].pending = <<>>, ![f].begun = FALSE]
    /\ UNCHANGED <<todo, call, idle, clock, alive>>

Tick ==
    /\ clock < MaxTime
    /\ clock' = clock + 1
    /\ UNCHANGED <<todo, call, idle, sock, alive>>

-----------------------------------------------------------------------------
Init ==
    /\ todo = Requests
    /\ call = [w \in Workers |-> NoCall]
    /\ idle = [h \in Hosts |-> <<>>]
    /\ sock = [f \in Fds |-> Closed]
    /\ clock = 0
    /\ alive = TRUE

\* The steps of a call that has begun.
CallStep(w) ==
    \/ Lease(w) \/ Connect(w) \/ ConnectFails(w)
    \/ CompleteConnect(w) \/ ConnectionNotMade(w)
    \/ Send(w) \/ SendFails(w)
    \/ Receive(w) \/ ReceiveEnd(w) \/ ReceiveTimesOut(w)
    \/ Release(w) \/ Return(w)

Next ==
    \/ \E w \in Workers, h \in Hosts, r \in Requests : Forward(w, h, r)
    \/ \E w \in Workers : CallStep(w)
    \/ ReapStale \/ CloseAll
    \/ \E f \in Fds : AnswerPart(f) \/ UpstreamCloses(f)
    \/ \E f \in Fds, kind \in Replies : Answer(f, kind)
    \/ \E f \in Fds, kind \in Unasked : Stray(f, kind)
    \/ Tick

Spec == Init /\ [][Next]_vars

\* Every wait of a call is a poll() with a timeout, so the thread always goes on;
\* nothing is assumed of upstreams.
FairSpec == Spec /\ \A w \in Workers : WF_vars(CallStep(w))

-----------------------------------------------------------------------------
(* Properties.                                                             *)

\* Types of every variable; a call that is past connecting holds a descriptor.
TypeOK ==
    /\ todo \in SUBSET Requests
    /\ call \in [Workers -> Call]
    /\ \A w \in Workers : call[w].fd = NoFd <=> call[w].at \in {"none", "lease", "connect"}
    /\ \A w \in Workers : call[w].at # "none" => call[w].req # NoRequest /\ call[w].host # NoHost
    /\ idle \in [Hosts -> Seq(Pooled)]
    /\ sock \in [Fds -> Socket]
    /\ clock \in 0 .. MaxTime
    /\ alive \in BOOLEAN

\* Who holds descriptor f: entries of the pool and calls in progress.
InPool(f)  == {e \in Hosts \X (1 .. MaxIdle) :
                  e[2] \in DOMAIN idle[e[1]] /\ idle[e[1]][e[2]].fd = f}
InUse(f)   == {w \in Workers : call[w].fd = f}

\* An open descriptor is held by exactly one call or one pool entry, under the host
\* it is connected to, and a closed one by nobody: nothing is closed twice, used
\* after it was closed (its number may be somebody else's by then), shared, sent to
\* the wrong host or leaked.
OneOwnerPerDescriptor ==
    \A f \in Fds :
        /\ Cardinality(InPool(f)) + Cardinality(InUse(f))
               = (IF sock[f].host = NoHost THEN 0 ELSE 1)
        /\ \A e \in InPool(f) : sock[f].host = e[1]
        /\ \A w \in InUse(f) : sock[f].host = call[w].host

\* A host never has more than maxIdlePerHost idle connections, in the order they
\* came back in, so that the one evicted is the one used longest ago.
PoolIsBounded ==
    \A h \in Hosts :
        /\ Len(idle[h]) <= MaxIdle
        /\ \A i, j \in DOMAIN idle[h] : i < j => idle[h][i].lastUsed <= idle[h][j].lastUsed

\* A connection in the pool, or on its way into it or out of it, has no request
\* outstanding: the upstream has nothing left to answer on it, late or not.  The one
\* exception is a connection on which something unasked was taken for a response, the
\* code having no way to tell: the true response is then still to come.
PooledIsFinished ==
    \A f \in Fds :
        (InPool(f) # {} \/ \E w \in InUse(f) : call[w].at \in {"release", "sending"})
            => sock[f].pending = <<>> \/ sock[f].strayed

\* The pool as a whole: bounded, oldest first, and of finished connections only.
PoolIsSound == PoolIsBounded /\ PooledIsFinished

\* A response that forward() returns is made of what the upstream sent for that very
\* request, whatever was exchanged on the connection before.  Answers that come after a
\* timeout never show up in another response; nor do bytes in excess, whether they were
\* read with the response, left in the socket, or come later, as long as they are there
\* when lease() probes the connection.  What comes unasked after the probe is taken for
\* the response (HttpClient.cpp:393-404) and spoils that connection, and no other.
ResponsesMatchRequests ==
    \A w \in Workers :
        call[w].at \in {"release", "return"} =>
            call[w].got \subseteq {call[w].req} \/ sock[call[w].fd].strayed

\* forward() returns, whatever the upstream does or fails to do.
ForwardReturns == \A w \in Workers : call[w].at # "none" ~> call[w].at = "none"

\* "how long an idle connection may sit before ... a health probe on lease()
\* considers it stale" (ApiGateway.cpp): lease() hands out no connection that has
\* been idle for longer than idleTimeout.
LeaseIsFresh ==
    [][\A w \in Workers :
         (call[w].at = "lease" /\ call'[w].at = "sending") =>
             \E i \in DOMAIN idle[call[w].host] :
                 /\ idle[call[w].host][i].fd = call'[w].fd
                 /\ ~Stale(idle[call[w].host][i])]_vars
=============================================================================
