------------------------------ MODULE Reactor -------------------------------
(***************************************************************************)
(* The life of the server's connections: the main thread accepts them      *)
(* (Acceptor, TcpServer::newconnection, Connection's constructor), the IO  *)
(* threads (EventLoop::run with Epoll and Channel) read, write, close and  *)
(* sweep them, the worker threads (EchoServer::OnMessage, Connection::     *)
(* send) answer their requests, and clients and clock act at any moment.   *)
(*                                                                         *)
(* A Connection is owned by shared_ptrs only: it exists while main, one of *)
(* the two maps, a queued task or a worker refers to it.  Channel pointers *)
(* in an epoll batch and the `this' bound to sendinloop do not count.      *)
(*                                                                         *)
(* The two task queues are used through what TaskFifo promises of them.    *)
(* Requests are numbered per client; framing is left to Buffer.            *)
(***************************************************************************)
EXTENDS Integers, Sequences, FiniteSets, FiniteSetsExt, SequencesExt

CONSTANTS Conns,        \* the clients, each connecting at most once
          Workers,      \* the threads of EchoServer's pool; {} is supported
          NoConn,       \* an absent map entry
          ThreadNum,    \* TcpServer::threadnum_
          FirstFd,      \* the lowest descriptor not taken by the server itself
          MaxRequests,  \* bound on the requests of all clients together
          AcceptMayFail, \* accept4() may fail for want of a descriptor
          EarlyData,    \* clients may send or close before newconnection() is done
          IdleExpiry    \* connections may stay idle for longer than timeout_

\* "wake" and "timer" are the loop's own channels, next to those of the connections.
ASSUME ReactorAssumption ==
    /\ IsFiniteSet(Conns) /\ Conns \cap {NoConn, "wake", "timer"} = {} /\ IsFiniteSet(Workers)
    /\ ThreadNum \in Nat \ {0} /\ FirstFd \in Nat \ {0} /\ MaxRequests \in Nat
    /\ {AcceptMayFail, EarlyData, IdleExpiry} \subseteq BOOLEAN

Loops == 0..(ThreadNum - 1)
Fds == FirstFd..(FirstFd + Cardinality(Conns) - 1)
End == 0                    \* the end() of a map keyed by descriptors
Requests == 1..MaxRequests

\* How far TcpServer::newconnection() has come with a connection.
Registered == 1             \* the constructor's EPOLL_CTL_ADD is done
InEpollLate == 3            \* mutant of InEpoll: not before the shared_ptr
InEpoll == 2                \* Channel::inepoll_ is set
Owned == 3                  \* a shared_ptr owns the object
CloseCb == 4                \* closecallback_, then errorcallback_, ...
ErrorCb == 5
MessageCb == 6
CompleteCb == 7
InServer == 8               \* stored in TcpServer::conns_
InLoop == 9                 \* stored in EventLoop::conns_
Published == 10             \* newconnection() has returned

VARIABLES status,           \* "running", or how the process died
          conn,             \* the Connection objects with their Channels
          net,              \* the sockets and the clients behind them
          serverConns,      \* TcpServer::conns_
          loopConns,        \* EventLoop::conns_ of all loops; loop fd % ThreadNum
          fate,             \* history: what happened to each connection in the maps
          pool,             \* the worker pool's task queue
          worker,           \* what each worker is doing
          taskqueue_,       \* EventLoop::taskqueue_, of each loop
          pc,               \* where each loop is
          channels,         \* the channels and revents_ that await handleevent()
          timerfd_,         \* the loop's timer has expired
          aa                \* the iterator of handletimer()

loopVars == <<taskqueue_, pc, channels, timerfd_, aa>>
workVars == <<pool, worker>>
mapVars == <<serverConns, loopConns, fate>>
vars == <<status, conn, net, mapVars, workVars, loopVars>>

IdleWorker == [at |-> "idle", c |-> NoConn, m |-> 0]

Init ==
    /\ status = "running"
    /\ conn = [c \in Conns |->
                 [stage |-> 0, fd |-> 0, events |-> {}, registered |-> FALSE,
                  disconnect |-> FALSE, input |-> <<>>, output |-> <<>>, idle |-> FALSE]]
    /\ net = [c \in Conns |-> [peer |-> "none", asked |-> 0, rcv |-> <<>>, got |-> <<>>]]
    /\ serverConns = [f \in Fds |-> NoConn] /\ loopConns = [f \in Fds |-> NoConn]
    /\ fate = [c \in Conns |-> {}]
    /\ pool = <<>> /\ worker = [w \in Workers |-> IdleWorker]
    /\ taskqueue_ = [l \in Loops |-> <<>>] /\ pc = [l \in Loops |-> "poll"]
    /\ channels = [l \in Loops |-> {}] /\ timerfd_ = [l \in Loops |-> FALSE]
    /\ aa = [l \in Loops |-> End]

\* A shared_ptr refers to c (or main is still inside its constructor).
Alive(c) ==
    \/ conn[c].stage \in Registered..InLoop
    \/ \E f \in Fds : c \in {serverConns[f], loopConns[f]}
    \/ \E i \in DOMAIN pool : pool[i].c = c
    \/ \E w \in Workers : worker[w].c = c

\* Mutant of FdInUse: the descriptor is closed when the peer disconnects.
FdClosedEarly(f) == \E c \in Conns : conn[c].fd = f /\ Alive(c) /\ ~conn[c].disconnect

\* ~Socket closes the descriptor when the Connection is destroyed.
FdInUse(f) == \E c \in Conns : conn[c].fd = f /\ Alive(c)

LoopOf(c) == conn[c].fd % ThreadNum

Running == status = "running"

\* The process ends; nothing else matters.
Die(how) == status' = how /\ UNCHANGED <<conn, net, mapVars, workVars, loopVars>>
-----------------------------------------------------------------------------
\* Epoll::updatechannel() on the channel of c exits the process when epoll_ctl()
\* fails: MOD of a descriptor that is not registered, ADD of one that is.
UpdateFails(c) == (conn[c].stage >= InEpoll) # conn[c].registered

\* Channel's changes of events_, each followed by updatechannel().
enablereading(k) == [k EXCEPT !.events = @ \cup {"IN"}]
enablewriting(k) == [k EXCEPT !.events = @ \cup {"OUT"}]
disablewriting(k) == [k EXCEPT !.events = @ \ {"OUT"}]
disableall(k) == [k EXCEPT !.events = {}]

\* The main thread: Acceptor::newconnection() and TcpServer::newconnection().

\* Socket::accept(): accept4() returns the lowest free descriptor.
AcceptedFd == Min({f \in Fds : ~FdInUse(f)})

\* Connection's constructor registers the channel with its sub-loop, which can
\* deliver events from here on.
Constructed(k, f) ==
    enablereading([k EXCEPT !.stage = Registered, !.fd = f, !.registered = TRUE])

\* The main thread is in epoll_wait() and c waits in the backlog.
Backlogged(c) == /\ net[c].peer # "none" /\ conn[c].stage = 0
                 /\ \A d \in Conns : conn[d].stage \in {0, Published}

\* Acceptor::newconnection(), up to the end of Connection's constructor.
Accept(c) ==
    /\ Running /\ Backlogged(c)
    /\ conn' = [conn EXCEPT ![c] = Constructed(@, AcceptedFd)]
    /\ UNCHANGED <<status, net, mapVars, workVars, loopVars>>

\* accept4() returns -1, unchecked: -1 % ThreadNum indexes outside of subloops_, or,
\* with one loop, epoll_ctl() refuses the descriptor and the process exits.
AcceptFails ==
    /\ Running /\ AcceptMayFail /\ \E c \in Conns : Backlogged(c)
    /\ Die(IF ThreadNum = 1 THEN "exit" ELSE "bad index")

\* setinepoll(), the shared_ptr, the four set...callback(), the two maps, and
\* finally newconnectioncb_ and the end of main's own reference.
NewConnection(c) ==
    /\ Running /\ conn[c].stage \in Registered..InLoop
    /\ conn' = [conn EXCEPT ![c].stage = @ + 1]
    /\ serverConns' = IF conn[c].stage + 1 = InServer
                      THEN [serverConns EXCEPT ![conn[c].fd] = c] ELSE serverConns
    /\ loopConns' = IF conn[c].stage + 1 = InLoop
                    THEN [loopConns EXCEPT ![conn[c].fd] = c] ELSE loopConns
    /\ UNCHANGED <<status, net, fate, workVars, loopVars>>
-----------------------------------------------------------------------------
\* The IO threads: EventLoop::run().

\* What epoll_wait() reports for the channel of c; errors need no subscription.
Revents(c) ==
    {e \in conn[c].events : \/ e = "OUT"
                            \/ e = "IN" /\ (net[c].rcv # <<>> \/ net[c].peer = "fin")}
      \cup {e \in {"ERR"} : net[c].peer = "error"}

ReadyConns(l) == {c \in Conns : /\ conn[c].registered /\ Alive(c) /\ LoopOf(c) = l
                                /\ Revents(c) # {}}

\* Epoll::loop(): the ready channels, with their revents_.
Poll(l) ==
    /\ Running /\ pc[l] = "poll"
    /\ LET ready == {<<c, Revents(c)>> : c \in ReadyConns(l)}
           own == (IF taskqueue_[l] # <<>> THEN {<<"wake", {"IN"}>>} ELSE {})
                    \cup (IF timerfd_[l] THEN {<<"timer", {"IN"}>>} ELSE {})
       IN  /\ ready \cup own # {}
           /\ channels' = [channels EXCEPT ![l] = ready \cup own]
    /\ pc' = [pc EXCEPT ![l] = "dispatch"]
    /\ UNCHANGED <<status, conn, net, mapVars, workVars, taskqueue_, timerfd_, aa>>

EndOfBatch(l) ==
    /\ Running /\ pc[l] = "dispatch" /\ channels[l] = {}
    /\ pc' = [pc EXCEPT ![l] = "poll"]
    /\ UNCHANGED <<status, conn, net, mapVars, workVars, taskqueue_, channels, timerfd_, aa>>

\* run() calls handleevent() of a channel of the batch.
Dispatched(l, ch) ==
    /\ pc[l] = "dispatch"
    /\ \E e \in channels[l] : e[1] = ch /\ channels' = [channels EXCEPT ![l] = @ \ {e}]

\* The Channel may have been destroyed with its Connection since epoll_wait().
DispatchDangling(l) ==
    /\ Running /\ pc[l] = "dispatch" /\ \E e \in channels[l] : e[1] \in Conns /\ ~Alive(e[1])
    /\ Die("use after free")

\* Where closecallback() or errorcallback() goes wrong: Channel::remove() finds
\* inepoll_ not yet set, shared_from_this() has no owner yet, or the callback
\* (set at stage cb) is still empty.
CloseFailure(c, cb) ==
    IF UpdateFails(c) THEN "exit" ELSE IF conn[c].stage < cb THEN "terminate" ELSE "none"

\* Mutant of Removed: disconnect_ is not set.
RemovedStaysOpen(k) == [disableall(k) EXCEPT !.registered = FALSE]

\* Mutant of Removed: Channel::remove() without Epoll::removechannel().
RemovedFromMask(k) == [disableall(k) EXCEPT !.disconnect = TRUE]

\* disconnect_ = true and Channel::remove().
Removed(k) == [disableall(k) EXCEPT !.disconnect = TRUE, !.registered = FALSE]

\* A connection closed before newconnection() stores it.
ClosedAt(c) == fate' = [fate EXCEPT ![c] = IF conn[c].stage < InServer THEN @ \cup {"early"} ELSE @]

\* Mutant of CloseConnection: TcpServer::closeconnection() does not erase.
CloseConnectionKept(l, c, cb, input) ==
    \/ /\ CloseFailure(c, cb) # "none"
       /\ Die(CloseFailure(c, cb))
    \/ /\ CloseFailure(c, cb) = "none"
       /\ Dispatched(l, c)
       /\ conn' = [conn EXCEPT ![c] = [Removed(@) EXCEPT !.input = input]]
       /\ net' = [net EXCEPT ![c].rcv = <<>>]
       /\ ClosedAt(c)
       /\ UNCHANGED <<status, serverConns, loopConns, workVars, taskqueue_, pc, timerfd_, aa>>

\* Mutant of CloseConnection: the entry of EventLoop::conns_ is erased as well.
CloseConnectionBoth(l, c, cb, input) ==
    \/ /\ CloseFailure(c, cb) # "none"
       /\ Die(CloseFailure(c, cb))
    \/ /\ CloseFailure(c, cb) = "none"
       /\ Dispatched(l, c)
       /\ conn' = [conn EXCEPT ![c] = [Removed(@) EXCEPT !.input = input]]
       /\ net' = [net EXCEPT ![c].rcv = <<>>]
       /\ serverConns' = [serverConns EXCEPT ![conn[c].fd] = NoConn]
       /\ loopConns' = [loopConns EXCEPT ![conn[c].fd] = NoConn]
       /\ ClosedAt(c)
       /\ UNCHANGED <<status, workVars, taskqueue_, pc, timerfd_, aa>>

\* Connection::closecallback() and errorcallback() down to conns_.erase() of
\* TcpServer; EventLoop::conns_ keeps its entry.
CloseConnection(l, c, cb, input) ==
    \/ /\ CloseFailure(c, cb) # "none"
       /\ Die(CloseFailure(c, cb))
    \/ /\ CloseFailure(c, cb) = "none"
       /\ Dispatched(l, c)
       /\ conn' = [conn EXCEPT ![c] = [Removed(@) EXCEPT !.input = input]]
       /\ net' = [net EXCEPT ![c].rcv = <<>>]
       /\ serverConns' = [serverConns EXCEPT ![conn[c].fd] = NoConn]
       /\ ClosedAt(c)
       /\ UNCHANGED <<status, loopConns, workVars, taskqueue_, pc, timerfd_, aa>>

\* A channel of the batch whose revents_ make handleevent() take branch e.
Branch(l, c, e) ==
    /\ pc[l] = "dispatch" /\ Alive(c)
    /\ \E r \in channels[l] : r[1] = c /\ e = IF "IN" \in r[2] THEN "IN"
                                              ELSE IF "OUT" \in r[2] THEN "OUT" ELSE "ERR"

\* onmessage(), read() returning 0: what was read before it stays in inputbuffer_.
ReadClose(l, c) ==
    /\ Running /\ Branch(l, c, "IN") /\ net[c].peer = "fin"
    /\ CloseConnection(l, c, CloseCb, conn[c].input \o net[c].rcv)

\* EchoServer::HandleMessage() for each of msgs: addtask() of OnMessage(), which
\* keeps a shared_ptr to the connection.
HandleMessages(c, msgs) == pool \o [i \in DOMAIN msgs |-> [c |-> c, m |-> msgs[i]]]

\* Where TcpServer::onmessage() goes wrong with a message to deliver: no owner or
\* no callback yet; without workers OnMessage() runs here, and sendinloop() frees
\* the characters of a std::string.
DeliverFailure(c) ==
    IF conn[c].stage < MessageCb THEN "terminate"
    ELSE IF Workers = {} THEN "bad free" ELSE "none"

\* onmessage(), read() returning EAGAIN: every message goes to the worker pool.
ReadMessages(l, c) ==
    /\ Running /\ Branch(l, c, "IN") /\ net[c].peer # "fin"
    /\ LET msgs == conn[c].input \o net[c].rcv IN
       \/ msgs # <<>> /\ DeliverFailure(c) # "none" /\ Die(DeliverFailure(c))
       \/ /\ msgs # <<>> => DeliverFailure(c) = "none"
          /\ Dispatched(l, c)
          /\ conn' = [conn EXCEPT ![c].input = <<>>, ![c].idle = @ /\ msgs = <<>>]
          /\ net' = [net EXCEPT ![c].rcv = <<>>]
          /\ pool' = HandleMessages(c, msgs)
          /\ UNCHANGED <<status, mapVars, worker, taskqueue_, pc, timerfd_, aa>>

\* What send() takes of an output of length len: some of it while the client is
\* there, possibly nothing (-1) after.
SendResults(c, len) == (IF net[c].peer = "open" THEN 1 ELSE 0)..len

\* Buffer::erase(0, n).
Erased(buf, n) == SubSeq(buf, n + 1, Len(buf))

\* writecallback(): what is sent leaves outputbuffer_; when nothing is left,
\* disablewriting() and sendcompletecallback_, which does nothing, or throws when
\* newconnection() has not set it yet.
Write(l, c) ==
    /\ Running /\ Branch(l, c, "OUT")
    /\ \E n \in SendResults(c, Len(conn[c].output)) :
         LET k == [conn[c] EXCEPT !.output = Erased(@, n)] IN
         \/ /\ k.output = <<>> /\ k.stage < CompleteCb
            /\ Die("terminate")
         \/ /\ k.output = <<>> => k.stage >= CompleteCb
            /\ Dispatched(l, c)
            /\ net' = [net EXCEPT ![c].got = @ \o SubSeq(conn[c].output, 1, n)]
            /\ conn' = [conn EXCEPT ![c] = IF k.output = <<>> THEN disablewriting(k) ELSE k]
            /\ UNCHANGED <<status, mapVars, workVars, taskqueue_, pc, timerfd_, aa>>

\* Neither readable nor writable: errorcallback().
Error(l, c) == Running /\ Branch(l, c, "ERR") /\ CloseConnection(l, c, ErrorCb, conn[c].input)
-----------------------------------------------------------------------------
\* handlewakeup() and handletimer(), in the same IO threads.

HandleWakeup(l) ==
    /\ Running /\ Dispatched(l, "wake")
    /\ pc' = [pc EXCEPT ![l] = "drain"]
    /\ UNCHANGED <<status, conn, net, mapVars, workVars, taskqueue_, timerfd_, aa>>

\* Mutant of Queued: sendinloop() without enablewriting().
QueuedSilently(k, m) == [k EXCEPT !.output = Append(@, m)]

\* appendwithsep() and enablewriting().
Queued(k, m) == enablewriting([k EXCEPT !.output = Append(@, m)])

\* One task of the queue: Connection::sendinloop() through a raw pointer.
SendInLoop(l) ==
    /\ Running /\ pc[l] = "drain" /\ taskqueue_[l] # <<>>
    /\ LET c == Head(taskqueue_[l]).c  m == Head(taskqueue_[l]).m IN
       \/ ~Alive(c) /\ Die("use after free")
       \/ Alive(c) /\ UpdateFails(c) /\ Die("exit")
       \/ /\ Alive(c) /\ ~UpdateFails(c)
          /\ conn' = [conn EXCEPT ![c] = Queued(@, m)]
          /\ taskqueue_' = [taskqueue_ EXCEPT ![l] = Tail(@)]
          /\ UNCHANGED <<status, net, mapVars, workVars, pc, channels, timerfd_, aa>>

EndOfDrain(l) ==
    /\ Running /\ pc[l] = "drain" /\ taskqueue_[l] = <<>>
    /\ pc' = [pc EXCEPT ![l] = "dispatch"]
    /\ UNCHANGED <<status, conn, net, mapVars, workVars, taskqueue_, channels, timerfd_, aa>>

\* The keys of EventLoop::conns_ of loop l, and the one after f.
Keys(l) == {f \in Fds : f % ThreadNum = l /\ loopConns[f] # NoConn}
After(S, f) == LET later == {g \in S : g > f} IN IF later = {} THEN End ELSE Min(later)

\* The timer is re-armed and the traversal begins at begin().
HandleTimer(l) ==
    /\ Running /\ Dispatched(l, "timer")
    /\ timerfd_' = [timerfd_ EXCEPT ![l] = FALSE]
    /\ pc' = [pc EXCEPT ![l] = "sweep"]
    /\ aa' = [aa EXCEPT ![l] = After(Keys(l), End)]
    /\ UNCHANGED <<status, conn, net, mapVars, workVars, taskqueue_>>

SweepNext(l) ==
    /\ Running /\ pc[l] = "sweep" /\ (aa[l] # End => ~conn[loopConns[aa[l]]].idle)
    /\ IF aa[l] = End THEN pc' = [pc EXCEPT ![l] = "dispatch"] /\ UNCHANGED aa
       ELSE aa' = [aa EXCEPT ![l] = After(Keys(l), aa[l])] /\ UNCHANGED pc
    /\ UNCHANGED <<status, conn, net, mapVars, workVars, taskqueue_, channels, timerfd_>>

\* Mutant of SweepIdle: the value of erase() is ignored, aa stays where it was.
SweepIdleStale(l) ==
    /\ Running /\ pc[l] = "sweep" /\ aa[l] # End /\ conn[loopConns[aa[l]]].idle
    /\ loopConns' = [loopConns EXCEPT ![aa[l]] = NoConn]
    /\ fate' = [fate EXCEPT ![loopConns[aa[l]]] = @ \cup {"swept"}]
    /\ pc' = [pc EXCEPT ![l] = "remove"]
    /\ UNCHANGED <<status, conn, net, serverConns, workVars, taskqueue_, channels, timerfd_, aa>>

\* An idle connection: aa = conns_.erase(aa), with mmutex_ held, moves aa to the next
\* entry.
SweepIdle(l) ==
    /\ Running /\ pc[l] = "sweep" /\ aa[l] # End /\ conn[loopConns[aa[l]]].idle
    /\ loopConns' = [loopConns EXCEPT ![aa[l]] = NoConn]
    /\ fate' = [fate EXCEPT ![loopConns[aa[l]]] = @ \cup {"swept"}]
    /\ aa' = [aa EXCEPT ![l] = After(Keys(l), aa[l])]
    /\ pc' = [pc EXCEPT ![l] = "remove"]
    /\ UNCHANGED <<status, conn, net, serverConns, workVars, taskqueue_, channels, timerfd_>>

\* TcpServer::removeconn(): erase() of a key that need not be there.
RemoveConn(fd) ==
    /\ serverConns' = [f \in Fds |-> IF f = fd THEN NoConn ELSE serverConns[f]]
    /\ fate' = [c \in Conns |-> IF \E f \in Fds : f = fd /\ serverConns[f] = c
                                 THEN fate[c] \cup {"removed"} ELSE fate[c]]

\* timercallback_(aa->first) reads the key of the next entry; that of end() is the
\* size of the map, to which main may have added since.
RemoveExpired(l) ==
    /\ Running /\ pc[l] = "remove"
    /\ RemoveConn(IF aa[l] = End THEN Cardinality(Keys(l)) ELSE aa[l])
    /\ pc' = [pc EXCEPT ![l] = "next"]
    /\ UNCHANGED <<status, conn, net, loopConns, workVars, taskqueue_, channels, timerfd_, aa>>

\* What ++ makes of end() in libstdc++: the last element or the one before it,
\* whichever the shape of the tree gives.
PastEnd(S) == {f \in S : \A g \in S \ {Max(S)} : g <= f}

\* aa++ after a removal: from end() it runs in a circle while the map is empty.
SweepOn(l) ==
    /\ Running /\ pc[l] = "next"
    /\ \/ /\ aa[l] # End
          /\ aa' = [aa EXCEPT ![l] = After(Keys(l), aa[l])]
          /\ pc' = [pc EXCEPT ![l] = "sweep"]
       \/ /\ aa[l] = End
          /\ \E f \in PastEnd(Keys(l)) : aa' = [aa EXCEPT ![l] = f]
          /\ pc' = [pc EXCEPT ![l] = "sweep"]
       \/ /\ aa[l] = End /\ Keys(l) = {}
          /\ pc' = [pc EXCEPT ![l] = "spin"] /\ UNCHANGED aa
    /\ UNCHANGED <<status, conn, net, mapVars, workVars, taskqueue_, channels, timerfd_>>

\* The circle leads to the leftmost element as soon as main has inserted one.
SpinEnds(l) ==
    /\ Running /\ pc[l] = "spin" /\ Keys(l) # {}
    /\ aa' = [aa EXCEPT ![l] = Min(Keys(l))]
    /\ pc' = [pc EXCEPT ![l] = "sweep"]
    /\ UNCHANGED <<status, conn, net, mapVars, workVars, taskqueue_, channels, timerfd_>>

Sweep(l) == SweepNext(l) \/ SweepIdle(l) \/ RemoveExpired(l) \/ SweepOn(l) \/ SpinEnds(l)
-----------------------------------------------------------------------------
\* The worker threads.

\* Mutant of TakeTask: the newest task first.
TakeNewest(w) ==
    /\ Running /\ worker[w].at = "idle" /\ pool # <<>>
    /\ worker' = [worker EXCEPT ![w] = [at |-> "check", c |-> Last(pool).c, m |-> Last(pool).m]]
    /\ pool' = Front(pool)
    /\ UNCHANGED <<status, conn, net, mapVars, loopVars>>

\* A worker takes the oldest task and enters EchoServer::OnMessage().
TakeTask(w) ==
    /\ Running /\ worker[w].at = "idle" /\ pool # <<>>
    /\ worker' = [worker EXCEPT ![w] = [at |-> "check", c |-> Head(pool).c, m |-> Head(pool).m]]
    /\ pool' = Tail(pool)
    /\ UNCHANGED <<status, conn, net, mapVars, loopVars>>

\* Connection::send(): if (disconnect_==true) return;
SendCheck(w) ==
    /\ Running /\ worker[w].at = "check"
    /\ worker' = [worker EXCEPT ![w].at = IF conn[worker[w].c].disconnect THEN "done" ELSE "queue"]
    /\ UNCHANGED <<status, conn, net, mapVars, pool, loopVars>>

\* Mutant of SendQueue: the task is queued twice.
SendQueueTwice(w) ==
    /\ Running /\ worker[w].at = "queue"
    /\ LET c == worker[w].c  l == LoopOf(c)  task == [c |-> c, m |-> worker[w].m] IN
         /\ pc[l] # "drain"
         /\ taskqueue_' = [taskqueue_ EXCEPT ![l] = @ \o <<task, task>>]
    /\ worker' = [worker EXCEPT ![w].at = "done"]
    /\ UNCHANGED <<status, conn, net, mapVars, pool, pc, channels, timerfd_, aa>>

\* queueinloop() of sendinloop, which waits for the queue's mutex.
SendQueue(w) ==
    /\ Running /\ worker[w].at = "queue"
    /\ LET c == worker[w].c  l == LoopOf(c) IN
         /\ pc[l] # "drain"
         /\ taskqueue_' = [taskqueue_ EXCEPT ![l] = Append(@, [c |-> c, m |-> worker[w].m])]
    /\ worker' = [worker EXCEPT ![w].at = "done"]
    /\ UNCHANGED <<status, conn, net, mapVars, pool, pc, channels, timerfd_, aa>>

\* Mutant of Release: the task object keeps its reference until the next task.
ReleaseKeepsRef(w) ==
    /\ Running /\ worker[w].at = "done"
    /\ worker' = [worker EXCEPT ![w].at = "idle"]
    /\ UNCHANGED <<status, conn, net, mapVars, pool, loopVars>>

\* The task object is destroyed, and with it its reference to the connection.
Release(w) ==
    /\ Running /\ worker[w].at = "done"
    /\ worker' = [worker EXCEPT ![w] = IdleWorker]
    /\ UNCHANGED <<status, conn, net, mapVars, pool, loopVars>>
-----------------------------------------------------------------------------
\* Clients and clock.

Connect(c) ==
    /\ Running /\ net[c].peer = "none"
    /\ net' = [net EXCEPT ![c].peer = "open"]
    /\ UNCHANGED <<status, conn, mapVars, workVars, loopVars>>

\* A client may act, only after newconnection() unless it may be early.
ClientReady(c) == net[c].peer = "open" /\ (EarlyData \/ conn[c].stage = Published)

\* The requests sent so far.
Asked == {r \in Conns \X Requests : r[2] <= net[r[1]].asked}

Ask(c) ==
    /\ Running /\ ClientReady(c) /\ Cardinality(Asked) < MaxRequests
    /\ net' = [net EXCEPT ![c].asked = @ + 1, ![c].rcv = Append(@, net[c].asked + 1)]
    /\ UNCHANGED <<status, conn, mapVars, workVars, loopVars>>

\* The client closes (FIN or RST, both end in read() = 0), or its socket fails.
Leave(c) ==
    /\ Running /\ ClientReady(c)
    /\ \E how \in {"fin", "error"} : net' = [net EXCEPT ![c].peer = how]
    /\ UNCHANGED <<status, conn, mapVars, workVars, loopVars>>

\* timeout_ seconds have passed since c's last message, or its construction; only
\* handletimer() asks, and only for the connections of its map.
GoIdle(c) ==
    /\ Running /\ IdleExpiry /\ ~conn[c].idle
    /\ conn[c].stage \in Registered..InServer \/ c \in Range(loopConns)
    /\ conn' = [conn EXCEPT ![c].idle = TRUE]
    /\ UNCHANGED <<status, net, mapVars, workVars, loopVars>>

TimerExpires(l) ==
    /\ Running /\ IdleExpiry /\ ~timerfd_[l]
    /\ timerfd_' = [timerfd_ EXCEPT ![l] = TRUE]
    /\ UNCHANGED <<status, conn, net, mapVars, workVars, taskqueue_, pc, channels, aa>>
-----------------------------------------------------------------------------
MainThread == AcceptFails \/ \E c \in Conns : Accept(c) \/ NewConnection(c)

IOThread(l) ==
    \/ Poll(l) \/ EndOfBatch(l) \/ DispatchDangling(l)
    \/ \E c \in Conns : ReadClose(l, c) \/ ReadMessages(l, c) \/ Write(l, c) \/ Error(l, c)
    \/ HandleWakeup(l) \/ SendInLoop(l) \/ EndOfDrain(l)
    \/ HandleTimer(l) \/ Sweep(l)

WorkThread(w) == TakeTask(w) \/ SendCheck(w) \/ SendQueue(w) \/ Release(w)

Environment == \/ \E c \in Conns : Connect(c) \/ Ask(c) \/ Leave(c) \/ GoIdle(c)
               \/ \E l \in Loops : TimerExpires(l)

Next == \/ MainThread \/ Environment
        \/ \E l \in Loops : IOThread(l)
        \/ \E w \in Workers : WorkThread(w)

\* Every thread of the server is scheduled; clients and clock owe nothing.
Fairness == /\ WF_vars(MainThread)
            /\ \A l \in Loops : WF_vars(IOThread(l))
            /\ \A w \in Workers : WF_vars(WorkThread(w))

Spec == Init /\ [][Next]_vars
FairSpec == Spec /\ Fairness
-----------------------------------------------------------------------------
Tasks == [c : Conns, m : Requests]
Stages == 0..Published
Causes == {"running", "exit", "bad index", "terminate", "bad free", "use after free"}

\* Every variable keeps the type the code gives it.
TypeOK ==
    /\ status \in Causes
    /\ conn \in [Conns -> [stage : Stages, fd : Fds \cup {0}, events : SUBSET {"IN", "OUT"},
                           registered : BOOLEAN, disconnect : BOOLEAN, idle : BOOLEAN,
                           input : Seq(Requests), output : Seq(Requests)]]
    /\ net \in [Conns -> [peer : {"none", "open", "fin", "error"}, asked : 0..MaxRequests,
                          rcv : Seq(Requests), got : Seq(Requests)]]
    /\ serverConns \in [Fds -> Conns \cup {NoConn}]
    /\ loopConns \in [Fds -> Conns \cup {NoConn}]
    /\ fate \in [Conns -> SUBSET {"early", "swept", "removed"}]
    /\ pool \in Seq(Tasks)
    /\ worker \in [Workers -> [at : {"check", "queue", "done"}, c : Conns, m : Requests]
                              \cup {IdleWorker}]
    /\ taskqueue_ \in [Loops -> Seq(Tasks)]
    /\ pc \in [Loops -> {"poll", "dispatch", "drain", "sweep", "remove", "next", "spin"}]
    /\ channels \in [Loops -> SUBSET ((Conns \cup {"wake", "timer"})
                                        \X SUBSET {"IN", "OUT", "ERR"})]
    /\ timerfd_ \in [Loops -> BOOLEAN]
    /\ aa \in [Loops -> Fds \cup {End}]

\* The write event is armed exactly while outputbuffer_ holds something, through
\* partial sends, replies queued meanwhile and failed sends: no reply is stranded,
\* and an empty buffer does not make the IO thread spin (Connection::sendinloop(),
\* writecallback()).
OutArmed ==
    \A c \in Conns : conn[c].registered /\ Alive(c)
                       => ("OUT" \in conn[c].events <=> conn[c].output # <<>>)

\* A new connection never takes the map entry of another one, although the
\* descriptors that are the keys are reused and entries outlive the connection:
\* the descriptor stays open as long as any entry is there (~Socket through
\* ~Connection, TcpServer::newconnection(), EventLoop::newconnection()).
EntriesNotReplaced ==
    [][\A f \in Fds : /\ serverConns[f] # NoConn => serverConns'[f] \in {serverConns[f], NoConn}
                      /\ loopConns[f] # NoConn => loopConns'[f] \in {loopConns[f], NoConn}]_vars

\* Once closecallback() or errorcallback() ran for a connection no batch of
\* epoll_wait() holds its channel any more, so neither is called twice.
ClosedNotDispatched ==
    \A l \in Loops : \A e \in channels[l] : e[1] \in Conns => ~conn[e[1]].disconnect

Count(s, x) == Cardinality({i \in DOMAIN s : s[i] = x})

\* The number of places that hold request m of c, or the reply to it.
Places(c, m) ==
    LET task == [c |-> c, m |-> m] IN
    Count(net[c].rcv, m) + Count(conn[c].input, m) + Count(pool, task)
      + Cardinality({w \in Workers : /\ worker[w].at \in {"check", "queue"}
                                     /\ worker[w].c = c /\ worker[w].m = m})
      + Count(taskqueue_[LoopOf(c)], task) + Count(conn[c].output, m) + Count(net[c].got, m)

\* On its way through receive buffer, inputbuffer_, pool, worker, taskqueue_,
\* outputbuffer_ and socket no request is answered twice, and none is lost as
\* long as its connection exists and is not disconnected.
ExactlyOnce ==
    \A c \in Conns : \A m \in 1..net[c].asked :
      /\ Places(c, m) <= 1
      /\ (conn[c].stage = 0 \/ (Alive(c) /\ ~conn[c].disconnect)) => Places(c, m) = 1

\* Replies of one connection overtake each other only while their requests are in
\* the hands of different workers: both queues are FIFOs and outputbuffer_ is
\* appended to, so at most Workers - 1 earlier requests are still unanswered when a
\* reply leaves, and one worker keeps the order (addtask(), queueinloop(), sendinloop()).
OvertakingBounded ==
    \A c \in Conns : \A j \in DOMAIN net[c].got :
      Cardinality(1..(net[c].got[j] - 1) \ Range(SubSeq(net[c].got, 1, j))) < Cardinality(Workers)

\* The raw pointers do not outlive what they point to, the `this' in a queued
\* sendinloop() and the Channels of a batch, although workers and TcpServer let go of
\* a closed connection while they are pending: EventLoop::conns_ keeps it.  Only the
\* timer's sweep takes that away (Connection::send(), Epoll::loop()).
RawPointersSafe ==
    \A l \in Loops, c \in Conns :
      \/ \E e \in channels[l] : e[1] = c
      \/ \E i \in DOMAIN taskqueue_[l] : taskqueue_[l][i].c = c
      => Alive(c) \/ "swept" \in fate[c]

\* Every request of a client that stays for its reply is answered, whatever the
\* interleaving of main, loops and workers, as long as the process lives: no hand-over
\* between pool, worker, taskqueue_, outputbuffer_ and write event strands it.
AllAnswered ==
    \A c \in Conns :
      []<>(Range(net[c].got) = 1..net[c].asked \/ net[c].peer \in {"fin", "error"} \/ ~Running)

\* From the return of newconnection() on TcpServer::conns_ holds exactly the
\* connections that are not disconnected, unless a connection was closed before it was
\* stored (closeconnection() then erases nothing) or handletimer() handed its key to
\* removeconn().
ServerMapExact ==
    \A c \in Conns :
      conn[c].stage = Published /\ fate[c] \cap {"early", "removed"} = {}
        => (serverConns[conn[c].fd] = c <=> ~conn[c].disconnect)

\* Some loop is about to serve the channel of c, or to run a queued sendinloop() of it.
InBatch(c) == \E l \in Loops : pc[l] = "dispatch" /\ \E e \in channels[l] : e[1] = c
NextToSend(c) ==
    \E l \in Loops : pc[l] = "drain" /\ taskqueue_[l] # <<>> /\ Head(taskqueue_[l]).c = c

\* What can end the process, at any moment of any client: a failed accept4(); a reply
\* that was queued when its connection was closed; an event before newconnection() has
\* registered, owned and equipped the connection; HandleMessage() without workers; and
\* a connection swept away under a batch or a queued reply.  Nothing else does, such as
\* a second close of a channel, an update after remove(), or a pointer left by a close.
FailuresExplained ==
    /\ status = "exit" => \/ AcceptMayFail /\ ThreadNum = 1 /\ \E c \in Conns : Backlogged(c)
                          \/ \E c \in Conns : NextToSend(c) /\ conn[c].disconnect
                          \/ \E c \in Conns : InBatch(c) /\ conn[c].stage = Registered
    /\ status = "terminate" =>
         \E c \in Conns : InBatch(c) /\ conn[c].stage \in Registered..MessageCb
    /\ status = "bad free" => Workers = {}
    /\ status = "bad index" => AcceptMayFail /\ ThreadNum > 1 /\ \E c \in Conns : Backlogged(c)
    /\ status = "use after free" =>
         \E c \in Conns : ~Alive(c) /\ "swept" \in fate[c] /\ (InBatch(c) \/ NextToSend(c))

\* send() on a connection that is being closed is harmless (Connection::send()).
NeverExits == status # "exit"

\* A connection serves its loop's events as soon as it is created in newconnection().
NeverTerminates == status # "terminate"

\* The iterator of handletimer() stands on an entry or on end() whenever it is read or
\* advanced, while main inserts into the map between the steps of the sweep, which has
\* erased the entry it stood on.
IteratorValid ==
    \A l \in Loops : pc[l] \in {"sweep", "remove", "next"} /\ aa[l] # End
                      => loopConns[aa[l]] # NoConn

\* The sweep of l stands at c, which has expired.
FoundExpired(l, c) ==
    pc[l] = "sweep" /\ aa[l] # End /\ loopConns[aa[l]] = c /\ conn[c].idle

\* handletimer() removes an expired connection from both maps and comes back to the
\* event loop.
SweepCollects ==
    \A l \in Loops, c \in Conns :
      FoundExpired(l, c) ~> /\ pc[l] = "dispatch"
                            /\ \A f \in Fds : c \notin {serverConns[f], loopConns[f]}
=============================================================================
