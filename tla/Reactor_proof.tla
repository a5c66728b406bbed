---------------------------- MODULE Reactor_proof ----------------------------
(***************************************************************************)
(* For any number of clients, workers, loops and requests: what main, the  *)
(* IO threads and the workers do to the connections they share.            *)
(***************************************************************************)
EXTENDS Reactor_lemmas

-----------------------------------------------------------------------------
\* Types.

ConnType == [stage : Stages, fd : Fds \cup {0}, events : SUBSET {"IN", "OUT"},
             registered : BOOLEAN, disconnect : BOOLEAN, idle : BOOLEAN,
             input : Seq(Requests), output : Seq(Requests)]

NetType == [peer : {"none", "open", "fin", "error"}, asked : 0..MaxRequests,
            rcv : Seq(Requests), got : Seq(Requests)]

Revent == {"IN", "OUT", "ERR"}
Fates == [Conns -> SUBSET {"early", "swept", "removed"}]

\* A descriptor belongs to a Connection from accept4() on.
FreshFd == \A c \in Conns : conn[c].stage = 0 => conn[c].fd = 0

\* The types of the two records by name.
LEMMA NamedTypes == TypeOK => conn \in [Conns -> ConnType] /\ net \in [Conns -> NetType]
BY DEF TypeOK, ConnType, NetType

\* What the code does to a Connection leaves a Connection.
LEMMA ChangesType ==
    ASSUME NEW k \in ConnType, NEW m \in Requests, NEW q \in Seq(Requests)
    PROVE  /\ Removed(k) \in ConnType /\ Queued(k, m) \in ConnType
           /\ disablewriting(k) \in ConnType
           /\ [k EXCEPT !.input = q] \in ConnType /\ [k EXCEPT !.output = q] \in ConnType
<1>1. /\ enablereading(k) \in ConnType /\ enablewriting(k) \in ConnType
      /\ disablewriting(k) \in ConnType /\ disableall(k) \in ConnType
  BY DEF ConnType, enablereading, enablewriting, disablewriting, disableall
<1>2. [k EXCEPT !.input = q] \in ConnType /\ [k EXCEPT !.output = q] \in ConnType
  BY DEF ConnType
<1>3. [disableall(k) EXCEPT !.disconnect = TRUE, !.registered = FALSE] \in ConnType
  BY <1>1 DEF ConnType
<1>4. Queued(k, m) \in ConnType
  <2>1. PICK out \in Seq(Requests) : out = Append(k.output, m)
    BY AppendProperties DEF ConnType
  <2>2. PICK e \in ConnType : e = [k EXCEPT !.output = Append(@, m)]
    BY <2>1 DEF ConnType
  <2>. QED
    BY <2>2 DEF Queued, enablewriting, ConnType
<1>. QED
  BY <1>1, <1>2, <1>3, <1>4 DEF Removed

\* The constructor's.
LEMMA ConstructedType ==
    ASSUME NEW k \in ConnType, NEW f \in Fds
    PROVE  Constructed(k, f) \in ConnType /\ Constructed(k, f).stage = Registered
<1>1. Registered \in Stages
  BY DEF Stages, Registered, Published
<1>2. PICK e \in ConnType : e = [k EXCEPT !.stage = Registered, !.fd = f, !.registered = TRUE]
  BY <1>1 DEF ConnType
<1>3. e.stage = Registered
  BY <1>2 DEF ConnType
<1>. QED
  BY <1>2, <1>3 DEF Constructed, enablereading, ConnType

\* The process ends: nothing else changes.
LEMMA DieTypes ==
    ASSUME TypeOK, NEW how \in Causes, Die(how)
    PROVE  TypeOK'
BY DEF Die, TypeOK, mapVars, workVars, loopVars

\* Steps on one connection and its socket.
LEMMA ConnTypes ==
    ASSUME TypeOK, NEW c \in Conns, NEW k \in ConnType, NEW n \in NetType,
           conn' = [conn EXCEPT ![c] = k], net' = [net EXCEPT ![c] = n],
           serverConns' \in [Fds -> Conns \cup {NoConn}],
           loopConns' \in [Fds -> Conns \cup {NoConn}],
           fate' \in Fates, pool' \in Seq(Tasks),
           taskqueue_' \in [Loops -> Seq(Tasks)],
           channels' \in [Loops -> SUBSET ((Conns \cup {"wake", "timer"}) \X SUBSET Revent)],
           UNCHANGED <<status, worker, pc, timerfd_, aa>>
    PROVE  TypeOK'
BY DEF TypeOK, ConnType, NetType, Revent, Fates

\* main accepts a connection and stores it.
LEMMA MainTypes ==
    ASSUME TypeOK, FreshFd, MainThread
    PROVE  TypeOK' /\ FreshFd'
<1>. USE DEF mapVars, workVars, loopVars
<1>1. ASSUME NEW c \in Conns, Accept(c) PROVE TypeOK' /\ FreshFd'
  <2>1. conn[c].stage = 0 /\ conn[c].fd \notin Fds
    BY <1>1, FdsAre DEF Accept, Backlogged, FreshFd, End
  <2>2. PICK k \in ConnType : k = Constructed(conn[c], AcceptedFd) /\ k.stage = Registered
    <3>1. AcceptedFd \in Fds /\ conn[c] \in ConnType
      BY <2>1, AcceptedFdIsFree DEF TypeOK, ConnType
    <3>2. Constructed(conn[c], AcceptedFd) \in ConnType
          /\ Constructed(conn[c], AcceptedFd).stage = Registered
      <4>1. PICK f \in Fds : f = AcceptedFd
        BY <3>1
      <4>. QED
        BY <3>1, <4>1, ConstructedType
    <3>. QED
      BY <3>2
  <2>3. conn' = [conn EXCEPT ![c] = k]
    BY <1>1, <2>2 DEF Accept
  <2>4. TypeOK'
    BY <1>1, <2>3 DEF Accept, TypeOK, ConnType
  <2>. QED
    BY <2>2, <2>3, <2>4, NamedTypes DEF FreshFd, Registered
<1>2. CASE AcceptFails
  <2>1. PICK how \in Causes : Die(how)
    BY <1>2 DEF AcceptFails, Causes
  <2>2. UNCHANGED conn
    BY <2>1 DEF Die
  <2>3. TypeOK'
    BY <2>1, DieTypes
  <2>. QED
    BY <2>2, <2>3 DEF FreshFd
<1>3. ASSUME NEW c \in Conns, NewConnection(c) PROVE TypeOK' /\ FreshFd'
  <2>1. conn[c].stage + 1 \in Stages /\ conn[c].stage # 0
    BY <1>3 DEF NewConnection, Stages, Registered, InLoop, Published
  <2>2. PICK k \in ConnType : k = [conn[c] EXCEPT !.stage = @ + 1]
    <3>1. PICK e \in ConnType : e = conn[c]
      BY DEF TypeOK, ConnType
    <3>2. PICK st \in Stages : st = e.stage + 1
      BY <2>1, <3>1
    <3>3. [e EXCEPT !.stage = st] \in ConnType
      BY <3>1, <3>2 DEF ConnType
    <3>. QED
      BY <3>1, <3>2, <3>3
  <2>3. serverConns' \in [Fds -> Conns \cup {NoConn}]
        /\ loopConns' \in [Fds -> Conns \cup {NoConn}]
    BY <1>3 DEF NewConnection, TypeOK
  <2>4. TypeOK'
    BY <1>3, <2>2, <2>3 DEF NewConnection, TypeOK, ConnType
  <2>5. k.stage # 0
    BY <1>3, <2>2 DEF NewConnection, TypeOK, Registered, InLoop
  <2>6. FreshFd'
    BY <1>3, <2>2, <2>5 DEF NewConnection, FreshFd, TypeOK
  <2>. QED
    BY <2>4, <2>6
<1>. QED
  BY <1>1, <1>2, <1>3 DEF MainThread

\* Taking a channel out of the batch leaves a batch.
LEMMA BatchTypes ==
    ASSUME TypeOK, NEW l \in Loops, NEW ch, Dispatched(l, ch)
    PROVE  channels' \in [Loops -> SUBSET ((Conns \cup {"wake", "timer"}) \X SUBSET Revent)]
<1>1. channels \in [Loops -> SUBSET ((Conns \cup {"wake", "timer"}) \X SUBSET Revent)]
  BY DEF TypeOK, Revent
<1>2. PICK e \in channels[l] : channels' = [channels EXCEPT ![l] = @ \ {e}]
  BY DEF Dispatched
<1>. QED
  BY <1>1, <1>2

\* The socket's receive buffer is read until it is empty.
LEMMA EmptiedType ==
    ASSUME TypeOK, NEW c \in Conns
    PROVE  [net[c] EXCEPT !.rcv = <<>>] \in NetType
<1>1. PICK n \in NetType, q \in Seq(Requests) : n = net[c] /\ q = <<>>
  <2>1. net[c] \in NetType /\ <<>> \in Seq(Requests)
    BY NamedTypes, EmptySeq
  <2>. QED
    BY <2>1, Zenon
<1>2. [n EXCEPT !.rcv = q] \in NetType
  BY DEF NetType
<1>. QED
  BY <1>1, <1>2

\* Closing a connection, from either callback.
LEMMA CloseTypes ==
    ASSUME TypeOK, NEW l \in Loops, NEW c \in Conns, NEW cb, NEW input \in Seq(Requests),
           CloseConnection(l, c, cb, input)
    PROVE  TypeOK'
<1>1. CASE CloseFailure(c, cb) # "none"
  <2>1. CloseFailure(c, cb) \in Causes
    BY <1>1 DEF CloseFailure, Causes
  <2>2. Die(CloseFailure(c, cb))
    BY <1>1 DEF CloseConnection
  <2>. QED
    BY <2>1, <2>2, DieTypes
<1>2. CASE CloseFailure(c, cb) = "none"
  <2>1. PICK k \in ConnType : k = [Removed(conn[c]) EXCEPT !.input = input]
    <3>1. PICK e \in ConnType : e = Removed(conn[c])
      <4>1. PICK r \in ConnType : r = conn[c]
        BY NamedTypes
      <4>2. Removed(r) \in ConnType
        BY DEF Removed, disableall, ConnType
      <4>. QED
        BY <4>1, <4>2
    <3>. QED
      BY <3>1 DEF ConnType
  <2>2. PICK n \in NetType : n = [net[c] EXCEPT !.rcv = <<>>]
    BY EmptiedType
  <2>3. /\ conn' = [conn EXCEPT ![c] = k] /\ net' = [net EXCEPT ![c] = n]
        /\ serverConns' = [serverConns EXCEPT ![conn[c].fd] = NoConn]
        /\ Dispatched(l, c) /\ ClosedAt(c)
        /\ UNCHANGED <<status, loopConns, workVars, taskqueue_, pc, timerfd_, aa>>
    BY <1>2, <2>1, <2>2 DEF CloseConnection
  <2>4. /\ serverConns' \in [Fds -> Conns \cup {NoConn}]
        /\ loopConns' \in [Fds -> Conns \cup {NoConn}] /\ pool' \in Seq(Tasks)
        /\ taskqueue_' \in [Loops -> Seq(Tasks)] /\ UNCHANGED worker
    BY <2>3 DEF TypeOK, workVars
  <2>5. fate' \in Fates
    BY <2>3 DEF TypeOK, ClosedAt, Fates
  <2>. QED
    BY <2>3, <2>4, <2>5, BatchTypes, ConnTypes
<1>. QED
  BY <1>1, <1>2

\* What reaches the worker pool are tasks of the connection.
LEMMA MessagesType ==
    ASSUME TypeOK, NEW c \in Conns, NEW msgs \in Seq(Requests)
    PROVE  HandleMessages(c, msgs) \in Seq(Tasks)
<1>1. PICK q : q = [i \in DOMAIN msgs |-> [c |-> c, m |-> msgs[i]]]
  OBVIOUS
<1>2. q \in Seq(Tasks)
  <2>1. Len(msgs) \in Nat /\ DOMAIN msgs = 1..Len(msgs)
    BY LenProperties
  <2>2. \A i \in 1..Len(msgs) : [c |-> c, m |-> msgs[i]] \in Tasks
    BY ElementOfSeq DEF Tasks
  <2>. QED
    BY <1>1, <2>1, <2>2, IsASeq
<1>3. pool \in Seq(Tasks)
  BY DEF TypeOK
<1>. QED
  BY <1>1, <1>2, <1>3, ConcatProperties DEF HandleMessages

\* Reading until EAGAIN.
LEMMA ReadTypes ==
    ASSUME TypeOK, NEW l \in Loops, NEW c \in Conns, ReadMessages(l, c)
    PROVE  TypeOK'
<1>1. PICK msgs \in Seq(Requests) : msgs = conn[c].input \o net[c].rcv
  <2>1. conn[c].input \in Seq(Requests) /\ net[c].rcv \in Seq(Requests)
    BY NamedTypes DEF ConnType, NetType
  <2>. QED
    BY <2>1, ConcatProperties
<1>2. CASE msgs # <<>> /\ DeliverFailure(c) # "none" /\ Die(DeliverFailure(c))
  <2>1. DeliverFailure(c) \in Causes
    BY <1>2 DEF DeliverFailure, Causes
  <2>. QED
    BY <1>2, <2>1, DieTypes
<1>3. CASE ~(msgs # <<>> /\ DeliverFailure(c) # "none" /\ Die(DeliverFailure(c)))
  <2>1. PICK k \in ConnType : k = [conn[c] EXCEPT !.input = <<>>, !.idle = @ /\ msgs = <<>>]
    <3>1. PICK e \in ConnType : e = conn[c]
      BY NamedTypes
    <3>2. PICK b \in BOOLEAN : b = (e.idle /\ msgs = <<>>)
      BY Zenon
    <3>3. PICK q \in Seq(Requests) : q = <<>>
      BY EmptySeq, Zenon
    <3>4. [e EXCEPT !.input = q, !.idle = b] \in ConnType
      BY DEF ConnType
    <3>. QED
      BY <3>1, <3>2, <3>3, <3>4
  <2>2. PICK n \in NetType : n = [net[c] EXCEPT !.rcv = <<>>]
    BY EmptiedType
  <2>3. /\ Dispatched(l, c)
        /\ conn' = [conn EXCEPT ![c].input = <<>>, ![c].idle = @ /\ msgs = <<>>]
        /\ net' = [net EXCEPT ![c] = n] /\ pool' = HandleMessages(c, msgs)
        /\ UNCHANGED <<status, mapVars, worker, taskqueue_, pc, timerfd_, aa>>
    BY <1>1, <1>3, <2>2 DEF ReadMessages
  <2>4. conn' = [conn EXCEPT ![c] = k]
    BY <2>1, <2>3, NamedTypes
  <2>5. /\ serverConns' \in [Fds -> Conns \cup {NoConn}]
        /\ loopConns' \in [Fds -> Conns \cup {NoConn}]
        /\ taskqueue_' \in [Loops -> Seq(Tasks)] /\ fate' \in Fates
    BY <2>3 DEF TypeOK, mapVars, Fates
  <2>6. pool' \in Seq(Tasks)
    BY <2>3, MessagesType
  <2>. QED
    BY <2>3, <2>4, <2>5, <2>6, BatchTypes, ConnTypes
<1>. QED
  BY <1>2, <1>3

\* writecallback() moves the front of outputbuffer_ to the client.
LEMMA WriteTypes ==
    ASSUME TypeOK, NEW l \in Loops, NEW c \in Conns, Write(l, c)
    PROVE  TypeOK'
<1>1. PICK r \in ConnType, t \in NetType : r = conn[c] /\ t = net[c]
  BY NamedTypes
<1>2. PICK n \in SendResults(c, Len(r.output)) :
        LET k == [r EXCEPT !.output = Erased(@, n)] IN
        \/ Die("terminate")
        \/ /\ Dispatched(l, c)
           /\ net' = [net EXCEPT ![c].got = @ \o SubSeq(r.output, 1, n)]
           /\ conn' = [conn EXCEPT ![c] = IF k.output = <<>> THEN disablewriting(k) ELSE k]
           /\ UNCHANGED <<status, mapVars, workVars, taskqueue_, pc, timerfd_, aa>>
  BY <1>1 DEF Write
<1>3. CASE Die("terminate")
  BY <1>3, DieTypes DEF Causes
<1>4. CASE ~Die("terminate")
  <2>1. r.output \in Seq(Requests) /\ t.got \in Seq(Requests) /\ n \in 0..Len(r.output)
    BY LenProperties DEF ConnType, NetType, SendResults
  <2>2. PICK out \in Seq(Requests), sent \in Seq(Requests) :
          out = Erased(r.output, n) /\ sent = SubSeq(r.output, 1, n)
    BY <2>1, CutOf
  <2>3. PICK got \in Seq(Requests) : got = t.got \o sent
    BY <2>1, ConcatProperties
  <2>4. PICK k \in ConnType : k = [r EXCEPT !.output = out]
    BY DEF ConnType
  <2>5. disablewriting(k) \in ConnType
    BY DEF ConnType, disablewriting
  <2>6. PICK d \in ConnType : d = IF k.output = <<>> THEN disablewriting(k) ELSE k
    BY <2>5
  <2>7. PICK u \in NetType : u = [t EXCEPT !.got = got]
    BY DEF NetType
  <2>8. /\ Dispatched(l, c)
        /\ net' = [net EXCEPT ![c].got = @ \o SubSeq(r.output, 1, n)]
        /\ conn' = [conn EXCEPT ![c] = d]
        /\ UNCHANGED <<status, mapVars, workVars, taskqueue_, pc, timerfd_, aa>>
    BY <1>2, <1>4, <2>2, <2>4, <2>6
  <2>9. net' = [net EXCEPT ![c] = u]
    BY <1>1, <2>2, <2>3, <2>7, <2>8
  <2>10. /\ serverConns' \in [Fds -> Conns \cup {NoConn}] /\ UNCHANGED worker
         /\ loopConns' \in [Fds -> Conns \cup {NoConn}] /\ pool' \in Seq(Tasks)
         /\ taskqueue_' \in [Loops -> Seq(Tasks)] /\ fate' \in Fates
    BY <2>8 DEF TypeOK, mapVars, workVars, Fates
  <2>. QED
    BY <2>8, <2>9, <2>10, BatchTypes, ConnTypes
<1>. QED
  BY <1>3, <1>4

\* sendinloop() moves a task to outputbuffer_.
LEMMA SendInLoopTypes ==
    ASSUME TypeOK, NEW l \in Loops, SendInLoop(l)
    PROVE  TypeOK'
<1>1. PICK q \in Seq(Tasks) : q = taskqueue_[l] /\ q # <<>>
  BY DEF TypeOK, SendInLoop
<1>2. PICK task \in Tasks : task = Head(q)
  BY <1>1, HeadTailProperties
<1>3. PICK rest \in Seq(Tasks) : rest = Tail(q)
  BY <1>1, HeadTailProperties
<1>4. PICK c \in Conns, m \in Requests : c = task.c /\ m = task.m
  BY DEF Tasks
<1>5. CASE Die("use after free") \/ Die("exit")
  BY <1>5, DieTypes DEF Causes
<1>6. CASE ~(Die("use after free") \/ Die("exit"))
  <2>1. /\ conn' = [conn EXCEPT ![c] = Queued(@, m)]
        /\ taskqueue_' = [taskqueue_ EXCEPT ![l] = rest]
        /\ UNCHANGED <<status, net, mapVars, workVars, pc, channels, timerfd_, aa>>
    BY <1>1, <1>2, <1>3, <1>4, <1>6 DEF SendInLoop
  <2>2. PICK r \in ConnType : r = conn[c]
    BY NamedTypes
  <2>3. PICK k \in ConnType : k = Queued(r, m)
    <3>1. <<>> \in Seq(Requests)
      BY EmptySeq
    <3>. QED
      BY <3>1, ChangesType
  <2>4. conn' = [conn EXCEPT ![c] = k] /\ net' = [net EXCEPT ![c] = net[c]]
    BY <2>1, <2>2, <2>3, NamedTypes
  <2>5. /\ serverConns' \in [Fds -> Conns \cup {NoConn}] /\ UNCHANGED worker
        /\ loopConns' \in [Fds -> Conns \cup {NoConn}] /\ pool' \in Seq(Tasks)
        /\ taskqueue_' \in [Loops -> Seq(Tasks)] /\ fate' \in Fates
        /\ channels' \in [Loops -> SUBSET ((Conns \cup {"wake", "timer"}) \X SUBSET Revent)]
    BY <2>1 DEF TypeOK, mapVars, workVars, Revent, Fates
  <2>6. net[c] \in NetType
    BY NamedTypes
  <2>. QED
    BY <2>1, <2>4, <2>5, <2>6, ConnTypes
<1>. QED
  BY <1>5, <1>6

\* A map with entries has a leftmost one.
LEMMA MinOfKeys ==
    ASSUME NEW l \in Loops, Keys(l) # {}
    PROVE  Min(Keys(l)) \in Keys(l)
<1>1. Keys(l) \subseteq Nat
  BY FdsAre DEF Keys
<1>. QED
  BY <1>1, MinOf

\* The loop's own steps, which touch no connection but may erase map entries.
LEMMA LoopTypes ==
    ASSUME TypeOK, NEW l \in Loops,
           \/ Poll(l) \/ EndOfBatch(l) \/ HandleWakeup(l) \/ EndOfDrain(l)
           \/ HandleTimer(l) \/ Sweep(l)
    PROVE  TypeOK'
<1>. USE DEF mapVars, workVars
<1>1. CASE Poll(l)
  <2>1. \A c \in Conns : <<c, Revents(c)>> \in (Conns \cup {"wake", "timer"}) \X SUBSET Revent
    BY NamedTypes DEF Revents, Revent, ConnType
  <2>2. channels' \in [Loops -> SUBSET ((Conns \cup {"wake", "timer"}) \X SUBSET Revent)]
    <3>1. channels \in [Loops -> SUBSET ((Conns \cup {"wake", "timer"}) \X SUBSET Revent)]
      BY DEF TypeOK, Revent
    <3>2. {<<c, Revents(c)>> : c \in ReadyConns(l)}
            \subseteq (Conns \cup {"wake", "timer"}) \X SUBSET Revent
      BY <2>1 DEF ReadyConns
    <3>3. <<"wake", {"IN"}>> \in (Conns \cup {"wake", "timer"}) \X SUBSET Revent
          /\ <<"timer", {"IN"}>> \in (Conns \cup {"wake", "timer"}) \X SUBSET Revent
      BY DEF Revent
    <3>. QED
      BY <1>1, <3>1, <3>2, <3>3 DEF Poll
  <2>. QED
    BY <1>1, <2>2 DEF Poll, TypeOK, Revent
<1>2. CASE EndOfBatch(l)
  BY <1>2 DEF EndOfBatch, TypeOK
<1>3. CASE HandleWakeup(l)
  <2>1. channels' \in [Loops -> SUBSET ((Conns \cup {"wake", "timer"}) \X SUBSET Revent)]
    BY <1>3, BatchTypes DEF HandleWakeup
  <2>. QED
    BY <1>3, <2>1 DEF HandleWakeup, TypeOK, Revent
<1>4. CASE EndOfDrain(l)
  BY <1>4 DEF EndOfDrain, TypeOK
<1>5. \A f \in Fds \cup {End} : After(Keys(l), f) \in Fds \cup {End}
  <2>1. Keys(l) \subseteq Fds /\ Fds \subseteq Nat /\ End \in Nat
    BY FdsAre DEF Keys, End
  <2>. QED
    BY <2>1, AfterOf
<1>6. CASE HandleTimer(l)
  <2>1. channels' \in [Loops -> SUBSET ((Conns \cup {"wake", "timer"}) \X SUBSET Revent)]
    BY <1>6, BatchTypes DEF HandleTimer
  <2>2. aa' \in [Loops -> Fds \cup {End}]
    BY <1>5, <1>6 DEF HandleTimer, TypeOK
  <2>. QED
    BY <1>6, <2>1, <2>2 DEF HandleTimer, TypeOK, Revent
<1>7. CASE SweepNext(l)
  <2>0. /\ pc \in [Loops -> {"poll", "dispatch", "drain", "sweep", "remove", "next", "spin"}]
        /\ aa \in [Loops -> Fds \cup {End}]
    BY DEF TypeOK
  <2>1. aa' \in [Loops -> Fds \cup {End}]
    BY <1>5, <1>7, <2>0 DEF SweepNext
  <2>2. pc' \in [Loops -> {"poll", "dispatch", "drain", "sweep", "remove", "next", "spin"}]
    BY <1>7, <2>0 DEF SweepNext
  <2>3. UNCHANGED <<status, conn, net, mapVars, workVars, taskqueue_, channels, timerfd_>>
    BY <1>7 DEF SweepNext
  <2>. QED
    BY <2>1, <2>2, <2>3, SMTT(20) DEF TypeOK
<1>8. CASE SweepIdle(l)
  <2>1. aa[l] \in Fds /\ loopConns \in [Fds -> Conns \cup {NoConn}]
    BY <1>8 DEF SweepIdle, TypeOK
  <2>2. aa' \in [Loops -> Fds \cup {End}]
    BY <1>5, <1>8, <2>1 DEF SweepIdle, TypeOK
  <2>3. /\ loopConns' \in [Fds -> Conns \cup {NoConn}]
        /\ fate' \in [Conns -> SUBSET {"early", "swept", "removed"}]
    BY <1>8, <2>1 DEF SweepIdle, TypeOK
  <2>4. pc' \in [Loops -> {"poll", "dispatch", "drain", "sweep", "remove", "next", "spin"}]
    BY <1>8 DEF SweepIdle, TypeOK
  <2>. QED
    BY <1>8, <2>2, <2>3, <2>4 DEF SweepIdle, TypeOK
<1>9. CASE RemoveExpired(l)
  <2>1. PICK fd : RemoveConn(fd)
    BY <1>9 DEF RemoveExpired
  <2>2. /\ serverConns' \in [Fds -> Conns \cup {NoConn}]
        /\ fate' \in [Conns -> SUBSET {"early", "swept", "removed"}]
    BY <2>1, ZenonT(60) DEF TypeOK, RemoveConn
  <2>3. pc' \in [Loops -> {"poll", "dispatch", "drain", "sweep", "remove", "next", "spin"}]
    BY <1>9 DEF RemoveExpired, TypeOK
  <2>. QED
    BY <1>9, <2>2, <2>3 DEF RemoveExpired, TypeOK
<1>10. CASE SweepOn(l) \/ SpinEnds(l)
  <2>1. PastEnd(Keys(l)) \subseteq Fds /\ (Keys(l) # {} => Min(Keys(l)) \in Fds)
    BY MinOfKeys DEF PastEnd, Keys
  <2>2. aa' \in [Loops -> Fds \cup {End}]
    <3>1. CASE SweepOn(l)
      <4>1. \/ aa' = [aa EXCEPT ![l] = After(Keys(l), aa[l])] /\ After(Keys(l), aa[l]) \in Fds \cup {End}
            \/ \E f \in PastEnd(Keys(l)) : aa' = [aa EXCEPT ![l] = f]
            \/ UNCHANGED aa
        BY <1>5, <3>1 DEF SweepOn, TypeOK
      <4>2. aa \in [Loops -> Fds \cup {End}]
        BY DEF TypeOK
      <4>. QED
        BY <2>1, <4>1, <4>2
    <3>2. CASE SpinEnds(l)
      BY <2>1, <3>2 DEF SpinEnds, TypeOK
    <3>. QED
      BY <1>10, <3>1, <3>2
  <2>3. pc' \in [Loops -> {"poll", "dispatch", "drain", "sweep", "remove", "next", "spin"}]
    <3>1. pc \in [Loops -> {"poll", "dispatch", "drain", "sweep", "remove", "next", "spin"}]
      BY DEF TypeOK
    <3>2. pc' = [pc EXCEPT ![l] = "sweep"] \/ pc' = [pc EXCEPT ![l] = "spin"]
      BY <1>10 DEF SweepOn, SpinEnds
    <3>. QED
      BY <3>1, <3>2
  <2>4. UNCHANGED <<status, conn, net, mapVars, workVars, taskqueue_, channels, timerfd_>>
    BY <1>10 DEF SweepOn, SpinEnds
  <2>. QED
    BY <2>2, <2>3, <2>4, SMTT(20) DEF TypeOK
<1>. QED
  BY <1>1, <1>2, <1>3, <1>4, <1>6, <1>7, <1>8, <1>9, <1>10 DEF Sweep

\* The worker threads.
LEMMA WorkTypes ==
    ASSUME TypeOK, NEW w \in Workers, WorkThread(w)
    PROVE  TypeOK'
<1>. USE DEF mapVars, loopVars
<1>1. CASE TakeTask(w)
  <2>1. PICK task \in Tasks : task = Head(pool)
    <3>1. pool \in Seq(Tasks) /\ pool # <<>>
      BY <1>1 DEF TypeOK, TakeTask
    <3>. QED
      BY <3>1, HeadTailProperties
  <2>2. pool' \in Seq(Tasks)
    <3>1. pool \in Seq(Tasks) /\ pool # <<>>
      BY <1>1 DEF TypeOK, TakeTask
    <3>. QED
      BY <1>1, <3>1, HeadTailProperties DEF TakeTask
  <2>3. [at |-> "check", c |-> task.c, m |-> task.m]
          \in [at : {"check", "queue", "done"}, c : Conns, m : Requests]
    BY DEF Tasks
  <2>4. worker' = [worker EXCEPT ![w] = [at |-> "check", c |-> task.c, m |-> task.m]]
    BY <1>1, <2>1 DEF TakeTask
  <2>. QED
    BY <1>1, <2>2, <2>3, <2>4, SMTT(30) DEF TakeTask, TypeOK
<1>2. ASSUME worker[w] # IdleWorker, NEW x \in {"check", "queue", "done"},
             worker' = [worker EXCEPT ![w].at = x]
      PROVE  worker' \in [Workers -> [at : {"check", "queue", "done"}, c : Conns, m : Requests]
                                     \cup {IdleWorker}]
  <2>1. PICK r \in [at : {"check", "queue", "done"}, c : Conns, m : Requests] : r = worker[w]
    BY <1>2 DEF TypeOK
  <2>2. [r EXCEPT !.at = x] \in [at : {"check", "queue", "done"}, c : Conns, m : Requests]
    OBVIOUS
  <2>3. worker' = [worker EXCEPT ![w] = [r EXCEPT !.at = x]]
    BY <1>2, <2>1
  <2>. QED
    BY <2>2, <2>3 DEF TypeOK
<1>3. CASE SendCheck(w)
  <2>1. worker[w] # IdleWorker
    BY <1>3 DEF SendCheck, IdleWorker
  <2>2. worker' \in [Workers -> [at : {"check", "queue", "done"}, c : Conns, m : Requests]
                                 \cup {IdleWorker}]
    BY <1>2, <1>3, <2>1 DEF SendCheck
  <2>. QED
    BY <1>3, <2>2 DEF SendCheck, TypeOK
<1>4. CASE SendQueue(w)
  <2>1. worker[w] # IdleWorker
    BY <1>4 DEF SendQueue, IdleWorker
  <2>2. worker' \in [Workers -> [at : {"check", "queue", "done"}, c : Conns, m : Requests]
                                 \cup {IdleWorker}]
    BY <1>2, <1>4, <2>1 DEF SendQueue
  <2>3. PICK task \in Tasks : task = [c |-> worker[w].c, m |-> worker[w].m]
    <3>1. worker[w] \in [at : {"check", "queue", "done"}, c : Conns, m : Requests]
      BY <2>1 DEF TypeOK
    <3>2. [c |-> worker[w].c, m |-> worker[w].m] \in Tasks
      BY <3>1 DEF Tasks
    <3>. QED
      BY <3>2
  <2>4. taskqueue_' \in [Loops -> Seq(Tasks)]
    <3>1. taskqueue_ \in [Loops -> Seq(Tasks)]
      BY DEF TypeOK
    <3>2. \A k \in Loops : Append(taskqueue_[k], task) \in Seq(Tasks)
      BY <3>1, AppendProperties
    <3>3. taskqueue_' = [taskqueue_ EXCEPT ![LoopOf(worker[w].c)] = Append(@, task)]
      BY <1>4, <2>3 DEF SendQueue
    <3>. QED
      BY <3>1, <3>2, <3>3
  <2>. QED
    BY <1>4, <2>2, <2>4 DEF SendQueue, TypeOK
<1>5. CASE Release(w)
  BY <1>5 DEF Release, TypeOK
<1>. QED
  BY <1>1, <1>3, <1>4, <1>5 DEF WorkThread

\* Clients and clock.
LEMMA EnvTypes ==
    ASSUME TypeOK, Environment
    PROVE  TypeOK'
<1>. USE DEF mapVars, workVars, loopVars
<1>1. ASSUME NEW c \in Conns, NEW n \in NetType, net' = [net EXCEPT ![c] = n],
             UNCHANGED <<status, conn, mapVars, workVars, loopVars>>
      PROVE  TypeOK'
  BY <1>1 DEF TypeOK, NetType
<1>2. ASSUME NEW c \in Conns, NEW p \in {"open", "fin", "error"}, net' = [net EXCEPT ![c].peer = p],
             UNCHANGED <<status, conn, mapVars, workVars, loopVars>>
      PROVE  TypeOK'
  <2>1. PICK n \in NetType : n = [net[c] EXCEPT !.peer = p]
    <3>1. PICK r \in NetType : r = net[c]
      BY NamedTypes
    <3>2. [r EXCEPT !.peer = p] \in NetType
      BY DEF NetType
    <3>. QED
      BY <3>1, <3>2
  <2>. QED
    BY <1>1, <1>2, <2>1
<1>3. ASSUME NEW c \in Conns, Connect(c) \/ Leave(c) PROVE TypeOK'
  BY <1>2, <1>3 DEF Connect, Leave
<1>4. ASSUME NEW c \in Conns, Ask(c) PROVE TypeOK'
  <2>1. PICK r \in NetType : r = net[c]
    BY NamedTypes
  <2>2. PICK a \in Requests : a = r.asked + 1
    <3>1. r.asked \in Nat
      BY DEF NetType
    <3>2. r.asked < MaxRequests
      BY <1>4, <2>1, <3>1, AskedBound DEF Ask
    <3>. QED
      BY <3>1, <3>2, ReactorAssumption DEF Requests
  <2>3. PICK q \in Seq(Requests) : q = Append(r.rcv, a)
    BY AppendProperties DEF NetType
  <2>4. PICK n \in NetType : n = [r EXCEPT !.asked = a, !.rcv = q]
    <3>1. a \in 0..MaxRequests
      BY ReactorAssumption DEF Requests
    <3>. QED
      BY <3>1 DEF NetType
  <2>5. net' = [net EXCEPT ![c] = n]
    BY <1>4, <2>1, <2>2, <2>3, <2>4 DEF Ask
  <2>. QED
    BY <1>1, <1>4, <2>5 DEF Ask
<1>5. ASSUME NEW c \in Conns, GoIdle(c) PROVE TypeOK'
  <2>1. PICK r \in ConnType : r = conn[c]
    BY NamedTypes
  <2>2. [r EXCEPT !.idle = TRUE] \in ConnType
    BY DEF ConnType
  <2>3. conn' = [conn EXCEPT ![c] = [r EXCEPT !.idle = TRUE]]
    BY <1>5, <2>1 DEF GoIdle
  <2>4. conn' \in [Conns -> ConnType]
    BY <2>2, <2>3, NamedTypes
  <2>. QED
    BY <1>5, <2>4 DEF GoIdle, TypeOK, ConnType
<1>6. ASSUME NEW l \in Loops, TimerExpires(l) PROVE TypeOK'
  BY <1>6 DEF TimerExpires, TypeOK
<1>. QED
  BY <1>3, <1>4, <1>5, <1>6 DEF Environment

-----------------------------------------------------------------------------
\* What a step of a loop does to the connection it serves.

\* The process has ended.
Dead == UNCHANGED <<conn, net, mapVars, workVars, loopVars>>

\* The fields that closecallback() and errorcallback() set, and leave alone.
LEMMA RemovedIs ==
    ASSUME NEW k \in ConnType, NEW q
    PROVE  LET r == [Removed(k) EXCEPT !.input = q] IN
           /\ r.stage = k.stage /\ r.fd = k.fd /\ r.events = {} /\ ~r.registered /\ r.disconnect
           /\ r.idle = k.idle /\ r.input = q /\ r.output = k.output
BY DEF Removed, disableall, ConnType

\* The same of sendinloop() and of disablewriting().
LEMMA QueuedIs ==
    ASSUME NEW k \in ConnType, NEW m
    PROVE  LET r == Queued(k, m) IN
           /\ r.stage = k.stage /\ r.fd = k.fd /\ r.events = k.events \cup {"OUT"}
           /\ r.registered = k.registered /\ r.disconnect = k.disconnect
           /\ r.idle = k.idle /\ r.input = k.input /\ r.output = Append(k.output, m)
<1>1. PICK q : q = Append(k.output, m)
  OBVIOUS
<1>2. PICK e : e = [k EXCEPT !.output = q]
  OBVIOUS
<1>3. /\ e.stage = k.stage /\ e.fd = k.fd /\ e.events = k.events
      /\ e.registered = k.registered /\ e.disconnect = k.disconnect
      /\ e.idle = k.idle /\ e.input = k.input /\ e.output = q
  BY <1>2 DEF ConnType
<1>4. Queued(k, m) = [e EXCEPT !.events = @ \cup {"OUT"}]
  BY <1>1, <1>2 DEF Queued, enablewriting
<1>. QED
  BY <1>1, <1>2, <1>3, <1>4 DEF ConnType

\* Connection::closecallback() and errorcallback() end the process or tear the
\* connection down.
LEMMA CloseEffect ==
    ASSUME TypeOK, NEW l, NEW c \in Conns, NEW cb, NEW input, CloseConnection(l, c, cb, input)
    PROVE  \/ Dead
           \/ /\ CloseFailure(c, cb) = "none" /\ Dispatched(l, c)
              /\ conn' = [conn EXCEPT ![c] = [Removed(conn[c]) EXCEPT !.input = input]]
              /\ net' = [net EXCEPT ![c].rcv = <<>>]
              /\ serverConns' = [serverConns EXCEPT ![conn[c].fd] = NoConn] /\ ClosedAt(c)
              /\ UNCHANGED <<status, loopConns, workVars, taskqueue_, pc, timerfd_, aa>>
BY DEF CloseConnection, Die, Dead

\* onmessage() ends the process or hands everything that has arrived to the pool.
LEMMA ReadEffect ==
    ASSUME TypeOK, NEW l, NEW c \in Conns, ReadMessages(l, c)
    PROVE  \/ Dead
           \/ /\ conn[c].input \o net[c].rcv # <<>> => conn[c].stage >= MessageCb
              /\ Dispatched(l, c)
              /\ \E b \in BOOLEAN :
                   conn' = [conn EXCEPT ![c] = [conn[c] EXCEPT !.input = <<>>, !.idle = conn[c].idle /\ b]]
              /\ net' = [net EXCEPT ![c].rcv = <<>>]
              /\ pool' = HandleMessages(c, conn[c].input \o net[c].rcv)
              /\ UNCHANGED <<status, mapVars, worker, taskqueue_, pc, timerfd_, aa>>
<1>1. PICK msgs : msgs = conn[c].input \o net[c].rcv
  OBVIOUS
<1>2. CASE Die(DeliverFailure(c))
  BY <1>2 DEF Die, Dead
<1>3. CASE ~Die(DeliverFailure(c))
  <2>1. /\ msgs # <<>> => DeliverFailure(c) = "none"
        /\ Dispatched(l, c)
        /\ conn' = [conn EXCEPT ![c].input = <<>>, ![c].idle = @ /\ msgs = <<>>]
        /\ net' = [net EXCEPT ![c].rcv = <<>>]
        /\ pool' = HandleMessages(c, msgs)
        /\ UNCHANGED <<status, mapVars, worker, taskqueue_, pc, timerfd_, aa>>
    BY <1>1, <1>3 DEF ReadMessages
  <2>2. PICK b \in BOOLEAN : b = (msgs = <<>>)
    BY Zenon
  <2>3. conn' = [conn EXCEPT ![c] = [conn[c] EXCEPT !.input = <<>>, !.idle = conn[c].idle /\ b]]
    BY <2>1, <2>2, NamedTypes
  <2>4. msgs # <<>> => conn[c].stage >= MessageCb
    <3>1. conn[c].stage \in Int
      BY NamedTypes DEF ConnType, Stages
    <3>. QED
      BY <2>1, <3>1 DEF DeliverFailure, MessageCb
  <2>. QED
    BY <1>1, <2>1, <2>3, <2>4
<1>. QED
  BY <1>2, <1>3

\* writecallback() ends the process or moves a prefix of outputbuffer_ to the socket,
\* and disarms the write event when nothing is left.
LEMMA WriteEffect ==
    ASSUME TypeOK, NEW l, NEW c \in Conns, Write(l, c)
    PROVE  \/ Dead
           \/ /\ Dispatched(l, c) /\ Branch(l, c, "OUT")
              /\ UNCHANGED <<status, mapVars, workVars, taskqueue_, pc, timerfd_, aa>>
              /\ \E n \in 0..Len(conn[c].output) : \E k \in ConnType :
                   /\ net' = [net EXCEPT ![c].got = @ \o SubSeq(conn[c].output, 1, n)]
                   /\ conn' = [conn EXCEPT ![c] = k]
                   /\ k.stage = conn[c].stage /\ k.fd = conn[c].fd
                   /\ k.registered = conn[c].registered /\ k.disconnect = conn[c].disconnect
                   /\ k.input = conn[c].input /\ k.idle = conn[c].idle
                   /\ k.output = Erased(conn[c].output, n)
                   /\ k.events = IF k.output = <<>> THEN conn[c].events \ {"OUT"}
                                 ELSE conn[c].events
<1>1. PICK r \in ConnType : r = conn[c]
  BY NamedTypes
<1>2. PICK n \in SendResults(c, Len(r.output)) :
        LET k == [r EXCEPT !.output = Erased(@, n)] IN
        \/ Die("terminate")
        \/ /\ Dispatched(l, c)
           /\ net' = [net EXCEPT ![c].got = @ \o SubSeq(r.output, 1, n)]
           /\ conn' = [conn EXCEPT ![c] = IF k.output = <<>> THEN disablewriting(k) ELSE k]
           /\ UNCHANGED <<status, mapVars, workVars, taskqueue_, pc, timerfd_, aa>>
  BY <1>1 DEF Write
<1>3. CASE Die("terminate")
  BY <1>3 DEF Die, Dead
<1>4. CASE ~Die("terminate")
  <2>1. r.output \in Seq(Requests) /\ n \in 0..Len(r.output)
    BY LenProperties DEF ConnType, SendResults
  <2>2. PICK out \in Seq(Requests) : out = Erased(r.output, n)
    BY <2>1, CutOf
  <2>3. PICK e \in ConnType : e = [r EXCEPT !.output = out]
    BY DEF ConnType
  <2>4. /\ e.stage = r.stage /\ e.fd = r.fd /\ e.events = r.events
        /\ e.registered = r.registered /\ e.disconnect = r.disconnect
        /\ e.input = r.input /\ e.idle = r.idle /\ e.output = out
    BY <2>3 DEF ConnType
  <2>5. PICK d \in ConnType : d = disablewriting(e)
    BY DEF ConnType, disablewriting
  <2>6. /\ d.stage = r.stage /\ d.fd = r.fd /\ d.events = r.events \ {"OUT"}
        /\ d.registered = r.registered /\ d.disconnect = r.disconnect
        /\ d.input = r.input /\ d.idle = r.idle /\ d.output = out
    BY <2>4, <2>5 DEF ConnType, disablewriting
  <2>7. PICK k \in ConnType : k = IF out = <<>> THEN d ELSE e
    BY Zenon
  <2>8. /\ k.stage = r.stage /\ k.fd = r.fd
        /\ k.registered = r.registered /\ k.disconnect = r.disconnect
        /\ k.input = r.input /\ k.idle = r.idle /\ k.output = out
        /\ k.events = IF out = <<>> THEN r.events \ {"OUT"} ELSE r.events
    BY <2>4, <2>6, <2>7
  <2>9. /\ Dispatched(l, c) /\ Branch(l, c, "OUT")
        /\ net' = [net EXCEPT ![c].got = @ \o SubSeq(r.output, 1, n)]
        /\ conn' = [conn EXCEPT ![c] = k]
        /\ UNCHANGED <<status, mapVars, workVars, taskqueue_, pc, timerfd_, aa>>
    <3>1. Branch(l, c, "OUT")
      BY DEF Write
    <3>2. /\ Dispatched(l, c)
          /\ net' = [net EXCEPT ![c].got = @ \o SubSeq(r.output, 1, n)]
          /\ conn' = [conn EXCEPT ![c] = IF e.output = <<>> THEN disablewriting(e) ELSE e]
          /\ UNCHANGED <<status, mapVars, workVars, taskqueue_, pc, timerfd_, aa>>
      BY <1>2, <1>4, <2>2, <2>3
    <3>. QED
      BY <2>4, <2>5, <2>7, <3>1, <3>2, Zenon
  <2>. QED
    BY <1>1, <2>1, <2>2, <2>8, <2>9
<1>. QED
  BY <1>3, <1>4

\* A task of taskqueue_ ends the process or appends its reply to outputbuffer_.
LEMMA SendEffect ==
    ASSUME TypeOK, NEW l \in Loops, SendInLoop(l)
    PROVE  \E task \in Tasks :
             /\ taskqueue_[l] # <<>> /\ task = Head(taskqueue_[l])
             /\ \/ Dead
                \/ /\ Alive(task.c) /\ ~UpdateFails(task.c)
                   /\ conn' = [conn EXCEPT ![task.c] = Queued(conn[task.c], task.m)]
                   /\ taskqueue_' = [taskqueue_ EXCEPT ![l] = Tail(@)]
                   /\ UNCHANGED <<status, net, mapVars, workVars, pc, channels, timerfd_, aa>>
<1>1. PICK q \in Seq(Tasks) : q = taskqueue_[l] /\ q # <<>>
  BY DEF TypeOK, SendInLoop
<1>2. PICK task \in Tasks : task = Head(q)
  BY <1>1, HeadTailProperties
<1>. QED
  BY <1>1, <1>2 DEF SendInLoop, Die, Dead

\* Only main constructs and stores a Connection.
LEMMA StageKept ==
    ASSUME TypeOK, NEW l \in Loops, IOThread(l)
    PROVE  \A c \in Conns : conn'[c].stage = conn[c].stage /\ conn'[c].fd = conn[c].fd
<1>1. conn \in [Conns -> ConnType]
  BY NamedTypes
<1>2. ASSUME Dead
      PROVE  \A d \in Conns : conn'[d].stage = conn[d].stage /\ conn'[d].fd = conn[d].fd
  BY <1>2 DEF Dead
<1>3. ASSUME NEW c \in Conns, NEW k, conn' = [conn EXCEPT ![c] = k],
             k.stage = conn[c].stage /\ k.fd = conn[c].fd
      PROVE  \A d \in Conns : conn'[d].stage = conn[d].stage /\ conn'[d].fd = conn[d].fd
  BY <1>1, <1>3
<1>4. ASSUME NEW c \in Conns, NEW cb, NEW input, CloseConnection(l, c, cb, input)
      PROVE  \A d \in Conns : conn'[d].stage = conn[d].stage /\ conn'[d].fd = conn[d].fd
  <2>1. \/ Dead
        \/ conn' = [conn EXCEPT ![c] = [Removed(conn[c]) EXCEPT !.input = input]]
    <3>1. CloseConnection(l, c, cb, input)
      BY <1>4
    <3>. QED
      BY <1>1, <3>1 DEF CloseConnection, Die, Dead
  <2>2. PICK k : k = [Removed(conn[c]) EXCEPT !.input = input]
    OBVIOUS
  <2>3. k.stage = conn[c].stage /\ k.fd = conn[c].fd
    <3>1. PICK r \in ConnType : r = conn[c]
      BY <1>1
    <3>. QED
      BY <2>2, <3>1, RemovedIs
  <2>. QED
    BY <1>2, <1>3, <2>1, <2>2, <2>3
<1>5. ASSUME NEW c \in Conns, ReadMessages(l, c)
      PROVE  \A d \in Conns : conn'[d].stage = conn[d].stage /\ conn'[d].fd = conn[d].fd
  <2>1. CASE Dead
    BY <1>2, <2>1
  <2>2. CASE \E b \in BOOLEAN :
          conn' = [conn EXCEPT ![c] = [conn[c] EXCEPT !.input = <<>>, !.idle = conn[c].idle /\ b]]
    <3>1. PICK b, k : /\ b \in BOOLEAN /\ conn' = [conn EXCEPT ![c] = k]
                      /\ k = [conn[c] EXCEPT !.input = <<>>, !.idle = conn[c].idle /\ b]
      BY <2>2
    <3>2. k.stage = conn[c].stage /\ k.fd = conn[c].fd
      BY <1>1, <3>1 DEF ConnType
    <3>. QED
      BY <1>3, <3>1, <3>2
  <2>. QED
    BY <1>5, <2>1, <2>2, ReadEffect
<1>6. ASSUME NEW c \in Conns, Write(l, c)
      PROVE  \A d \in Conns : conn'[d].stage = conn[d].stage /\ conn'[d].fd = conn[d].fd
  <2>1. ~Dead => \E k : /\ conn' = [conn EXCEPT ![c] = k]
                        /\ k.stage = conn[c].stage /\ k.fd = conn[c].fd
    BY <1>6, WriteEffect, Zenon
  <2>. QED
    BY <1>2, <1>3, <2>1, Zenon
<1>7. CASE SendInLoop(l)
  <2>1. PICK task \in Tasks :
          Dead \/ conn' = [conn EXCEPT ![task.c] = Queued(conn[task.c], task.m)]
    BY <1>7, SendEffect
  <2>2. task.c \in Conns /\ conn[task.c] \in ConnType
    BY <1>1 DEF Tasks
  <2>. QED
    BY <1>2, <1>3, <2>1, <2>2, QueuedIs
<1>8. CASE \/ Poll(l) \/ EndOfBatch(l) \/ DispatchDangling(l) \/ HandleWakeup(l) \/ EndOfDrain(l)
           \/ HandleTimer(l) \/ Sweep(l)
  BY <1>8 DEF Poll, EndOfBatch, DispatchDangling, Die, HandleWakeup, EndOfDrain, HandleTimer,
              Sweep, SweepNext, SweepIdle, RemoveExpired, SweepOn, SpinEnds
<1>. QED
  BY <1>4, <1>5, <1>6, <1>7, <1>8 DEF IOThread, ReadClose, Error

\* Every variable keeps its type; in particular accept4() always finds a descriptor,
\* the iterator of a sweep stays within the map's keys or end(), and no client asks
\* for more than the bound.
THEOREM TypesHold == Spec => []TypeOK
<1>1. Init => TypeOK /\ FreshFd
  <2>1. SUFFICES ASSUME Init PROVE TypeOK /\ FreshFd
    OBVIOUS
  <2>2. <<>> \in Seq(Requests) /\ <<>> \in Seq(Tasks) /\ 0 \in Stages /\ 0 \in 0..MaxRequests
    BY EmptySeq, ReactorAssumption DEF Stages, Published
  <2>. QED
    BY <2>1, <2>2 DEF Init, TypeOK, FreshFd, Causes
<1>2. TypeOK /\ FreshFd /\ [Next]_vars => TypeOK' /\ FreshFd'
  <2>1. SUFFICES ASSUME TypeOK, FreshFd, [Next]_vars PROVE TypeOK' /\ FreshFd'
    OBVIOUS
  <2>2. CASE UNCHANGED vars
    BY <2>1, <2>2 DEF vars, mapVars, workVars, loopVars, TypeOK, FreshFd
  <2>3. CASE MainThread
    BY <2>1, <2>3, MainTypes
  <2>4. CASE Environment
    <3>1. \A c \in Conns : conn'[c].stage = conn[c].stage /\ conn'[c].fd = conn[c].fd
      <4>1. CASE UNCHANGED conn
        BY <4>1
      <4>2. ASSUME NEW d \in Conns, GoIdle(d)
            PROVE  \A c \in Conns : conn'[c].stage = conn[c].stage /\ conn'[c].fd = conn[c].fd
        BY <2>1, <4>2, NamedTypes DEF GoIdle, ConnType
      <4>. QED
        BY <2>4, <4>1, <4>2 DEF Environment, Connect, Ask, Leave, TimerExpires
    <3>. QED
      BY <2>1, <2>4, <3>1, EnvTypes DEF FreshFd
  <2>5. ASSUME NEW l \in Loops, IOThread(l) PROVE TypeOK' /\ FreshFd'
    <3>1. TypeOK'
      <4>1. ASSUME NEW c \in Conns, ReadClose(l, c) PROVE TypeOK'
        <5>1. conn[c].input \o net[c].rcv \in Seq(Requests)
          BY <2>1, NamedTypes, ConcatProperties DEF ConnType, NetType
        <5>. QED
          BY <2>1, <4>1, <5>1, CloseTypes DEF ReadClose
      <4>2. ASSUME NEW c \in Conns, Error(l, c) PROVE TypeOK'
        <5>1. conn[c].input \in Seq(Requests)
          BY <2>1, NamedTypes DEF ConnType
        <5>. QED
          BY <2>1, <4>2, <5>1, CloseTypes DEF Error
      <4>3. CASE DispatchDangling(l)
        BY <2>1, <4>3, DieTypes DEF DispatchDangling, Causes
      <4>. QED
        BY <2>1, <2>5, <4>1, <4>2, <4>3, ReadTypes, WriteTypes, SendInLoopTypes, LoopTypes
           DEF IOThread
    <3>. QED
      BY <2>1, <2>5, <3>1, StageKept DEF FreshFd
  <2>6. ASSUME NEW w \in Workers, WorkThread(w) PROVE TypeOK' /\ FreshFd'
    <3>1. UNCHANGED conn
      BY <2>6 DEF WorkThread, TakeTask, SendCheck, SendQueue, Release
    <3>. QED
      BY <2>1, <2>6, <3>1, WorkTypes DEF FreshFd
  <2>. QED
    BY <2>1, <2>2, <2>3, <2>4, <2>5, <2>6 DEF Next
<1>. QED
  BY <1>1, <1>2, PTL DEF Spec
-----------------------------------------------------------------------------
\* What holds of each Connection, whoever refers to it.

\* Before its construction a Connection is blank; its channel is registered from
\* the constructor to Channel::remove(), and while it is, the write event is armed
\* exactly if there is something to write.
ConnOk(k) ==
    /\ k.stage = 0 => /\ k.fd = 0 /\ k.events = {} /\ ~k.registered /\ ~k.disconnect
                      /\ k.input = <<>> /\ k.output = <<>>
    /\ k.stage # 0 => k.fd \in Fds
    /\ k.registered <=> k.stage # 0 /\ ~k.disconnect
    /\ k.registered => ("OUT" \in k.events <=> k.output # <<>>)
    /\ k.disconnect => k.stage >= CloseCb

ConnInv == \A c \in Conns : ConnOk(conn[c])

\* The connections whose messages can be on their way.
Ready == {c \in Conns : conn[c].stage >= MessageCb}

\* A map's entry belongs to the descriptor it is stored under, and a task to a
\* connection that may have tasks, in the queue of its own loop.
MapInv ==
    \A f \in Fds :
      /\ serverConns[f] # NoConn => /\ conn[serverConns[f]].fd = f
                                    /\ conn[serverConns[f]].stage >= InServer
      /\ loopConns[f] # NoConn => /\ conn[loopConns[f]].fd = f
                                  /\ conn[loopConns[f]].stage >= InLoop

TaskInv ==
    /\ \A i \in 1..Len(pool) : pool[i].c \in Ready
    /\ \A w \in Workers : worker[w] # IdleWorker => worker[w].c \in Ready
    /\ \A l \in Loops : \A i \in 1..Len(taskqueue_[l]) :
         taskqueue_[l][i].c \in Ready /\ LoopOf(taskqueue_[l][i].c) = l

OwnInv == ConnInv /\ MapInv /\ TaskInv

\* Each change of a Connection keeps what holds of it.
LEMMA ConstructedOk ==
    ASSUME NEW k \in ConnType, NEW f \in Fds, ConnOk(k), k.stage = 0
    PROVE  LET r == Constructed(k, f) IN
           /\ ConnOk(r) /\ r.stage = Registered /\ r.fd = f /\ r.idle = k.idle
           /\ r.input = <<>> /\ r.output = <<>> /\ ~r.disconnect /\ r.registered
<1>1. PICK e : e = [k EXCEPT !.stage = Registered, !.fd = f, !.registered = TRUE]
  OBVIOUS
<1>2. /\ e.stage = Registered /\ e.fd = f /\ e.registered /\ e.events = {} /\ ~e.disconnect
      /\ e.input = <<>> /\ e.output = <<>> /\ e.idle = k.idle
      /\ DOMAIN e = DOMAIN k
  BY <1>1 DEF ConnType, ConnOk
<1>3. PICK r : r = Constructed(k, f)
  OBVIOUS
<1>4. r = [e EXCEPT !.events = @ \cup {"IN"}]
  BY <1>1, <1>3 DEF Constructed, enablereading
<1>5. /\ r.stage = Registered /\ r.fd = f /\ r.registered /\ r.events = {"IN"} /\ ~r.disconnect
      /\ r.input = <<>> /\ r.output = <<>> /\ r.idle = k.idle
  BY <1>1, <1>2, <1>4 DEF ConnType
<1>. QED
  BY <1>3, <1>5 DEF ConnOk, Registered

\* Channel::remove() comes after the constructor.
LEMMA RemovedOk ==
    ASSUME NEW k \in ConnType, NEW q, ConnOk(k), k.stage >= CloseCb
    PROVE  ConnOk([Removed(k) EXCEPT !.input = q])
<1>1. PICK r : r = [Removed(k) EXCEPT !.input = q]
  OBVIOUS
<1>2. r.stage = k.stage /\ r.fd = k.fd /\ ~r.registered /\ r.disconnect
  BY <1>1, RemovedIs
<1>3. k.stage # 0
  BY DEF CloseCb, ConnType
<1>. QED
  BY <1>1, <1>2, <1>3 DEF ConnOk

\* sendinloop() arms the write event with the first byte.
LEMMA QueuedOk ==
    ASSUME NEW k \in ConnType, NEW m \in Requests, ConnOk(k), k.stage # 0
    PROVE  ConnOk(Queued(k, m))
<1>1. PICK r : r = Queued(k, m)
  OBVIOUS
<1>2. /\ r.stage = k.stage /\ r.fd = k.fd /\ r.events = k.events \cup {"OUT"}
      /\ r.registered = k.registered /\ r.disconnect = k.disconnect
      /\ r.output = Append(k.output, m)
  BY <1>1, QueuedIs
<1>3. r.output # <<>>
  BY <1>2, AppendProperties DEF ConnType
<1>. QED
  BY <1>1, <1>2, <1>3 DEF ConnOk

\* writecallback() disarms the write event with the last byte.
LEMMA WrittenOk ==
    ASSUME NEW k \in ConnType, NEW r \in ConnType, NEW n \in 0..Len(k.output), ConnOk(k),
           r.stage = k.stage, r.fd = k.fd, r.registered = k.registered,
           r.disconnect = k.disconnect, r.input = k.input, r.output = Erased(k.output, n),
           r.events = IF r.output = <<>> THEN k.events \ {"OUT"} ELSE k.events
    PROVE  ConnOk(r)
<1>1. Len(r.output) = Len(k.output) - n /\ r.output \in Seq(Requests)
  BY CutOf DEF ConnType
<1>2. k.output \in Seq(Requests) /\ Len(k.output) \in Nat
  BY LenProperties DEF ConnType
<1>3. r.output # <<>> => k.output # <<>>
  BY <1>1, <1>2, EmptySeq
<1>4. CASE k.stage = 0
  BY <1>3, <1>4 DEF ConnOk
<1>5. CASE k.stage # 0
  BY <1>3, <1>5 DEF ConnOk
<1>. QED
  BY <1>4, <1>5

\* One connection changes, the others do not.
LEMMA OneChanges ==
    ASSUME TypeOK, ConnInv, NEW c \in Conns, NEW k, conn' = [conn EXCEPT ![c] = k], ConnOk(k)
    PROVE  ConnInv'
<1>1. \A d \in Conns : conn'[d] = IF d = c THEN k ELSE conn[d]
  BY NamedTypes
<1>. QED
  BY <1>1 DEF ConnInv

\* Main constructs, and then counts its own progress.
LEMMA MainConn ==
    ASSUME TypeOK, ConnInv, MainThread
    PROVE  ConnInv'
<1>1. ASSUME NEW c \in Conns, Accept(c) PROVE ConnInv'
  <2>1. PICK k \in ConnType : k = conn[c] /\ ConnOk(k) /\ k.stage = 0
    BY <1>1, NamedTypes DEF Accept, Backlogged, ConnInv
  <2>2. PICK f \in Fds : f = AcceptedFd
    <3>1. conn[c].fd \notin Fds
      BY <2>1, FdsAre DEF ConnOk, End
    <3>. QED
      BY <3>1, AcceptedFdIsFree
  <2>3. conn' = [conn EXCEPT ![c] = Constructed(k, f)]
    BY <1>1, <2>1, <2>2 DEF Accept
  <2>. QED
    BY <2>1, <2>3, ConstructedOk, OneChanges
<1>2. CASE AcceptFails
  BY <1>2 DEF AcceptFails, Die, ConnInv
<1>3. ASSUME NEW c \in Conns, NewConnection(c) PROVE ConnInv'
  <2>1. PICK k \in ConnType : k = conn[c] /\ ConnOk(k) /\ k.stage \in Registered..InLoop
    BY <1>3, NamedTypes DEF NewConnection, ConnInv
  <2>2. PICK r : r = [k EXCEPT !.stage = @ + 1]
    OBVIOUS
  <2>3. /\ r.stage = k.stage + 1 /\ r.fd = k.fd /\ r.events = k.events
        /\ r.registered = k.registered /\ r.disconnect = k.disconnect /\ r.output = k.output
    BY <2>2 DEF ConnType
  <2>4. ConnOk(r)
    BY <2>1, <2>3 DEF ConnOk, Registered, InLoop, CloseCb
  <2>5. conn' = [conn EXCEPT ![c] = r]
    BY <1>3, <2>1, <2>2 DEF NewConnection
  <2>. QED
    BY <2>4, <2>5, OneChanges
<1>. QED
  BY <1>1, <1>2, <1>3 DEF MainThread

\* A callback runs only when it is set, or the process ends.
LEMMA StageOfClose ==
    ASSUME TypeOK, NEW c \in Conns, NEW cb \in {CloseCb, ErrorCb}, CloseFailure(c, cb) = "none"
    PROVE  conn[c].stage >= CloseCb /\ ~UpdateFails(c)
<1>1. conn[c].stage \in Nat
  BY NamedTypes DEF ConnType, Stages
<1>. QED
  BY <1>1 DEF CloseFailure, CloseCb, ErrorCb

\* A connection that is torn down keeps ConnInv.
LEMMA CloseConn ==
    ASSUME TypeOK, ConnInv, NEW l, NEW c \in Conns, NEW cb \in {CloseCb, ErrorCb}, NEW input,
           CloseConnection(l, c, cb, input)
    PROVE  ConnInv'
<1>1. CASE Dead
  BY <1>1 DEF Dead, ConnInv
<1>2. CASE ~Dead
  <2>1. PICK k \in ConnType : k = conn[c] /\ ConnOk(k)
    BY NamedTypes DEF ConnInv
  <2>2. /\ CloseFailure(c, cb) = "none"
        /\ conn' = [conn EXCEPT ![c] = [Removed(k) EXCEPT !.input = input]]
    BY <1>2, <2>1 DEF CloseConnection, Die, Dead
  <2>3. k.stage >= CloseCb
    BY <2>1, <2>2, StageOfClose
  <2>. QED
    BY <2>1, <2>2, <2>3, RemovedOk, OneChanges
<1>. QED
  BY <1>1, <1>2

\* Every step of an IO thread keeps ConnInv.
LEMMA LoopConn ==
    ASSUME TypeOK, ConnInv, TaskInv, NEW l \in Loops, IOThread(l)
    PROVE  ConnInv'
<1>1. CASE UNCHANGED conn
  BY <1>1 DEF ConnInv
<1>2. ASSUME NEW c \in Conns, ReadClose(l, c) \/ Error(l, c) PROVE ConnInv'
  BY <1>2, CloseConn DEF ReadClose, Error
<1>3. ASSUME NEW c \in Conns, ReadMessages(l, c) PROVE ConnInv'
  <2>1. PICK b \in BOOLEAN :
          \/ Dead
          \/ conn' = [conn EXCEPT ![c] = [conn[c] EXCEPT !.input = <<>>, !.idle = conn[c].idle /\ b]]
    BY <1>3, ReadEffect
  <2>2. PICK k \in ConnType : k = conn[c] /\ ConnOk(k)
    BY NamedTypes DEF ConnInv
  <2>3. PICK r : r = [k EXCEPT !.input = <<>>, !.idle = k.idle /\ b]
    OBVIOUS
  <2>4. /\ r.stage = k.stage /\ r.fd = k.fd /\ r.events = k.events /\ r.input = <<>>
        /\ r.registered = k.registered /\ r.disconnect = k.disconnect /\ r.output = k.output
    BY <2>3 DEF ConnType
  <2>5. ConnOk(r)
    BY <2>2, <2>4 DEF ConnOk
  <2>6. CASE Dead
    BY <1>1, <2>6 DEF Dead
  <2>. QED
    BY <2>1, <2>2, <2>3, <2>5, <2>6, OneChanges
<1>4. ASSUME NEW c \in Conns, Write(l, c) PROVE ConnInv'
  <2>1. CASE Dead
    BY <1>1, <2>1 DEF Dead
  <2>2. CASE ~Dead
    <3>1. PICK n \in 0..Len(conn[c].output), k \in ConnType :
            /\ conn' = [conn EXCEPT ![c] = k]
            /\ k.stage = conn[c].stage /\ k.fd = conn[c].fd
            /\ k.registered = conn[c].registered /\ k.disconnect = conn[c].disconnect
            /\ k.input = conn[c].input
            /\ k.output = Erased(conn[c].output, n)
            /\ k.events = IF k.output = <<>> THEN conn[c].events \ {"OUT"}
                          ELSE conn[c].events
      BY <1>4, <2>2, WriteEffect
    <3>2. conn[c] \in ConnType /\ ConnOk(conn[c])
      BY NamedTypes DEF ConnInv
    <3>3. ConnOk(k)
      BY <3>1, <3>2, WrittenOk
    <3>. QED
      BY <3>1, <3>3, OneChanges
  <2>. QED
    BY <2>1, <2>2
<1>5. CASE SendInLoop(l)
  <2>1. PICK task \in Tasks :
          /\ taskqueue_[l] # <<>> /\ task = Head(taskqueue_[l])
          /\ Dead \/ conn' = [conn EXCEPT ![task.c] = Queued(conn[task.c], task.m)]
    BY <1>5, SendEffect
  <2>2. PICK c \in Conns, m \in Requests : c = task.c /\ m = task.m
    BY DEF Tasks
  <2>3. conn[c].stage # 0
    <3>1. taskqueue_[l] \in Seq(Tasks)
      BY DEF TypeOK
    <3>2. task = taskqueue_[l][1] /\ 1 \in 1..Len(taskqueue_[l])
      BY <2>1, <3>1, EmptySeq
    <3>. QED
      BY <2>2, <3>2 DEF TaskInv, Ready, MessageCb
  <2>4. PICK k \in ConnType : k = conn[c] /\ ConnOk(k)
    BY NamedTypes DEF ConnInv
  <2>5. CASE Dead
    BY <1>1, <2>5 DEF Dead
  <2>. QED
    BY <2>1, <2>2, <2>3, <2>4, <2>5, QueuedOk, OneChanges
<1>6. CASE \/ Poll(l) \/ EndOfBatch(l) \/ DispatchDangling(l) \/ HandleWakeup(l) \/ EndOfDrain(l)
           \/ HandleTimer(l) \/ Sweep(l)
  BY <1>1, <1>6 DEF Poll, EndOfBatch, DispatchDangling, Die, HandleWakeup, EndOfDrain, HandleTimer,
                    Sweep, SweepNext, SweepIdle, RemoveExpired, SweepOn, SpinEnds
<1>. QED
  BY <1>2, <1>3, <1>4, <1>5, <1>6 DEF IOThread

\* What clients and clock do keeps ConnInv.
LEMMA EnvConn ==
    ASSUME TypeOK, ConnInv, Environment
    PROVE  ConnInv'
<1>1. CASE UNCHANGED conn
  BY <1>1 DEF ConnInv
<1>2. ASSUME NEW c \in Conns, GoIdle(c) PROVE ConnInv'
  <2>1. PICK k \in ConnType : k = conn[c] /\ ConnOk(k)
    BY NamedTypes DEF ConnInv
  <2>2. PICK r : r = [k EXCEPT !.idle = TRUE]
    OBVIOUS
  <2>3. /\ r.stage = k.stage /\ r.fd = k.fd /\ r.events = k.events /\ r.input = k.input
        /\ r.registered = k.registered /\ r.disconnect = k.disconnect /\ r.output = k.output
    BY <2>2 DEF ConnType
  <2>4. ConnOk(r) /\ conn' = [conn EXCEPT ![c] = r]
    BY <1>2, <2>1, <2>2, <2>3 DEF ConnOk, GoIdle
  <2>. QED
    BY <2>4, OneChanges
<1>. QED
  BY <1>1, <1>2 DEF Environment, Connect, Ask, Leave, TimerExpires

-----------------------------------------------------------------------------
\* Who owns a Connection.

\* Popping a queue leaves tasks that were in it.
LEMMA PoppedTasks ==
    ASSUME NEW q \in Seq(Tasks), q # <<>>
    PROVE  /\ 1 \in 1..Len(q) /\ Head(q) = q[1]
           /\ \A i \in 1..Len(Tail(q)) : i + 1 \in 1..Len(q) /\ Tail(q)[i] = q[i + 1]
<1>1. Len(q) \in Nat /\ Len(q) # 0
  BY EmptySeq, LenProperties
<1>2. Tail(q) \in Seq(Tasks) /\ Len(Tail(q)) = Len(q) - 1
      /\ \A i \in 1..Len(Tail(q)) : Tail(q)[i] = q[i + 1]
  BY HeadTailProperties
<1>. QED
  BY <1>1, <1>2

\* The tasks of HandleMessage() are queued behind those already there.
LEMMA HandedTasks ==
    ASSUME TypeOK, NEW c \in Conns, NEW msgs \in Seq(Requests)
    PROVE  LET q == HandleMessages(c, msgs) IN
           /\ Len(q) = Len(pool) + Len(msgs)
           /\ \A i \in 1..Len(pool) : q[i] = pool[i]
           /\ \A i \in 1..Len(msgs) : q[Len(pool) + i] = [c |-> c, m |-> msgs[i]]
<1>1. PICK q : q = [i \in DOMAIN msgs |-> [c |-> c, m |-> msgs[i]]]
  OBVIOUS
<1>2. q \in Seq(Tasks) /\ Len(q) = Len(msgs) /\ pool \in Seq(Tasks)
      /\ \A i \in 1..Len(msgs) : q[i] = [c |-> c, m |-> msgs[i]]
  <2>1. Len(msgs) \in Nat /\ DOMAIN msgs = 1..Len(msgs)
    BY LenProperties
  <2>2. \A i \in 1..Len(msgs) : [c |-> c, m |-> msgs[i]] \in Tasks
    BY ElementOfSeq DEF Tasks
  <2>3. q \in Seq(Tasks)
    BY <1>1, <2>1, <2>2, IsASeq
  <2>4. Len(q) = Len(msgs)
    BY <1>1, <2>1, <2>3, LenProperties
  <2>. QED
    BY <1>1, <2>1, <2>3, <2>4 DEF TypeOK
<1>3. PICK p \in Seq(Tasks) : p = pool
  BY <1>2
<1>4. /\ Len(p \o q) = Len(p) + Len(q) /\ \A i \in 1..Len(p) : (p \o q)[i] = p[i]
      /\ \A i \in 1..Len(q) : (p \o q)[Len(p) + i] = q[i]
  BY <1>2, JoinOf
<1>5. HandleMessages(c, msgs) = p \o q
  BY <1>1, <1>3 DEF HandleMessages
<1>. QED
  BY <1>2, <1>3, <1>4, <1>5

\* Clients and clock construct nothing.
LEMMA EnvKept ==
    ASSUME TypeOK, Environment
    PROVE  \A c \in Conns : /\ conn'[c].stage = conn[c].stage /\ conn'[c].fd = conn[c].fd
                            /\ conn'[c].disconnect = conn[c].disconnect
<1>1. CASE UNCHANGED conn
  BY <1>1
<1>2. ASSUME NEW d \in Conns, GoIdle(d)
      PROVE  \A c \in Conns : /\ conn'[c].stage = conn[c].stage /\ conn'[c].fd = conn[c].fd
                              /\ conn'[c].disconnect = conn[c].disconnect
  BY <1>2, NamedTypes DEF GoIdle, ConnType
<1>. QED
  BY <1>1, <1>2 DEF Environment, Connect, Ask, Leave, TimerExpires

\* A Connection keeps its descriptor, and main only goes forward with it.
LEMMA StageGrows ==
    ASSUME TypeOK, [Next]_vars, NEW c \in Conns
    PROVE  /\ conn'[c].stage = conn[c].stage \/ conn'[c].stage = conn[c].stage + 1
           /\ conn[c].stage # 0 => conn'[c].fd = conn[c].fd
<1>1. CASE UNCHANGED conn
  BY <1>1
<1>2. ASSUME NEW d \in Conns, Accept(d)
      PROVE  /\ conn'[c].stage = conn[c].stage \/ conn'[c].stage = conn[c].stage + 1
             /\ conn[c].stage # 0 => conn'[c].fd = conn[c].fd
  <2>1. PICK k : k = Constructed(conn[d], AcceptedFd)
    OBVIOUS
  <2>2. conn[d].stage = 0 /\ k.stage = 1
    <3>1. PICK r \in ConnType : r = conn[d]
      BY NamedTypes
    <3>2. PICK f : f = AcceptedFd
      OBVIOUS
    <3>3. PICK e : e = [r EXCEPT !.stage = Registered, !.fd = f, !.registered = TRUE]
      OBVIOUS
    <3>4. e.stage = Registered /\ k = [e EXCEPT !.events = @ \cup {"IN"}] /\ "stage" \in DOMAIN e
      BY <2>1, <3>1, <3>2, <3>3 DEF ConnType, Constructed, enablereading
    <3>. QED
      BY <1>2, <3>1, <3>3, <3>4 DEF Accept, Backlogged, Registered, ConnType
  <2>3. conn' = [conn EXCEPT ![d] = k]
    BY <1>2, <2>1 DEF Accept
  <2>. QED
    BY <2>2, <2>3, NamedTypes
<1>3. ASSUME NEW d \in Conns, NewConnection(d)
      PROVE  /\ conn'[c].stage = conn[c].stage \/ conn'[c].stage = conn[c].stage + 1
             /\ conn[c].stage # 0 => conn'[c].fd = conn[c].fd
  BY <1>3, NamedTypes DEF NewConnection, ConnType
<1>4. CASE MainThread
  BY <1>1, <1>2, <1>3, <1>4 DEF MainThread, AcceptFails, Die
<1>5. ASSUME NEW w \in Workers, WorkThread(w) PROVE UNCHANGED conn
  BY <1>5 DEF WorkThread, TakeTask, SendCheck, SendQueue, Release
<1>. QED
  BY <1>1, <1>4, <1>5, StageKept, EnvKept DEF Next, vars

\* main stores a connection in a map; otherwise entries only go.
LEMMA MapsChange ==
    ASSUME TypeOK, [Next]_vars, NEW f \in Fds
    PROVE  /\ \/ serverConns'[f] \in {serverConns[f], NoConn}
              \/ \E c \in Conns : /\ NewConnection(c) /\ conn[c].stage + 1 = InServer
                                  /\ conn[c].fd = f /\ serverConns'[f] = c
           /\ \/ loopConns'[f] \in {loopConns[f], NoConn}
              \/ \E c \in Conns : /\ NewConnection(c) /\ conn[c].stage + 1 = InLoop
                                  /\ conn[c].fd = f /\ loopConns'[f] = c
<1>. DEFINE Goal == /\ serverConns'[f] \in {serverConns[f], NoConn}
                    /\ loopConns'[f] \in {loopConns[f], NoConn}
<1>0. /\ serverConns \in [Fds -> Conns \cup {NoConn}]
      /\ loopConns \in [Fds -> Conns \cup {NoConn}]
  BY DEF TypeOK
<1>1. UNCHANGED <<serverConns, loopConns>> => Goal
  OBVIOUS
<1>2. ASSUME NEW c \in Conns, NewConnection(c) PROVE
        /\ \/ serverConns'[f] \in {serverConns[f], NoConn}
           \/ conn[c].stage + 1 = InServer /\ conn[c].fd = f /\ serverConns'[f] = c
        /\ \/ loopConns'[f] \in {loopConns[f], NoConn}
           \/ conn[c].stage + 1 = InLoop /\ conn[c].fd = f /\ loopConns'[f] = c
  BY <1>0, <1>2 DEF NewConnection
<1>3. ASSUME NEW c \in Conns, Accept(c) \/ AcceptFails PROVE Goal
  BY <1>1, <1>3 DEF Accept, AcceptFails, Die, mapVars
<1>4. CASE Environment
  BY <1>1, <1>4 DEF Environment, Connect, Ask, Leave, GoIdle, TimerExpires, mapVars
<1>5. ASSUME NEW w \in Workers, WorkThread(w) PROVE Goal
  BY <1>1, <1>5 DEF WorkThread, TakeTask, SendCheck, SendQueue, Release, mapVars
<1>6. ASSUME NEW l \in Loops, IOThread(l) PROVE Goal
  <2>1. ASSUME NEW c \in Conns, ReadClose(l, c) \/ Error(l, c) PROVE Goal
    <3>1. PICK cb, input : CloseConnection(l, c, cb, input)
      BY <2>1 DEF ReadClose, Error
    <3>2. \/ UNCHANGED <<serverConns, loopConns>>
          \/ serverConns' = [serverConns EXCEPT ![conn[c].fd] = NoConn] /\ UNCHANGED loopConns
      BY <3>1 DEF CloseConnection, Die, mapVars
    <3>. QED
      BY <1>0, <3>2
  <2>2. ASSUME NEW c \in Conns, ReadMessages(l, c) \/ Write(l, c) PROVE Goal
    <3>1. UNCHANGED <<serverConns, loopConns>>
      BY <2>2, ReadEffect, WriteEffect DEF Dead, mapVars
    <3>. QED
      BY <1>1, <3>1
  <2>3. CASE SendInLoop(l)
    <3>1. UNCHANGED <<serverConns, loopConns>>
      BY <2>3, SendEffect DEF Dead, mapVars
    <3>. QED
      BY <1>1, <3>1
  <2>4. CASE SweepIdle(l)
    <3>1. loopConns' = [loopConns EXCEPT ![aa[l]] = NoConn] /\ UNCHANGED serverConns
      BY <2>4 DEF SweepIdle
    <3>. QED
      BY <1>0, <3>1
  <2>6. CASE RemoveExpired(l)
    <3>1. UNCHANGED loopConns /\ \E fd : RemoveConn(fd)
      BY <2>6 DEF RemoveExpired
    <3>. QED
      BY <1>0, <3>1 DEF RemoveConn
  <2>5. CASE \/ Poll(l) \/ EndOfBatch(l) \/ DispatchDangling(l) \/ HandleWakeup(l)
             \/ EndOfDrain(l) \/ HandleTimer(l) \/ SweepNext(l) \/ SweepOn(l) \/ SpinEnds(l)
    BY <1>1, <2>5 DEF Poll, EndOfBatch, DispatchDangling, Die, HandleWakeup, EndOfDrain,
                      HandleTimer, SweepNext, SweepOn, SpinEnds, mapVars
  <2>. QED
    BY <1>6, <2>1, <2>2, <2>3, <2>4, <2>5, <2>6 DEF IOThread, Sweep
<1>7. UNCHANGED vars => Goal
  BY <1>1 DEF vars, mapVars
<1>8. CASE Goal
  BY <1>8
<1>9. ASSUME NEW c \in Conns, NewConnection(c) PROVE
        /\ \/ serverConns'[f] \in {serverConns[f], NoConn}
           \/ \E d \in Conns : /\ NewConnection(d) /\ conn[d].stage + 1 = InServer
                               /\ conn[d].fd = f /\ serverConns'[f] = d
        /\ \/ loopConns'[f] \in {loopConns[f], NoConn}
           \/ \E d \in Conns : /\ NewConnection(d) /\ conn[d].stage + 1 = InLoop
                               /\ conn[d].fd = f /\ loopConns'[f] = d
  BY <1>2, <1>9
<1>10. CASE MainThread /\ ~Goal
  <2>1. PICK c \in Conns : NewConnection(c)
    <3>1. ASSUME AcceptFails PROVE Goal
      BY <1>1, <3>1 DEF AcceptFails, Die, mapVars
    <3>. QED
      BY <1>3, <1>10, <3>1 DEF MainThread
  <2>. QED
    BY <1>9, <2>1
<1>. QED
  BY <1>4, <1>5, <1>6, <1>7, <1>8, <1>10 DEF Next

\* Entries stay with the descriptor of their connection.
LEMMA MapKept ==
    ASSUME TypeOK, MapInv, [Next]_vars
    PROVE  MapInv'
<1>1. SUFFICES ASSUME NEW f \in Fds
               PROVE  /\ serverConns'[f] # NoConn => /\ conn'[serverConns'[f]].fd = f
                                                     /\ conn'[serverConns'[f]].stage >= InServer
                      /\ loopConns'[f] # NoConn => /\ conn'[loopConns'[f]].fd = f
                                                   /\ conn'[loopConns'[f]].stage >= InLoop
  BY DEF MapInv
<1>2. ASSUME NEW c \in Conns, NEW n \in 1..10, conn[c].fd = f, conn[c].stage >= n
      PROVE  conn'[c].fd = f /\ conn'[c].stage >= n
  <2>1. conn[c].stage \in Nat
    BY NamedTypes DEF ConnType, Stages
  <2>. QED
    BY <1>2, <2>1, StageGrows
<1>3. ASSUME NEW c \in Conns, NewConnection(c), conn[c].fd = f
      PROVE  conn'[c].fd = f /\ conn'[c].stage = conn[c].stage + 1
  BY <1>3, NamedTypes DEF NewConnection, ConnType
<1>4. serverConns[f] \in Conns \cup {NoConn} /\ loopConns[f] \in Conns \cup {NoConn}
  BY DEF TypeOK
<1>5. serverConns'[f] # NoConn => /\ conn'[serverConns'[f]].fd = f
                                  /\ conn'[serverConns'[f]].stage >= InServer
  <2>1. CASE serverConns'[f] \in {serverConns[f], NoConn}
    BY <1>2, <1>4, <2>1 DEF MapInv, InServer
  <2>2. ASSUME NEW c \in Conns, NewConnection(c), conn[c].stage + 1 = InServer,
               conn[c].fd = f, serverConns'[f] = c
        PROVE  conn'[c].fd = f /\ conn'[c].stage >= InServer
    BY <1>3, <2>2 DEF InServer
  <2>. QED
    BY <2>1, <2>2, MapsChange
<1>6. loopConns'[f] # NoConn => /\ conn'[loopConns'[f]].fd = f
                                /\ conn'[loopConns'[f]].stage >= InLoop
  <2>1. CASE loopConns'[f] \in {loopConns[f], NoConn}
    BY <1>2, <1>4, <2>1 DEF MapInv, InLoop
  <2>2. ASSUME NEW c \in Conns, NewConnection(c), conn[c].stage + 1 = InLoop,
               conn[c].fd = f, loopConns'[f] = c
        PROVE  conn'[c].fd = f /\ conn'[c].stage >= InLoop
    BY <1>3, <2>2 DEF InLoop
  <2>. QED
    BY <2>1, <2>2, MapsChange
<1>. QED
  BY <1>5, <1>6

\* Tasks stay with connections that have their callbacks, each in its loop's queue.
LEMMA TasksKept ==
    ASSUME TypeOK, TaskInv, [Next]_vars
    PROVE  TaskInv'
<1>. DEFINE PoolOk(p) == \A i \in 1..Len(p) : p[i].c \in Ready
            WorkerOk(r) == r # IdleWorker => r.c \in Ready
            QueueOk(l, q) == \A i \in 1..Len(q) : q[i].c \in Ready /\ LoopOf(q[i].c) = l
<1>1. /\ pool \in Seq(Tasks) /\ taskqueue_ \in [Loops -> Seq(Tasks)]
      /\ worker \in [Workers -> [at : {"check", "queue", "done"}, c : Conns, m : Requests]
                                \cup {IdleWorker}]
  BY DEF TypeOK
<1>2. ASSUME NEW c \in Ready PROVE c \in Ready' /\ LoopOf(c)' = LoopOf(c)
  <2>1. conn[c].stage \in Nat /\ conn[c].stage # 0
    BY NamedTypes DEF ConnType, Stages, Ready, MessageCb
  <2>. QED
    BY <2>1, StageGrows DEF Ready, LoopOf, MessageCb
<1>3. SUFFICES /\ PoolOk(pool')
               /\ \A w \in Workers : WorkerOk(worker'[w])
               /\ \A l \in Loops : QueueOk(l, taskqueue_'[l])
  BY <1>2 DEF TaskInv
<1>4. /\ PoolOk(pool) /\ \A w \in Workers : WorkerOk(worker[w])
      /\ \A l \in Loops : QueueOk(l, taskqueue_[l])
  BY DEF TaskInv
<1>5. CASE UNCHANGED <<pool, worker, taskqueue_>>
  BY <1>4, <1>5
<1>6. ASSUME NEW l \in Loops, NEW c \in Conns, ReadMessages(l, c), ~Dead
      PROVE  PoolOk(pool') /\ UNCHANGED <<worker, taskqueue_>>
  <2>1. PICK msgs \in Seq(Requests) : msgs = conn[c].input \o net[c].rcv
    <3>1. conn[c].input \in Seq(Requests) /\ net[c].rcv \in Seq(Requests)
      BY NamedTypes DEF ConnType, NetType
    <3>. QED
      BY <3>1, ConcatProperties
  <2>2. /\ msgs # <<>> => conn[c].stage >= MessageCb
        /\ pool' = HandleMessages(c, msgs) /\ UNCHANGED <<worker, taskqueue_>>
    BY <1>6, <2>1, ReadEffect
  <2>3. PICK m \in Nat, n \in Nat : m = Len(pool) /\ n = Len(msgs)
    BY <1>1, LenProperties
  <2>4. /\ Len(pool') = m + n /\ \A i \in 1..m : pool'[i] = pool[i]
        /\ \A i \in 1..n : pool'[m + i].c = c
    <3>1. PICK q : q = HandleMessages(c, msgs)
      OBVIOUS
    <3>2. /\ Len(q) = Len(pool) + Len(msgs) /\ \A i \in 1..Len(pool) : q[i] = pool[i]
          /\ \A i \in 1..Len(msgs) : q[Len(pool) + i] = [c |-> c, m |-> msgs[i]]
      BY <3>1, HandedTasks
    <3>3. ASSUME NEW i \in 1..Len(msgs) PROVE q[Len(pool) + i].c = c
      <4>1. PICK x, at : x = msgs[i] /\ at = Len(pool) + i
        OBVIOUS
      <4>2. q[at] = [c |-> c, m |-> x]
        BY <3>2, <4>1
      <4>. QED
        BY <4>1, <4>2
    <3>. QED
      BY <2>2, <2>3, <3>1, <3>2, <3>3
  <2>5. n # 0 => c \in Ready
    BY <2>2, <2>3, EmptySeq DEF Ready
  <2>6. ASSUME NEW i \in 1..(m + n) PROVE pool'[i].c \in Ready
    <3>1. CASE i <= m
      BY <1>4, <2>3, <2>4, <3>1
    <3>2. CASE i > m
      <4>1. PICK j \in 1..n : i = m + j
        <5>1. i - m \in 1..n /\ i = m + (i - m)
          BY <2>3, <3>2
        <5>. QED
          BY <5>1
      <4>. QED
        BY <2>4, <2>5, <4>1
    <3>. QED
      BY <3>1, <3>2
  <2>. QED
    BY <2>2, <2>4, <2>6
<1>7. ASSUME NEW l \in Loops, SendInLoop(l), ~Dead
      PROVE  (\A k \in Loops : QueueOk(k, taskqueue_'[k])) /\ UNCHANGED <<pool, worker>>
  <2>1. /\ taskqueue_[l] # <<>> /\ taskqueue_' = [taskqueue_ EXCEPT ![l] = Tail(@)]
        /\ UNCHANGED <<pool, worker>>
    BY <1>7, SendEffect DEF workVars
  <2>2. QueueOk(l, Tail(taskqueue_[l]))
    BY <1>1, <1>4, <2>1, PoppedTasks
  <2>. QED
    BY <1>1, <1>4, <2>1, <2>2
<1>8. ASSUME NEW l \in Loops, IOThread(l)
      PROVE  /\ PoolOk(pool') /\ UNCHANGED worker
             /\ \A k \in Loops : QueueOk(k, taskqueue_'[k])
  <2>1. CASE UNCHANGED <<pool, worker, taskqueue_>>
    BY <1>4, <2>1
  <2>2. CASE Dead
    BY <2>1, <2>2 DEF Dead, workVars, loopVars
  <2>3. ASSUME NEW c \in Conns, NEW cb, NEW input, CloseConnection(l, c, cb, input)
        PROVE  UNCHANGED <<pool, worker, taskqueue_>>
    BY <2>3 DEF CloseConnection, Die, workVars, loopVars
  <2>4. ASSUME NEW c \in Conns, Write(l, c) PROVE UNCHANGED <<pool, worker, taskqueue_>>
    BY <2>4, WriteEffect DEF Dead, workVars, loopVars
  <2>5. CASE \/ Poll(l) \/ EndOfBatch(l) \/ DispatchDangling(l) \/ HandleWakeup(l) \/ EndOfDrain(l)
             \/ HandleTimer(l) \/ Sweep(l)
    BY <2>1, <2>5 DEF Poll, EndOfBatch, DispatchDangling, Die, HandleWakeup, EndOfDrain,
         HandleTimer, Sweep, SweepNext, SweepIdle, RemoveExpired, SweepOn, SpinEnds, workVars, loopVars
  <2>. QED
    BY <1>4, <1>6, <1>7, <1>8, <2>1, <2>2, <2>3, <2>4, <2>5 DEF IOThread, ReadClose, Error
<1>9. ASSUME NEW w \in Workers, WorkThread(w)
      PROVE  /\ PoolOk(pool') /\ \A v \in Workers : WorkerOk(worker'[v])
             /\ \A l \in Loops : QueueOk(l, taskqueue_'[l])
  <2>1. CASE TakeTask(w)
    <3>1. pool # <<>> /\ pool' = Tail(pool) /\ UNCHANGED taskqueue_
          /\ worker' = [worker EXCEPT ![w] = [at |-> "check", c |-> Head(pool).c, m |-> Head(pool).m]]
      BY <2>1 DEF TakeTask, loopVars
    <3>2. PoolOk(Tail(pool)) /\ Head(pool).c \in Ready
      BY <1>1, <1>4, <3>1, PoppedTasks
    <3>. QED
      BY <1>1, <1>4, <3>1, <3>2
  <2>2. ASSUME worker[w].at # "idle" PROVE worker[w].c \in Ready /\ worker[w].c \in Conns
    BY <1>1, <1>4, <2>2 DEF IdleWorker
  <2>3. ASSUME NEW x, worker' = [worker EXCEPT ![w].at = x], worker[w].at # "idle"
        PROVE  \A v \in Workers : WorkerOk(worker'[v])
    <3>1. worker'[w].c = worker[w].c
      BY <1>1, <2>3 DEF IdleWorker
    <3>. QED
      BY <1>1, <1>4, <2>2, <2>3, <3>1
  <2>4. CASE SendCheck(w)
    BY <1>4, <2>3, <2>4 DEF SendCheck, loopVars
  <2>5. CASE SendQueue(w)
    <3>1. PICK c \in Ready, task \in Tasks : c = worker[w].c /\ task = [c |-> c, m |-> worker[w].m]
      <4>1. worker[w].c \in Ready /\ worker[w].at # "idle"
        BY <2>2, <2>5 DEF SendQueue
      <4>2. worker[w].m \in Requests /\ worker[w].c \in Conns
        BY <1>1, <4>1 DEF IdleWorker
      <4>3. [c |-> worker[w].c, m |-> worker[w].m] \in Tasks
        BY <4>2 DEF Tasks
      <4>. QED
        BY <4>1, <4>3
    <3>2. /\ taskqueue_' = [taskqueue_ EXCEPT ![LoopOf(c)] = Append(@, task)] /\ UNCHANGED pool
          /\ worker' = [worker EXCEPT ![w].at = "done"]
      BY <2>5, <3>1 DEF SendQueue
    <3>3. ASSUME LoopOf(c) \in Loops PROVE QueueOk(LoopOf(c), Append(taskqueue_[LoopOf(c)], task))
      <4>1. PICK q \in Seq(Tasks) : q = taskqueue_[LoopOf(c)]
        BY <1>1, <3>3
      <4>2. /\ Len(Append(q, task)) = Len(q) + 1 /\ Append(q, task)[Len(q) + 1] = task
            /\ \A i \in 1..Len(q) : Append(q, task)[i] = q[i]
        BY <4>1, AppendProperties
      <4>3. task.c = c /\ Len(q) \in Nat
        BY <3>1, LenProperties
      <4>. QED
        BY <1>4, <3>3, <4>1, <4>2, <4>3
    <3>4. \A l \in Loops : QueueOk(l, taskqueue_'[l])
      BY <1>1, <1>4, <3>2, <3>3
    <3>. QED
      BY <1>4, <2>3, <2>5, <3>2, <3>4 DEF SendQueue
  <2>6. CASE Release(w)
    BY <1>1, <1>4, <2>6 DEF Release, loopVars
  <2>. QED
    BY <1>9, <2>1, <2>4, <2>5, <2>6 DEF WorkThread
<1>10. CASE MainThread
  BY <1>5, <1>10 DEF MainThread, Accept, AcceptFails, Die, NewConnection, workVars, loopVars
<1>11. CASE Environment
  BY <1>5, <1>11 DEF Environment, Connect, Ask, Leave, GoIdle, TimerExpires, workVars, loopVars
<1>12. CASE UNCHANGED vars
  BY <1>5, <1>12 DEF vars, workVars, loopVars
<1>. QED
  BY <1>4, <1>8, <1>9, <1>10, <1>11, <1>12 DEF Next

\* The three together.
LEMMA OwnKept ==
    ASSUME TypeOK, OwnInv, [Next]_vars
    PROVE  OwnInv'
<1>1. ConnInv'
  <2>1. CASE UNCHANGED conn
    BY <2>1 DEF OwnInv, ConnInv
  <2>2. ASSUME NEW w \in Workers, WorkThread(w) PROVE UNCHANGED conn
    BY <2>2 DEF WorkThread, TakeTask, SendCheck, SendQueue, Release
  <2>. QED
    BY <2>1, <2>2, MainConn, LoopConn, EnvConn DEF OwnInv, Next, vars
<1>. QED
  BY <1>1, MapKept, TasksKept DEF OwnInv

\* OwnInv holds in every state.
LEMMA OwnHolds == Spec => []OwnInv
<1>1. Init => OwnInv
  <2>1. SUFFICES ASSUME Init PROVE OwnInv
    OBVIOUS
  <2>2. ConnInv
    BY <2>1 DEF Init, ConnInv, ConnOk, CloseCb
  <2>3. MapInv
    BY <2>1 DEF Init, MapInv
  <2>4. TaskInv
    <3>1. Len(pool) = 0 /\ \A l \in Loops : Len(taskqueue_[l]) = 0
      BY <2>1, EmptySeq DEF Init
    <3>. QED
      BY <2>1, <3>1 DEF Init, TaskInv
  <2>. QED
    BY <2>2, <2>3, <2>4 DEF OwnInv
<1>2. TypeOK /\ OwnInv /\ [Next]_vars => OwnInv'
  BY OwnKept
<1>. QED
  BY <1>1, <1>2, TypesHold, PTL DEF Spec

\* The write event is armed exactly while there is something to send: sendinloop()
\* arms it with the first byte and writecallback() disarms it with the last one,
\* whatever the workers queue in between.
THEOREM OutArmedHolds == Spec => []OutArmed
<1>1. OwnInv => OutArmed
  BY DEF OwnInv, ConnInv, ConnOk, OutArmed
<1>. QED
  BY <1>1, OwnHolds, PTL

-----------------------------------------------------------------------------
\* Descriptors are reused only after their Connection is gone.

\* Who refers to a Connection has it from someone who does: only accept4() makes one.
LEMMA AliveShrinks ==
    ASSUME TypeOK, [Next]_vars, NEW d \in Conns, Alive(d)', ~Accept(d)
    PROVE  Alive(d)
<1>1. /\ pool \in Seq(Tasks)
      /\ worker \in [Workers -> [at : {"check", "queue", "done"}, c : Conns, m : Requests]
                                \cup {IdleWorker}]
      /\ NoConn \notin Conns /\ conn[d].stage \in Nat
  <2>1. conn[d] \in ConnType /\ \A k \in ConnType : k.stage \in Stages
    BY DEF TypeOK, ConnType
  <2>2. conn[d].stage \in Nat
    BY <2>1 DEF Stages
  <2>. QED
    BY <2>2, ReactorAssumption, NamedTypes DEF TypeOK
<1>2. Alive(d) <=> \/ conn[d].stage \in Registered..InLoop
                   \/ \E f \in Fds : d \in {serverConns[f], loopConns[f]}
                   \/ \E i \in DOMAIN pool : pool[i].c = d
                   \/ \E w \in Workers : worker[w].c = d
  BY DEF Alive
<1>3. Alive(d)' <=> \/ conn'[d].stage \in Registered..InLoop
                    \/ \E f \in Fds : d \in {serverConns'[f], loopConns'[f]}
                    \/ \E i \in DOMAIN pool' : pool'[i].c = d
                    \/ \E w \in Workers : worker'[w].c = d
  BY DEF Alive
<1>4. CASE conn'[d].stage \in Registered..InLoop
  <2>1. CASE conn'[d].stage = conn[d].stage
    BY <1>2, <1>4, <2>1
  <2>2. CASE conn'[d].stage # conn[d].stage
    <3>1. conn'[d].stage = conn[d].stage + 1
      BY <2>2, StageGrows
    <3>2. conn[d].stage = 0 => Accept(d)
      <4>1. ASSUME conn[d].stage = 0 PROVE MainThread
        <5>1. ASSUME NEW l \in Loops, IOThread(l) PROVE FALSE
          BY <2>2, <5>1, StageKept
        <5>2. ASSUME NEW w \in Workers, WorkThread(w) PROVE FALSE
          BY <2>2, <5>2 DEF WorkThread, TakeTask, SendCheck, SendQueue, Release
        <5>3. ASSUME Environment PROVE FALSE
          BY <2>2, <5>3, EnvKept
        <5>. QED
          BY <2>2, <5>1, <5>2, <5>3 DEF Next, vars
      <4>2. ASSUME NEW c \in Conns, c # d, Accept(c) PROVE FALSE
        BY <2>2, <4>2, NamedTypes DEF Accept
      <4>3. ASSUME NEW c \in Conns, NewConnection(c), conn[d].stage = 0 PROVE FALSE
        <5>1. c # d
          BY <4>3 DEF NewConnection, Registered, InLoop
        <5>. QED
          BY <2>2, <4>3, <5>1, NamedTypes DEF NewConnection
      <4>4. ASSUME AcceptFails PROVE FALSE
        BY <2>2, <4>4 DEF AcceptFails, Die
      <4>. QED
        BY <4>1, <4>2, <4>3, <4>4 DEF MainThread
    <3>. QED
      BY <1>1, <1>2, <1>4, <3>1, <3>2 DEF Registered, InLoop
  <2>. QED
    BY <2>1, <2>2
<1>5. ASSUME NEW f \in Fds, d \in {serverConns'[f], loopConns'[f]} PROVE Alive(d)
  <2>1. ASSUME NEW c \in Conns, NewConnection(c), c = d PROVE Alive(d)
    BY <1>2, <2>1 DEF NewConnection
  <2>. QED
    BY <1>1, <1>2, <1>5, <2>1, MapsChange
<1>6. CASE UNCHANGED <<pool, worker>>
  BY <1>2, <1>3, <1>4, <1>5, <1>6
<1>7. ASSUME NEW w \in Workers, WorkThread(w) PROVE Alive(d)
  <2>1. CASE TakeTask(w)
    <3>1. /\ pool # <<>> /\ pool' = Tail(pool) /\ UNCHANGED <<conn, mapVars>>
          /\ worker' = [worker EXCEPT ![w] = [at |-> "check", c |-> Head(pool).c, m |-> Head(pool).m]]
      BY <2>1 DEF TakeTask
    <3>2. DOMAIN pool = 1..Len(pool) /\ DOMAIN Tail(pool) = 1..Len(Tail(pool))
      BY <1>1, <3>1, HeadTailProperties, LenProperties
    <3>3. ASSUME NEW i \in DOMAIN pool', pool'[i].c = d PROVE Alive(d)
      BY <1>1, <1>2, <3>1, <3>2, <3>3, PoppedTasks
    <3>4. ASSUME NEW v \in Workers, worker'[v].c = d PROVE Alive(d)
      <4>1. CASE v = w
        <5>1. worker'[w].c = Head(pool).c
          BY <1>1, <3>1
        <5>2. 1 \in DOMAIN pool /\ pool[1] = Head(pool)
          BY <1>1, <3>1, <3>2, PoppedTasks
        <5>. QED
          BY <1>2, <3>4, <4>1, <5>1, <5>2
      <4>2. CASE v # w
        BY <1>1, <1>2, <3>1, <3>4, <4>2
      <4>. QED
        BY <4>1, <4>2
    <3>. QED
      BY <1>3, <1>4, <1>5, <3>3, <3>4
  <2>2. CASE ~TakeTask(w)
    <3>1. UNCHANGED pool
      BY <1>7, <2>2 DEF WorkThread, SendCheck, SendQueue, Release
    <3>2. \A v \in Workers : worker'[v].c \in {worker[v].c, NoConn}
      <4>1. \/ \E x : worker' = [worker EXCEPT ![w].at = x]
            \/ worker' = [worker EXCEPT ![w] = IdleWorker]
        BY <1>7, <2>2 DEF WorkThread, SendCheck, SendQueue, Release
      <4>2. ASSUME NEW x, worker' = [worker EXCEPT ![w].at = x]
            PROVE  \A v \in Workers : worker'[v].c = worker[v].c
        BY <1>1, <4>2 DEF IdleWorker
      <4>3. ASSUME worker' = [worker EXCEPT ![w] = IdleWorker]
            PROVE  \A v \in Workers : worker'[v].c \in {worker[v].c, NoConn}
        BY <1>1, <4>3 DEF IdleWorker
      <4>. QED
        BY <4>1, <4>2, <4>3
    <3>. QED
      BY <1>1, <1>2, <1>3, <1>4, <1>5, <3>1, <3>2
  <2>. QED
    BY <2>1, <2>2
<1>8. ASSUME NEW l \in Loops, IOThread(l) PROVE Alive(d)
  <2>1. CASE Dead
    BY <1>6, <2>1 DEF Dead, workVars
  <2>2. ASSUME NEW c \in Conns, ReadMessages(l, c), ~Dead PROVE Alive(d)
    <3>1. PICK msgs \in Seq(Requests) : msgs = conn[c].input \o net[c].rcv
      <4>1. conn[c].input \in Seq(Requests) /\ net[c].rcv \in Seq(Requests)
        BY NamedTypes DEF ConnType, NetType
      <4>. QED
        BY <4>1, ConcatProperties
    <3>2. pool' = HandleMessages(c, msgs) /\ UNCHANGED worker /\ Alive(c)
      BY <2>2, <3>1, ReadEffect DEF ReadMessages, Branch
    <3>3. ASSUME NEW i \in DOMAIN pool' PROVE pool'[i].c = c \/ \E j \in DOMAIN pool : pool'[i] = pool[j]
      <4>1. pool' \in Seq(Tasks)
        BY <3>2, MessagesType
      <4>2. PICK m \in Nat, n \in Nat : m = Len(pool) /\ n = Len(msgs)
        BY <1>1, LenProperties
      <4>3. DOMAIN pool = 1..m /\ DOMAIN pool' = 1..Len(pool')
        BY <1>1, <4>1, <4>2, LenProperties
      <4>4. PICK q : q = HandleMessages(c, msgs)
        OBVIOUS
      <4>5. /\ Len(q) = m + n /\ \A j \in 1..m : q[j] = pool[j]
            /\ \A j \in 1..n : q[m + j] = [c |-> c, m |-> msgs[j]]
        BY <4>2, <4>4, HandedTasks
      <4>6. i \in 1..(m + n) /\ pool' = q
        BY <3>2, <4>3, <4>4, <4>5
      <4>7. CASE i <= m
        BY <4>3, <4>5, <4>6, <4>7
      <4>8. CASE i > m
        <5>1. PICK j \in 1..n : i = m + j
          <6>1. i - m \in 1..n /\ i = m + (i - m)
            BY <4>6, <4>8
          <6>. QED
            BY <6>1
        <5>2. PICK x : x = msgs[j]
          OBVIOUS
        <5>3. q[i] = [c |-> c, m |-> x]
          BY <4>5, <5>1, <5>2
        <5>. QED
          BY <4>6, <5>3
      <4>. QED
        BY <4>6, <4>7, <4>8
    <3>. QED
      BY <1>2, <1>3, <1>4, <1>5, <3>2, <3>3
  <2>3. ASSUME NEW c \in Conns, NEW cb, NEW input, CloseConnection(l, c, cb, input)
        PROVE  UNCHANGED <<pool, worker>>
    BY <2>3 DEF CloseConnection, Die, workVars
  <2>4. ASSUME NEW c \in Conns, Write(l, c) PROVE UNCHANGED <<pool, worker>>
    BY <2>4, WriteEffect DEF Dead, workVars
  <2>5. ASSUME SendInLoop(l) PROVE UNCHANGED <<pool, worker>>
    BY <2>5, SendEffect DEF Dead, workVars
  <2>6. CASE \/ Poll(l) \/ EndOfBatch(l) \/ DispatchDangling(l) \/ HandleWakeup(l) \/ EndOfDrain(l)
             \/ HandleTimer(l) \/ Sweep(l)
    BY <1>6, <2>6 DEF Poll, EndOfBatch, DispatchDangling, Die, HandleWakeup, EndOfDrain,
         HandleTimer, Sweep, SweepNext, SweepIdle, RemoveExpired, SweepOn, SpinEnds, workVars
  <2>. QED
    BY <1>6, <1>8, <2>1, <2>2, <2>3, <2>4, <2>5, <2>6 DEF IOThread, ReadClose, Error
<1>9. CASE MainThread
  BY <1>6, <1>9 DEF MainThread, Accept, AcceptFails, Die, NewConnection, workVars
<1>10. CASE Environment
  BY <1>6, <1>10 DEF Environment, Connect, Ask, Leave, GoIdle, TimerExpires, workVars
<1>11. CASE UNCHANGED vars
  BY <1>6, <1>11 DEF vars, workVars
<1>. QED
  BY <1>7, <1>8, <1>9, <1>10, <1>11 DEF Next

\* What is referred to has been constructed.
LEMMA AliveStage ==
    ASSUME TypeOK, OwnInv, NEW c \in Conns, Alive(c)
    PROVE  conn[c].stage \in 1..Published /\ conn[c].fd \in Fds
<1>1. conn[c].stage \in 0..Published /\ NoConn \notin Conns
  BY ReactorAssumption, NamedTypes DEF ConnType, Stages
<1>2. conn[c].stage # 0
  <2>1. CASE conn[c].stage \in Registered..InLoop
    BY <2>1 DEF Registered, InLoop
  <2>2. ASSUME NEW f \in Fds, c \in {serverConns[f], loopConns[f]} PROVE conn[c].stage # 0
    BY <1>1, <2>2 DEF OwnInv, MapInv, InServer, InLoop
  <2>3. ASSUME NEW i \in DOMAIN pool, pool[i].c = c PROVE conn[c].stage # 0
    <3>1. i \in 1..Len(pool)
      BY LenProperties DEF TypeOK
    <3>. QED
      BY <2>3, <3>1 DEF OwnInv, TaskInv, Ready, MessageCb
  <2>4. ASSUME NEW w \in Workers, worker[w].c = c PROVE conn[c].stage # 0
    <3>1. worker[w] # IdleWorker
      BY <1>1, <2>4 DEF IdleWorker
    <3>. QED
      BY <2>4, <3>1 DEF OwnInv, TaskInv, Ready, MessageCb
  <2>. QED
    BY <2>1, <2>2, <2>3, <2>4 DEF Alive
<1>. QED
  BY <1>1, <1>2 DEF OwnInv, ConnInv, ConnOk, Published

\* Two Connections that exist at the same time have different descriptors.
UniqueInv == \A c, d \in Conns : Alive(c) /\ Alive(d) /\ conn[c].fd = conn[d].fd => c = d

\* accept4() returns a descriptor that no living Connection has; every other step keeps
\* the descriptors and brings no Connection back.
LEMMA UniqueKept ==
    ASSUME TypeOK, OwnInv, UniqueInv, [Next]_vars
    PROVE  UniqueInv'
<1>1. SUFFICES ASSUME NEW c \in Conns, NEW d \in Conns, Alive(c)', Alive(d)',
                      conn'[c].fd = conn'[d].fd, c # d
               PROVE  FALSE
  BY DEF UniqueInv
<1>2. ASSUME NEW x \in Conns, NEW y \in Conns, x # y, Accept(x), Alive(y)'
      PROVE  conn'[x].fd # conn'[y].fd
  <2>1. ~Accept(y)
    <3>1. SUFFICES ASSUME Accept(y) PROVE FALSE
      OBVIOUS
    <3>2. conn'[y] = conn[y] /\ conn[y].stage = 0
      BY <1>2, <3>1, NamedTypes DEF Accept, Backlogged
    <3>3. PICK k \in ConnType : k = conn[y] /\ ConnOk(k) /\ k.stage = 0
      BY <3>2, NamedTypes DEF OwnInv, ConnInv
    <3>4. PICK f \in Fds : f = AcceptedFd
      <4>1. conn[y].fd \notin Fds
        BY <3>3, FdsAre DEF ConnOk, End
      <4>. QED
        BY <4>1, AcceptedFdIsFree
    <3>5. conn'[y] = Constructed(k, f) /\ Constructed(k, f).stage = Registered
      BY <3>1, <3>3, <3>4, NamedTypes, ConstructedType DEF Accept
    <3>. QED
      BY <3>2, <3>5 DEF Registered
  <2>2. Alive(y)
    BY <1>2, <2>1, AliveShrinks
  <2>3. conn[y].stage # 0 /\ conn[y].fd \in Fds
    BY <2>2, AliveStage
  <2>4. conn'[y].fd = conn[y].fd
    BY <2>3, StageGrows
  <2>5. PICK k \in ConnType : k = conn[x] /\ ConnOk(k) /\ k.stage = 0
    BY <1>2, NamedTypes DEF Accept, Backlogged, OwnInv, ConnInv
  <2>6. PICK f \in Fds : f = AcceptedFd /\ ~FdInUse(f)
    <3>1. conn[x].fd \notin Fds
      BY <2>5, FdsAre DEF ConnOk, End
    <3>. QED
      BY <3>1, AcceptedFdIsFree
  <2>7. conn' = [conn EXCEPT ![x] = Constructed(k, f)] /\ Constructed(k, f).fd = f
    BY <1>2, <2>5, <2>6, ConstructedOk DEF Accept
  <2>8. conn'[x].fd = f
    BY <2>7, NamedTypes
  <2>. QED
    BY <2>2, <2>4, <2>6, <2>8 DEF FdInUse
<1>3. ~Accept(c) /\ ~Accept(d)
  BY <1>1, <1>2
<1>4. Alive(c) /\ Alive(d)
  BY <1>1, <1>3, AliveShrinks
<1>5. conn[c].stage # 0 /\ conn[d].stage # 0
  BY <1>4, AliveStage
<1>. QED
  BY <1>1, <1>4, <1>5, StageGrows DEF UniqueInv

\* UniqueInv holds in every state.
LEMMA UniqueHolds == Spec => []UniqueInv
<1>1. Init => UniqueInv
  <2>1. SUFFICES ASSUME Init, NEW c \in Conns PROVE ~Alive(c)
    BY DEF UniqueInv
  <2>2. conn[c].stage = 0 /\ DOMAIN pool = {} /\ NoConn \notin Conns
    BY <2>1, ReactorAssumption DEF Init
  <2>3. ~(0 \in Registered..InLoop)
    BY DEF Registered, InLoop
  <2>. QED
    BY <2>1, <2>2, <2>3 DEF Alive, Init, IdleWorker
<1>2. TypeOK /\ OwnInv /\ UniqueInv /\ [Next]_vars => UniqueInv'
  BY UniqueKept
<1>. QED
  BY <1>1, <1>2, TypesHold, OwnHolds, PTL DEF Spec

\* No new connection takes the map entry of another one: the entry keeps its
\* Connection alive, and a living Connection keeps its descriptor.
THEOREM EntriesNotReplacedHolds == Spec => EntriesNotReplaced
<1>. DEFINE Step == \A f \in Fds :
              /\ serverConns[f] # NoConn => serverConns'[f] \in {serverConns[f], NoConn}
              /\ loopConns[f] # NoConn => loopConns'[f] \in {loopConns[f], NoConn}
<1>1. ASSUME TypeOK, OwnInv, UniqueInv, [Next]_vars PROVE Step
  <2>1. SUFFICES ASSUME NEW f \in Fds
                 PROVE  /\ serverConns[f] # NoConn => serverConns'[f] \in {serverConns[f], NoConn}
                        /\ loopConns[f] # NoConn => loopConns'[f] \in {loopConns[f], NoConn}
    OBVIOUS
  <2>2. ASSUME NEW c \in Conns, NewConnection(c), conn[c].fd = f,
               NEW d \in {serverConns[f], loopConns[f]}, d # NoConn
        PROVE  c = d
    <3>1. d \in Conns /\ Alive(d) /\ conn[d].fd = f
      BY <1>1, <2>2 DEF TypeOK, Alive, OwnInv, MapInv
    <3>2. Alive(c)
      BY <2>2 DEF NewConnection, Alive
    <3>. QED
      BY <1>1, <2>2, <3>1, <3>2 DEF UniqueInv
  <2>. QED
    BY <1>1, <2>2, MapsChange
<1>2. Spec => [][Step]_vars
  <2>1. TypeOK /\ OwnInv /\ UniqueInv /\ [Next]_vars => [Step]_vars
    BY <1>1
  <2>. QED
    BY <2>1, TypesHold, OwnHolds, UniqueHolds, PTL DEF Spec
<1>. QED
  BY <1>2 DEF EntriesNotReplaced

-----------------------------------------------------------------------------
\* What waits in a batch of epoll_wait().

\* A batch holds each channel once, and Connections of its own loop that are not
\* closed: closecallback() runs in the loop's thread and takes its channel out.
BatchInv ==
    \A l \in Loops :
      /\ \A e \in channels[l] : e[1] \in Conns => /\ conn[e[1]].stage # 0 /\ LoopOf(e[1]) = l
                                                  /\ ~conn[e[1]].disconnect
      /\ \A e, g \in channels[l] : e[1] = g[1] => e = g

\* Only epoll_wait() fills a batch.
LEMMA BatchShrinks ==
    ASSUME TypeOK, [Next]_vars, NEW l \in Loops, ~Poll(l)
    PROVE  channels'[l] \subseteq channels[l]
<1>1. channels \in [Loops -> SUBSET ((Conns \cup {"wake", "timer"}) \X SUBSET Revent)]
  BY DEF TypeOK, Revent
<1>2. CASE UNCHANGED channels
  BY <1>2
<1>3. ASSUME NEW k \in Loops, NEW ch, Dispatched(k, ch)
      PROVE  channels'[l] \subseteq channels[l]
  BY <1>1, <1>3 DEF Dispatched
<1>4. ASSUME NEW k \in Loops, IOThread(k), ~Poll(k) PROVE channels'[l] \subseteq channels[l]
  <2>1. CASE Dead
    BY <1>2, <2>1 DEF Dead, loopVars
  <2>2. ASSUME NEW c \in Conns, NEW cb, NEW input, CloseConnection(k, c, cb, input)
        PROVE  channels'[l] \subseteq channels[l]
    BY <1>2, <1>3, <2>2 DEF CloseConnection, Die, loopVars
  <2>3. ASSUME NEW c \in Conns, ReadMessages(k, c) \/ Write(k, c)
        PROVE  channels'[l] \subseteq channels[l]
    BY <1>3, <2>1, <2>3, ReadEffect, WriteEffect
  <2>4. CASE SendInLoop(k)
    BY <1>2, <2>1, <2>4, SendEffect
  <2>5. CASE HandleWakeup(k) \/ HandleTimer(k)
    BY <1>3, <2>5 DEF HandleWakeup, HandleTimer
  <2>6. CASE EndOfBatch(k) \/ DispatchDangling(k) \/ EndOfDrain(k) \/ Sweep(k)
    BY <1>2, <2>6 DEF EndOfBatch, DispatchDangling, Die, EndOfDrain, Sweep, SweepNext, SweepIdle, RemoveExpired, SweepOn, SpinEnds, loopVars
  <2>. QED
    BY <1>4, <2>2, <2>3, <2>4, <2>5, <2>6 DEF IOThread, ReadClose, Error
<1>5. ASSUME NEW k \in Loops, Poll(k), k # l PROVE channels'[l] \subseteq channels[l]
  BY <1>1, <1>5 DEF Poll
<1>6. ASSUME NEW w \in Workers, WorkThread(w) PROVE UNCHANGED channels
  BY <1>6 DEF WorkThread, TakeTask, SendCheck, SendQueue, Release, loopVars
<1>7. CASE MainThread
  BY <1>2, <1>7 DEF MainThread, Accept, AcceptFails, Die, NewConnection, loopVars
<1>8. CASE Environment
  BY <1>2, <1>8 DEF Environment, Connect, Ask, Leave, GoIdle, TimerExpires, loopVars
<1>. QED
  BY <1>2, <1>4, <1>5, <1>6, <1>7, <1>8 DEF Next, vars, loopVars

\* Only closecallback() and errorcallback() set disconnect_.
LEMMA ClosedBy ==
    ASSUME TypeOK, OwnInv, [Next]_vars, NEW c \in Conns,
           conn'[c].disconnect # conn[c].disconnect, conn[c].stage # 0
    PROVE  \E l \in Loops : Dispatched(l, c)
<1>1. UNCHANGED conn => FALSE
  OBVIOUS
<1>2. ASSUME NEW d \in Conns, NEW k, conn' = [conn EXCEPT ![d] = k],
             k.disconnect = conn[d].disconnect
      PROVE  FALSE
  BY <1>2, NamedTypes
<1>3. ASSUME NEW l \in Loops, IOThread(l) PROVE Dispatched(l, c)
  <2>1. CASE Dead
    BY <1>1, <2>1 DEF Dead
  <2>2. ASSUME NEW d \in Conns, NEW cb, NEW input, CloseConnection(l, d, cb, input)
        PROVE  Dispatched(l, c)
    BY <1>1, <2>2, NamedTypes DEF CloseConnection, Die
  <2>3. ASSUME NEW d \in Conns, ReadMessages(l, d) PROVE FALSE
    <3>1. PICK b \in BOOLEAN :
            conn' = [conn EXCEPT ![d] = [conn[d] EXCEPT !.input = <<>>, !.idle = conn[d].idle /\ b]]
      BY <2>3, <1>1, ReadEffect DEF Dead
    <3>2. PICK k : k = [conn[d] EXCEPT !.input = <<>>, !.idle = conn[d].idle /\ b]
      OBVIOUS
    <3>3. k.disconnect = conn[d].disconnect
      BY <3>2, NamedTypes DEF ConnType
    <3>. QED
      BY <1>2, <3>1, <3>2, <3>3
  <2>4. ASSUME NEW d \in Conns, Write(l, d) PROVE FALSE
    BY <1>1, <1>2, <2>4, WriteEffect, ZenonT(60) DEF Dead
  <2>5. CASE SendInLoop(l)
    <3>1. PICK task \in Tasks : conn' = [conn EXCEPT ![task.c] = Queued(conn[task.c], task.m)]
      BY <1>1, <2>5, SendEffect DEF Dead
    <3>2. task.c \in Conns /\ conn[task.c] \in ConnType
      BY NamedTypes DEF Tasks
    <3>. QED
      BY <1>2, <3>1, <3>2, QueuedIs
  <2>6. CASE \/ Poll(l) \/ EndOfBatch(l) \/ DispatchDangling(l) \/ HandleWakeup(l) \/ EndOfDrain(l)
             \/ HandleTimer(l) \/ Sweep(l)
    BY <1>1, <2>6 DEF Poll, EndOfBatch, DispatchDangling, Die, HandleWakeup, EndOfDrain,
         HandleTimer, Sweep, SweepNext, SweepIdle, RemoveExpired, SweepOn, SpinEnds
  <2>. QED
    BY <1>3, <2>1, <2>2, <2>3, <2>4, <2>5, <2>6 DEF IOThread, ReadClose, Error
<1>4. ASSUME NEW w \in Workers, WorkThread(w) PROVE UNCHANGED conn
  BY <1>4 DEF WorkThread, TakeTask, SendCheck, SendQueue, Release
<1>5. ASSUME NEW d \in Conns, Accept(d) PROVE FALSE
  BY <1>5, NamedTypes DEF Accept, Backlogged
<1>6. ASSUME NEW d \in Conns, NewConnection(d) PROVE FALSE
  BY <1>6, NamedTypes DEF NewConnection, ConnType
<1>. QED
  BY <1>1, <1>3, <1>4, <1>5, <1>6, EnvKept DEF Next, vars, MainThread, AcceptFails, Die

\* Only the step that dispatches the last event of a connection closes it, and
\* epoll_wait() reports no channel that has been removed.
LEMMA BatchKept ==
    ASSUME TypeOK, OwnInv, BatchInv, [Next]_vars
    PROVE  BatchInv'
<1>1. channels \in [Loops -> SUBSET ((Conns \cup {"wake", "timer"}) \X SUBSET Revent)]
  BY DEF TypeOK, Revent
<1>2. ASSUME NEW l \in Loops, Poll(l), NEW e \in channels'[l]
      PROVE  /\ e[1] \in Conns => /\ conn[e[1]].stage # 0 /\ LoopOf(e[1]) = l
                                  /\ ~conn[e[1]].disconnect
             /\ \A g \in channels'[l] : e[1] = g[1] => e = g
  <2>1. channels'[l] = {<<c, Revents(c)>> : c \in ReadyConns(l)}
           \cup (IF taskqueue_[l] # <<>> THEN {<<"wake", {"IN"}>>} ELSE {})
           \cup (IF timerfd_[l] THEN {<<"timer", {"IN"}>>} ELSE {})
    BY <1>1, <1>2 DEF Poll
  <2>2. ReadyConns(l) \subseteq Conns /\ Conns \cap {"wake", "timer"} = {}
    BY ReactorAssumption DEF ReadyConns
  <2>3. ASSUME e[1] \in Conns
        PROVE  /\ conn[e[1]].stage # 0 /\ LoopOf(e[1]) = l /\ ~conn[e[1]].disconnect
    <3>1. e[1] \in ReadyConns(l)
      BY <2>1, <2>2, <2>3
    <3>. QED
      BY <2>3, <3>1 DEF ReadyConns, OwnInv, ConnInv, ConnOk
  <2>4. \A g \in channels'[l] : e[1] = g[1] => e = g
    BY <2>1, <2>2
  <2>. QED
    BY <2>3, <2>4
<1>3. ASSUME NEW l \in Loops, ~Poll(l), NEW e \in channels'[l], e[1] \in Conns
      PROVE  /\ conn'[e[1]].stage # 0 /\ LoopOf(e[1])' = l /\ ~conn'[e[1]].disconnect
  <2>1. PICK c \in Conns : c = e[1]
    BY <1>3
  <2>2. e \in channels[l] /\ channels'[l] \subseteq channels[l]
    BY <1>3, BatchShrinks
  <2>3. conn[c].stage # 0 /\ LoopOf(c) = l /\ ~conn[c].disconnect /\ conn[c].stage \in Nat
    BY <2>1, <2>2, NamedTypes DEF BatchInv, ConnType, Stages
  <2>4. conn'[c].stage # 0 /\ LoopOf(c)' = l
    BY <2>3, StageGrows DEF LoopOf
  <2>5. ASSUME NEW k \in Loops, Dispatched(k, c) PROVE FALSE
    <3>1. PICK g \in channels[k] : g[1] = c /\ channels' = [channels EXCEPT ![k] = @ \ {g}]
      BY <2>5 DEF Dispatched
    <3>2. k = l
      BY <2>3, <3>1 DEF BatchInv
    <3>3. g = e
      BY <2>1, <2>2, <3>1, <3>2 DEF BatchInv
    <3>. QED
      BY <1>1, <1>3, <3>1, <3>2, <3>3
  <2>6. conn'[c].disconnect = conn[c].disconnect
    BY <2>3, <2>5, ClosedBy
  <2>. QED
    BY <2>1, <2>3, <2>4, <2>6
<1>4. ASSUME NEW l \in Loops
      PROVE  \A e, g \in channels'[l] : e[1] = g[1] => e = g
  <2>1. CASE Poll(l)
    BY <1>2, <2>1
  <2>2. CASE ~Poll(l)
    BY <2>2, BatchShrinks DEF BatchInv
  <2>. QED
    BY <2>1, <2>2
<1>5. ASSUME NEW l \in Loops, NEW e \in channels'[l], e[1] \in Conns
      PROVE  /\ conn'[e[1]].stage # 0 /\ LoopOf(e[1])' = l /\ ~conn'[e[1]].disconnect
  <2>1. CASE Poll(l)
    <3>1. UNCHANGED conn
      BY <2>1 DEF Poll
    <3>. QED
      BY <1>2, <1>5, <2>1, <3>1 DEF LoopOf
  <2>2. CASE ~Poll(l)
    BY <1>3, <1>5, <2>2
  <2>. QED
    BY <2>1, <2>2
<1>. QED
  BY <1>4, <1>5 DEF BatchInv

\* BatchInv holds in every state.
LEMMA BatchHolds == Spec => []BatchInv
<1>1. Init => BatchInv
  BY DEF Init, BatchInv
<1>2. TypeOK /\ OwnInv /\ BatchInv /\ [Next]_vars => BatchInv'
  BY BatchKept
<1>. QED
  BY <1>1, <1>2, TypesHold, OwnHolds, PTL DEF Spec

\* After closecallback() or errorcallback() no batch holds the connection's channel:
\* neither runs a second time, on any loop.
THEOREM ClosedNotDispatchedHolds == Spec => []ClosedNotDispatched
<1>1. BatchInv => ClosedNotDispatched
  BY DEF BatchInv, ClosedNotDispatched
<1>. QED
  BY <1>1, BatchHolds, PTL

-----------------------------------------------------------------------------
\* The sweep of handletimer().

\* The iterator stands in the entries of its own loop, or on end().
Sweeping == {"sweep", "remove", "next"}
IterInv == \A l \in Loops : pc[l] \in Sweeping /\ aa[l] # End => aa[l] \in Keys(l)

\* A step of the traversal that leaves the map alone ends on an entry or on end().
LEMMA SteppedTo ==
    ASSUME TypeOK, IterInv, NEW l \in Loops, NEW x, NEW v, UNCHANGED loopConns,
           pc' = [pc EXCEPT ![l] = x], aa' = [aa EXCEPT ![l] = v],
           v = End \/ v \in Keys(l)
    PROVE  IterInv'
<1>1. aa \in [Loops -> Fds \cup {End}] /\ DOMAIN pc = Loops
  BY DEF TypeOK
<1>2. \A k \in Loops : Keys(k)' = Keys(k)
  BY DEF Keys
<1>3. ASSUME NEW k \in Loops, k # l, pc'[k] \in Sweeping, aa'[k] # End PROVE aa'[k] \in Keys(k)'
  BY <1>1, <1>2, <1>3 DEF IterInv
<1>4. aa'[l] = End \/ aa'[l] \in Keys(l)'
  BY <1>1, <1>2
<1>. QED
  BY <1>3, <1>4 DEF IterInv

\* The steps of handletimer().
LEMMA SweepKept ==
    ASSUME TypeOK, IterInv, NEW l \in Loops, Sweep(l) \/ HandleTimer(l)
    PROVE  IterInv'
<1>1. /\ pc \in [Loops -> {"poll", "dispatch", "drain", "sweep", "remove", "next", "spin"}]
      /\ aa \in [Loops -> Fds \cup {End}] /\ loopConns \in [Fds -> Conns \cup {NoConn}]
  BY DEF TypeOK
<1>2. Fds \subseteq Nat /\ End \in Nat /\ Keys(l) \subseteq Nat /\ aa[l] \in Nat
  <2>1. Fds \subseteq Nat /\ End \in Nat
    BY FdsAre DEF End
  <2>. QED
    BY <1>1, <2>1 DEF Keys
<1>3. /\ After(Keys(l), End) = End \/ After(Keys(l), End) \in Keys(l)
      /\ After(Keys(l), aa[l]) = End
         \/ (After(Keys(l), aa[l]) \in Keys(l) /\ After(Keys(l), aa[l]) # aa[l])
  <2>1. ASSUME NEW f \in Nat
        PROVE  After(Keys(l), f) = End \/ (After(Keys(l), f) \in Keys(l) /\ After(Keys(l), f) # f)
    BY <1>2, <2>1, AfterOf
  <2>. QED
    BY <1>2, <2>1
<1>4. CASE HandleTimer(l)
  BY <1>3, <1>4, SteppedTo DEF HandleTimer, mapVars
<1>5. CASE SweepNext(l)
  <2>1. UNCHANGED loopConns
    BY <1>5 DEF SweepNext, mapVars
  <2>2. CASE aa[l] = End
    <3>1. pc' = [pc EXCEPT ![l] = "dispatch"] /\ aa' = [aa EXCEPT ![l] = End]
      BY <1>1, <1>5, <2>2 DEF SweepNext
    <3>. QED
      BY <2>1, <3>1, SteppedTo
  <2>3. CASE aa[l] # End
    <3>1. aa' = [aa EXCEPT ![l] = After(Keys(l), aa[l])] /\ pc' = [pc EXCEPT ![l] = "sweep"]
      BY <1>1, <1>5, <2>3 DEF SweepNext
    <3>. QED
      BY <1>3, <2>1, <3>1, SteppedTo
  <2>. QED
    BY <2>2, <2>3
<1>6. CASE RemoveExpired(l)
  <2>1. /\ pc[l] = "remove" /\ pc' = [pc EXCEPT ![l] = "next"]
        /\ UNCHANGED loopConns /\ aa' = [aa EXCEPT ![l] = aa[l]]
    BY <1>1, <1>6 DEF RemoveExpired
  <2>2. aa[l] = End \/ aa[l] \in Keys(l)
    BY <2>1 DEF IterInv, Sweeping
  <2>. QED
    BY <2>1, <2>2, SteppedTo
<1>7. CASE SweepOn(l)
  <2>1. UNCHANGED loopConns
    BY <1>7 DEF SweepOn, mapVars
  <2>2. PastEnd(Keys(l)) \subseteq Keys(l)
    BY DEF PastEnd
  <2>3. PICK x, v : /\ pc' = [pc EXCEPT ![l] = x] /\ aa' = [aa EXCEPT ![l] = v]
                    /\ v = End \/ v \in Keys(l)
    <3>1. CASE aa[l] # End
      BY <1>3, <1>7, <3>1 DEF SweepOn
    <3>2. CASE aa[l] = End /\ pc' = [pc EXCEPT ![l] = "spin"] /\ UNCHANGED aa
      <4>1. aa' = [aa EXCEPT ![l] = End]
        BY <1>1, <3>2
      <4>. QED
        BY <3>2, <4>1
    <3>. QED
      BY <1>7, <2>2, <3>1, <3>2 DEF SweepOn
  <2>. QED
    BY <2>1, <2>3, SteppedTo
<1>8. CASE SpinEnds(l)
  BY <1>8, MinOfKeys, SteppedTo DEF SpinEnds, mapVars
<1>9. CASE SweepIdle(l)
  <2>1. /\ pc[l] = "sweep" /\ aa[l] # End /\ pc' = [pc EXCEPT ![l] = "remove"]
        /\ aa' = [aa EXCEPT ![l] = After(Keys(l), aa[l])]
        /\ loopConns' = [loopConns EXCEPT ![aa[l]] = NoConn]
    BY <1>9 DEF SweepIdle
  <2>2. aa[l] \in Keys(l) /\ aa[l] % ThreadNum = l
    BY <2>1 DEF IterInv, Keys, Sweeping
  <2>3. \A k \in Loops, f \in Fds : f \in Keys(k) /\ f # aa[l] => f \in Keys(k)'
    BY <1>1, <2>1 DEF Keys
  <2>4. \A k \in Loops : k # l => aa[l] \notin Keys(k)
    BY <2>2 DEF Keys
  <2>5. \A k \in Loops : Keys(k) \subseteq Fds
    BY DEF Keys
  <2>6. ASSUME NEW k \in Loops, k # l, pc'[k] \in Sweeping, aa'[k] # End
        PROVE  aa'[k] \in Keys(k)'
    BY <1>1, <2>1, <2>3, <2>4, <2>5, <2>6 DEF IterInv
  <2>7. aa'[l] = End \/ aa'[l] \in Keys(l)'
    BY <1>1, <1>3, <2>1, <2>3, <2>5
  <2>. QED
    BY <2>6, <2>7 DEF IterInv
<1>. QED
  BY <1>4, <1>5, <1>6, <1>7, <1>8, <1>9 DEF Sweep

\* erase() and ++ of handletimer() stay on the entries of the map, which main only adds to.
LEMMA IterKept ==
    ASSUME TypeOK, IterInv, [Next]_vars
    PROVE  IterInv'
<1>1. /\ pc \in [Loops -> {"poll", "dispatch", "drain", "sweep", "remove", "next", "spin"}]
      /\ loopConns \in [Fds -> Conns \cup {NoConn}] /\ NoConn \notin Conns
  BY ReactorAssumption DEF TypeOK
<1>2. CASE UNCHANGED <<loopConns, pc, aa>>
  BY <1>2 DEF IterInv, Keys
<1>3. ASSUME NEW l \in Loops, NEW x, x \notin Sweeping, UNCHANGED <<loopConns, aa>>,
             pc' = [pc EXCEPT ![l] = x]
      PROVE  IterInv'
  BY <1>1, <1>3 DEF IterInv, Keys
<1>4. ASSUME NEW l \in Loops, IOThread(l) PROVE IterInv'
  <2>1. CASE Dead
    BY <1>2, <2>1 DEF Dead, mapVars, loopVars
  <2>2. ASSUME NEW c \in Conns, NEW cb, NEW input, CloseConnection(l, c, cb, input)
        PROVE  UNCHANGED <<loopConns, pc, aa>>
    BY <2>2 DEF CloseConnection, Die, mapVars, loopVars
  <2>3. ASSUME NEW c \in Conns, ReadMessages(l, c) \/ Write(l, c), ~Dead
        PROVE  UNCHANGED <<loopConns, pc, aa>>
    BY <2>3, ReadEffect, WriteEffect DEF mapVars
  <2>4. ASSUME SendInLoop(l), ~Dead PROVE UNCHANGED <<loopConns, pc, aa>>
    BY <2>4, SendEffect DEF mapVars
  <2>5. CASE Poll(l) \/ EndOfBatch(l) \/ HandleWakeup(l) \/ EndOfDrain(l)
    BY <1>3, <2>5 DEF Poll, EndOfBatch, HandleWakeup, EndOfDrain, mapVars, Sweeping
  <2>6. CASE Sweep(l) \/ HandleTimer(l)
    BY <2>6, SweepKept
  <2>. QED
    BY <1>2, <1>4, <2>1, <2>2, <2>3, <2>4, <2>5, <2>6
       DEF IOThread, ReadClose, Error, DispatchDangling, Die, Dead
<1>5. CASE MainThread
  <2>1. UNCHANGED <<pc, aa>>
    BY <1>5 DEF MainThread, Accept, AcceptFails, Die, NewConnection, loopVars
  <2>2. \A f \in Fds : loopConns[f] # NoConn => loopConns'[f] # NoConn
    <3>1. ASSUME NEW c \in Conns, NewConnection(c)
          PROVE  \A f \in Fds : loopConns[f] # NoConn => loopConns'[f] # NoConn
      BY <1>1, <3>1 DEF NewConnection
    <3>. QED
      BY <1>5, <3>1 DEF MainThread, Accept, AcceptFails, Die, mapVars
  <2>. QED
    BY <2>1, <2>2 DEF IterInv, Keys
<1>6. CASE Environment
  BY <1>2, <1>6 DEF Environment, Connect, Ask, Leave, GoIdle, TimerExpires, mapVars, loopVars
<1>7. ASSUME NEW w \in Workers, WorkThread(w) PROVE UNCHANGED <<loopConns, pc, aa>>
  BY <1>7 DEF WorkThread, TakeTask, SendCheck, SendQueue, Release, mapVars, loopVars
<1>8. CASE UNCHANGED vars
  BY <1>2, <1>8 DEF vars, mapVars, loopVars
<1>. QED
  BY <1>2, <1>4, <1>5, <1>6, <1>7, <1>8 DEF Next

\* The iterator of handletimer() is valid whenever it is read or advanced: what the
\* traversal erases it leaves first, the other loops erase only entries of their own,
\* and main only adds, between whichever steps of the sweep.
THEOREM IteratorValidHolds == Spec => []IteratorValid
<1>1. Init => IterInv
  BY DEF Init, IterInv, Sweeping
<1>2. TypeOK /\ IterInv /\ [Next]_vars => IterInv'
  BY IterKept
<1>3. IterInv => IteratorValid
  BY DEF IterInv, IteratorValid, Keys, Sweeping
<1>. QED
  BY <1>1, <1>2, <1>3, TypesHold, PTL DEF Spec

-----------------------------------------------------------------------------
\* What the maps forget, and why.

\* A step in which no map changes and nothing is stored or closed.
Calm == /\ UNCHANGED mapVars
        /\ \A c \in Conns : conn[c].stage # 0 => /\ conn'[c].stage = conn[c].stage
                                                 /\ conn'[c].disconnect = conn[c].disconnect

\* Loop l closes d.
Closes(l, d) ==
    /\ Alive(d) /\ conn[d].stage # 0
    /\ \A c \in Conns : /\ conn'[c].stage = conn[c].stage
                        /\ conn'[c].disconnect = (c = d \/ conn[c].disconnect)
    /\ serverConns' = [serverConns EXCEPT ![conn[d].fd] = NoConn]
    /\ UNCHANGED loopConns /\ ClosedAt(d)

\* closecallback() and errorcallback() end the process or close their connection.
LEMMA ClosesBy ==
    ASSUME TypeOK, OwnInv, NEW l \in Loops, NEW d \in Conns, ReadClose(l, d) \/ Error(l, d)
    PROVE  Dead \/ Closes(l, d)
<1>1. PICK cb, input, e : CloseConnection(l, d, cb, input) /\ Branch(l, d, e)
  BY DEF ReadClose, Error
<1>2. CASE Dead
  BY <1>2
<1>3. CASE ~Dead
  <2>1. PICK r \in ConnType : r = conn[d]
    BY NamedTypes
  <2>2. PICK k : k = [Removed(r) EXCEPT !.input = input]
    OBVIOUS
  <2>3. /\ conn' = [conn EXCEPT ![d] = k]
        /\ serverConns' = [serverConns EXCEPT ![conn[d].fd] = NoConn]
        /\ UNCHANGED loopConns /\ ClosedAt(d)
    <3>1. CloseConnection(l, d, cb, input)
      BY <1>1
    <3>2. /\ conn' = [conn EXCEPT ![d] = [Removed(conn[d]) EXCEPT !.input = input]]
          /\ serverConns' = [serverConns EXCEPT ![conn[d].fd] = NoConn]
          /\ UNCHANGED loopConns /\ ClosedAt(d)
      BY <1>3, <3>1 DEF CloseConnection, Die, Dead
    <3>. QED
      BY <2>1, <2>2, <3>2
  <2>4. k.stage = r.stage /\ k.disconnect = TRUE
    BY <2>2, RemovedIs
  <2>5. Alive(d) /\ conn[d].stage # 0
    BY <1>1, AliveStage DEF Branch
  <2>6. ASSUME NEW c \in Conns
        PROVE  /\ conn'[c].stage = conn[c].stage
               /\ conn'[c].disconnect = (c = d \/ conn[c].disconnect)
    <3>1. conn'[c] = IF c = d THEN k ELSE conn[c]
      BY <2>3, NamedTypes
    <3>2. conn[c].disconnect \in BOOLEAN
      BY NamedTypes DEF ConnType
    <3>. QED
      BY <2>1, <2>4, <3>1, <3>2
  <2>. QED
    BY <2>3, <2>5, <2>6 DEF Closes
<1>. QED
  BY <1>2, <1>3

\* What the steps of a loop do to the maps.
LEMMA LoopFates ==
    ASSUME TypeOK, OwnInv, NEW l \in Loops, IOThread(l)
    PROVE  \/ Calm \/ SweepIdle(l) \/ RemoveExpired(l)
           \/ \E d \in Conns : Closes(l, d)
<1>1. UNCHANGED <<conn, mapVars>> => Calm
  BY DEF Calm
<1>2. CASE Dead
  BY <1>1, <1>2 DEF Dead
<1>3. ASSUME NEW d \in Conns, NEW k, conn' = [conn EXCEPT ![d] = k], UNCHANGED mapVars,
             k.stage = conn[d].stage, k.disconnect = conn[d].disconnect
      PROVE  Calm
  BY <1>3, NamedTypes DEF Calm
<1>4. ASSUME NEW d \in Conns, ReadMessages(l, d), ~Dead PROVE Calm
  <2>1. PICK b \in BOOLEAN :
          /\ conn' = [conn EXCEPT ![d] = [conn[d] EXCEPT !.input = <<>>, !.idle = conn[d].idle /\ b]]
          /\ UNCHANGED mapVars
    BY <1>4, ReadEffect
  <2>2. PICK k : k = [conn[d] EXCEPT !.input = <<>>, !.idle = conn[d].idle /\ b]
    OBVIOUS
  <2>3. k.stage = conn[d].stage /\ k.disconnect = conn[d].disconnect
    BY <2>2, NamedTypes DEF ConnType
  <2>. QED
    BY <1>3, <2>1, <2>2, <2>3
<1>5. ASSUME NEW d \in Conns, Write(l, d), ~Dead PROVE Calm
  <2>1. PICK k : /\ conn' = [conn EXCEPT ![d] = k] /\ k.stage = conn[d].stage
                 /\ k.disconnect = conn[d].disconnect /\ UNCHANGED mapVars
    BY <1>5, WriteEffect, ZenonT(60)
  <2>. QED
    BY <1>3, <2>1
<1>6. ASSUME SendInLoop(l), ~Dead PROVE Calm
  <2>1. PICK task \in Tasks : /\ conn' = [conn EXCEPT ![task.c] = Queued(conn[task.c], task.m)]
                              /\ UNCHANGED mapVars
    BY <1>6, SendEffect
  <2>2. task.c \in Conns /\ conn[task.c] \in ConnType
    BY NamedTypes DEF Tasks
  <2>. QED
    BY <1>3, <2>1, <2>2, QueuedIs
<1>7. CASE \/ Poll(l) \/ EndOfBatch(l) \/ DispatchDangling(l) \/ HandleWakeup(l) \/ EndOfDrain(l)
           \/ HandleTimer(l) \/ SweepNext(l) \/ SweepOn(l) \/ SpinEnds(l)
  BY <1>1, <1>7 DEF Poll, EndOfBatch, DispatchDangling, Die, HandleWakeup, EndOfDrain,
       HandleTimer, SweepNext, SweepOn, SpinEnds
<1>. QED
  BY <1>2, <1>4, <1>5, <1>6, <1>7, ClosesBy DEF IOThread, Sweep

\* What any step does to them.
LEMMA MapFates ==
    ASSUME TypeOK, OwnInv, [Next]_vars
    PROVE  \/ Calm
           \/ \E d \in Conns : NewConnection(d)
           \/ \E l \in Loops : SweepIdle(l) \/ RemoveExpired(l) \/ \E d \in Conns : Closes(l, d)
<1>1. UNCHANGED <<conn, mapVars>> => Calm
  BY DEF Calm
<1>2. CASE Environment
  BY <1>2, EnvKept DEF Calm, Environment, Connect, Ask, Leave, GoIdle, TimerExpires
<1>3. ASSUME NEW d \in Conns, Accept(d) PROVE Calm
  BY <1>3, NamedTypes DEF Calm, Accept, Backlogged
<1>4. ASSUME AcceptFails PROVE Calm
  BY <1>1, <1>4 DEF AcceptFails, Die
<1>5. ASSUME NEW w \in Workers, WorkThread(w) PROVE Calm
  BY <1>1, <1>5 DEF WorkThread, TakeTask, SendCheck, SendQueue, Release
<1>6. UNCHANGED vars => Calm
  BY <1>1 DEF vars
<1>. QED
  BY <1>2, <1>3, <1>4, <1>5, <1>6, LoopFates DEF Next, MainThread

\* An entry of EventLoop::conns_ goes only with a sweep; one of TcpServer::conns_ goes
\* with its connection's close or with removeconn(), and stays out only after a close
\* that came too early to find it.
FateOk(c) ==
    /\ conn[c].stage >= InLoop /\ "swept" \notin fate[c] => loopConns[conn[c].fd] = c
    /\ conn[c].stage >= InServer /\ "early" \notin fate[c] /\ "removed" \notin fate[c]
         => (serverConns[conn[c].fd] = c <=> ~conn[c].disconnect)
    /\ conn[c].stage < InServer /\ conn[c].disconnect => "early" \in fate[c]

FateInv == \A c \in Conns : FateOk(c)

\* The steps of newconnection(): the entry that is written is not another one's.
LEMMA StoredFate ==
    ASSUME TypeOK, OwnInv, UniqueInv, FateInv, NEW d \in Conns, NewConnection(d)
    PROVE  FateInv'
<1>1. SUFFICES ASSUME NEW c \in Conns PROVE FateOk(c)'
  BY DEF FateInv
<1>2. /\ conn[c].stage \in Nat /\ conn[d].stage \in Nat /\ conn[c].disconnect \in BOOLEAN
      /\ serverConns \in [Fds -> Conns \cup {NoConn}] /\ loopConns \in [Fds -> Conns \cup {NoConn}]
  <2>1. conn[c].stage \in Nat /\ conn[d].stage \in Nat /\ conn[c].disconnect \in BOOLEAN
    BY NamedTypes DEF ConnType, Stages
  <2>. QED
    BY <2>1 DEF TypeOK
<1>3. conn[d].stage # 0 /\ Alive(d)
  BY DEF NewConnection, Alive, Registered
<1>4. /\ conn'[c].fd = conn[c].fd /\ conn'[c].disconnect = conn[c].disconnect
      /\ conn'[c].stage = IF c = d THEN conn[c].stage + 1 ELSE conn[c].stage
      /\ UNCHANGED fate
  BY NamedTypes DEF NewConnection, ConnType
<1>5. conn[c].stage # 0 => conn[c].fd \in Fds
  BY DEF OwnInv, ConnInv, ConnOk
<1>6. conn[d].fd \in Fds
  BY <1>3 DEF OwnInv, ConnInv, ConnOk
<1>7. ASSUME c # d, conn[c].fd = conn[d].fd PROVE ~Alive(c)
  BY <1>3, <1>7 DEF UniqueInv
<1>8. ASSUME conn'[c].stage >= InLoop, "swept" \notin fate[c] PROVE loopConns'[conn[c].fd] = c
  <2>1. CASE conn[c].stage >= InLoop
    <3>1. loopConns[conn[c].fd] = c /\ conn[c].fd \in Fds
      BY <1>5, <1>8, <2>1 DEF FateInv, FateOk, InLoop
    <3>2. Alive(c)
      BY <3>1 DEF Alive
    <3>3. conn[d].stage + 1 = InLoop => conn[c].fd # conn[d].fd
      BY <1>2, <1>7, <2>1, <3>2 DEF InLoop
    <3>. QED
      BY <1>2, <3>1, <3>3 DEF NewConnection
  <2>2. CASE ~(conn[c].stage >= InLoop)
    <3>1. c = d /\ conn[d].stage + 1 = InLoop
      BY <1>2, <1>4, <1>8, <2>2 DEF InLoop
    <3>. QED
      BY <1>2, <1>6, <3>1 DEF NewConnection
  <2>. QED
    BY <2>1, <2>2
<1>9. ASSUME conn'[c].stage >= InServer, "early" \notin fate[c], "removed" \notin fate[c]
      PROVE  serverConns'[conn[c].fd] = c <=> ~conn[c].disconnect
  <2>1. CASE conn[c].stage >= InServer
    <3>1. (serverConns[conn[c].fd] = c <=> ~conn[c].disconnect) /\ conn[c].fd \in Fds
      BY <1>5, <1>9, <2>1 DEF FateInv, FateOk, InServer
    <3>2. CASE conn[d].stage + 1 = InServer /\ conn[c].fd = conn[d].fd
      <4>1. serverConns'[conn[c].fd] = d /\ c # d
        BY <1>2, <1>6, <2>1, <3>2 DEF NewConnection, InServer
      <4>2. serverConns[conn[c].fd] # c
        BY <1>7, <3>1, <3>2, <4>1 DEF Alive
      <4>. QED
        BY <3>1, <4>1, <4>2
    <3>3. CASE ~(conn[d].stage + 1 = InServer /\ conn[c].fd = conn[d].fd)
      <4>1. serverConns'[conn[c].fd] = serverConns[conn[c].fd]
        BY <1>2, <3>1, <3>3 DEF NewConnection
      <4>. QED
        BY <3>1, <4>1
    <3>. QED
      BY <3>2, <3>3
  <2>2. CASE ~(conn[c].stage >= InServer)
    <3>1. c = d /\ conn[d].stage + 1 = InServer
      BY <1>2, <1>4, <1>9, <2>2 DEF InServer
    <3>2. ~conn[c].disconnect
      BY <1>2, <1>9, <2>2 DEF FateInv, FateOk, InServer
    <3>. QED
      BY <1>2, <1>6, <3>1, <3>2 DEF NewConnection
  <2>. QED
    BY <2>1, <2>2
<1>10. conn'[c].stage < InServer /\ conn'[c].disconnect => "early" \in fate'[c]
  <2>1. conn[c].stage < InServer /\ conn[c].disconnect => "early" \in fate[c]
    BY DEF FateInv, FateOk
  <2>2. conn'[c].stage < InServer => conn[c].stage < InServer
    BY <1>2, <1>4 DEF InServer
  <2>. QED
    BY <1>4, <2>1, <2>2
<1>. QED
  BY <1>4, <1>8, <1>9, <1>10 DEF FateOk

\* A close erases the entry of its own connection only.
LEMMA ClosedFate ==
    ASSUME TypeOK, OwnInv, UniqueInv, FateInv, NEW l, NEW d \in Conns, Closes(l, d), [Next]_vars
    PROVE  FateInv'
<1>1. SUFFICES ASSUME NEW c \in Conns PROVE FateOk(c)'
  BY DEF FateInv
<1>2. /\ conn[c].stage \in Nat /\ conn[d].stage \in Nat /\ conn[c].disconnect \in BOOLEAN
      /\ serverConns \in [Fds -> Conns \cup {NoConn}] /\ fate \in Fates /\ NoConn \notin Conns
  <2>1. conn[c].stage \in Nat /\ conn[d].stage \in Nat /\ conn[c].disconnect \in BOOLEAN
    BY NamedTypes DEF ConnType, Stages
  <2>. QED
    BY <2>1, ReactorAssumption DEF TypeOK, Fates
<1>3. /\ conn'[c].stage = conn[c].stage
      /\ conn'[c].disconnect = (c = d \/ conn[c].disconnect)
      /\ conn[c].stage # 0 => conn'[c].fd = conn[c].fd /\ conn[c].fd \in Fds
      /\ UNCHANGED loopConns
      /\ serverConns' = [serverConns EXCEPT ![conn[d].fd] = NoConn]
  BY StageGrows DEF Closes, OwnInv, ConnInv, ConnOk
<1>4. /\ fate'[c] = IF c = d /\ conn[d].stage < InServer THEN fate[c] \cup {"early"} ELSE fate[c]
  BY <1>2 DEF Closes, ClosedAt, Fates
<1>5. conn[c].stage >= InLoop /\ "swept" \notin fate'[c] => loopConns[conn[c].fd] = c
  BY <1>4 DEF FateInv, FateOk
<1>6. ASSUME conn[c].stage >= InServer, "early" \notin fate'[c], "removed" \notin fate'[c]
      PROVE  serverConns'[conn[c].fd] = c <=> ~conn'[c].disconnect
  <2>1. (serverConns[conn[c].fd] = c <=> ~conn[c].disconnect) /\ conn[c].fd \in Fds
    BY <1>3, <1>4, <1>6 DEF FateInv, FateOk, InServer
  <2>2. CASE conn[c].fd = conn[d].fd
    <3>1. serverConns'[conn[c].fd] = NoConn
      BY <1>2, <1>3, <2>1, <2>2
    <3>2. serverConns[conn[c].fd] = c => c = d
      BY <2>1, <2>2 DEF UniqueInv, Alive, Closes
    <3>. QED
      BY <1>2, <1>3, <2>1, <3>1, <3>2
  <2>3. CASE conn[c].fd # conn[d].fd
    <3>1. serverConns'[conn[c].fd] = serverConns[conn[c].fd] /\ c # d
      BY <1>2, <1>3, <2>1, <2>3
    <3>. QED
      BY <1>2, <1>3, <2>1, <3>1
  <2>. QED
    BY <2>2, <2>3
<1>7. conn[c].stage < InServer /\ conn'[c].disconnect => "early" \in fate'[c]
  BY <1>2, <1>3, <1>4 DEF FateInv, FateOk
<1>. QED
  BY <1>3, <1>5, <1>6, <1>7 DEF FateOk, InServer, InLoop

\* The two erasures of handletimer() mark what they take out.
LEMMA SweptFate ==
    ASSUME TypeOK, OwnInv, IterInv, FateInv, NEW l \in Loops, SweepIdle(l) \/ RemoveExpired(l)
    PROVE  FateInv'
<1>1. SUFFICES ASSUME NEW c \in Conns PROVE FateOk(c)'
  BY DEF FateInv
<1>2. /\ conn[c].stage \in Nat /\ conn[c].disconnect \in BOOLEAN
      /\ serverConns \in [Fds -> Conns \cup {NoConn}] /\ loopConns \in [Fds -> Conns \cup {NoConn}]
      /\ fate \in Fates /\ NoConn \notin Conns
  BY NamedTypes, ReactorAssumption DEF ConnType, Stages, TypeOK, Fates
<1>3. conn[c].stage # 0 => conn[c].fd \in Fds
  BY DEF OwnInv, ConnInv, ConnOk
<1>4. FateOk(c)
  BY DEF FateInv
<1>5. CASE SweepIdle(l)
  <2>1. PICK f, d : f = aa[l] /\ d = loopConns[f]
    OBVIOUS
  <2>2. /\ UNCHANGED <<conn, serverConns>> /\ loopConns' = [loopConns EXCEPT ![f] = NoConn]
        /\ fate' = [fate EXCEPT ![d] = @ \cup {"swept"}]
    BY <1>5, <2>1 DEF SweepIdle
  <2>3. fate'[c] = IF c = d THEN fate[c] \cup {"swept"} ELSE fate[c]
    BY <1>2, <2>2 DEF Fates
  <2>4. conn[c].stage # 0 /\ loopConns[conn[c].fd] = c
          => loopConns'[conn[c].fd] = c \/ c = d
    BY <1>2, <1>3, <2>1, <2>2
  <2>5. conn[c].stage >= InLoop /\ "swept" \notin fate'[c] => loopConns'[conn[c].fd] = c
    BY <1>4, <2>3, <2>4 DEF FateOk, InLoop
  <2>6. fate'[c] \ {"swept"} = fate[c] \ {"swept"}
    BY <2>3
  <2>7. /\ "early" \in fate'[c] <=> "early" \in fate[c]
        /\ "removed" \in fate'[c] <=> "removed" \in fate[c]
    BY <2>6
  <2>. QED
    BY <1>4, <2>2, <2>5, <2>7 DEF FateOk
<1>6. CASE RemoveExpired(l)
  <2>1. PICK fd : RemoveConn(fd) /\ UNCHANGED <<conn, loopConns>>
    BY <1>6 DEF RemoveExpired
  <2>2. /\ fate'[c] = IF \E f \in Fds : f = fd /\ serverConns[f] = c
                      THEN fate[c] \cup {"removed"} ELSE fate[c]
        /\ \A f \in Fds : serverConns'[f] = IF f = fd THEN NoConn ELSE serverConns[f]
    BY <2>1 DEF RemoveConn
  <2>3. /\ "swept" \in fate'[c] <=> "swept" \in fate[c]
        /\ "early" \in fate'[c] <=> "early" \in fate[c]
    BY <2>2
  <2>4. ASSUME conn[c].stage >= InServer, "early" \notin fate'[c], "removed" \notin fate'[c]
        PROVE  serverConns'[conn[c].fd] = c <=> ~conn[c].disconnect
    <3>1. (serverConns[conn[c].fd] = c <=> ~conn[c].disconnect) /\ conn[c].fd \in Fds
      BY <1>3, <1>4, <2>2, <2>4 DEF FateOk, InServer
    <3>2. serverConns'[conn[c].fd] = c <=> serverConns[conn[c].fd] = c
      BY <1>2, <2>2, <2>4, <3>1
    <3>. QED
      BY <3>1, <3>2
  <2>. QED
    BY <1>4, <2>1, <2>3, <2>4 DEF FateOk
<1>. QED
  BY <1>5, <1>6

\* Every step keeps it.
LEMMA FateKept ==
    ASSUME TypeOK, OwnInv, UniqueInv, IterInv, FateInv, [Next]_vars
    PROVE  FateInv'
<1>1. CASE Calm
  <2>1. SUFFICES ASSUME NEW c \in Conns PROVE FateOk(c)'
    BY DEF FateInv
  <2>2. CASE conn[c].stage # 0
    BY <1>1, <2>2, StageGrows DEF Calm, FateInv, FateOk, mapVars
  <2>3. CASE conn[c].stage = 0
    <3>1. conn'[c].stage \in {0, 1}
      BY <2>3, StageGrows
    <3>2. ~conn'[c].disconnect
      BY <3>1, OwnKept DEF OwnInv, ConnInv, ConnOk, CloseCb
    <3>. QED
      BY <3>1, <3>2 DEF FateOk, InServer, InLoop
  <2>. QED
    BY <2>2, <2>3
<1>. QED
  BY <1>1, MapFates, StoredFate, ClosedFate, SweptFate

\* FateInv holds in every state.
LEMMA FateHolds == Spec => []FateInv
<1>1. Init => FateInv /\ IterInv
  BY DEF Init, FateInv, FateOk, InServer, InLoop, IterInv, Sweeping
<1>2. TypeOK /\ IterInv /\ [Next]_vars => IterInv'
  BY IterKept
<1>3. TypeOK /\ OwnInv /\ UniqueInv /\ IterInv /\ FateInv /\ [Next]_vars => FateInv'
  BY FateKept
<1>. QED
  BY <1>1, <1>2, <1>3, TypesHold, OwnHolds, UniqueHolds, PTL DEF Spec

\* After its construction a Connection is destroyed only once the timer's sweep has
\* taken it out of EventLoop::conns_.
LEMMA KeptAlive ==
    ASSUME TypeOK, OwnInv, FateInv, NEW c \in Conns, conn[c].stage # 0
    PROVE  Alive(c) \/ "swept" \in fate[c]
<1>1. conn[c].stage \in 1..Published /\ conn[c].fd \in Fds
  BY NamedTypes DEF ConnType, Stages, Published, OwnInv, ConnInv, ConnOk
<1>2. CASE conn[c].stage \in Registered..InLoop
  BY <1>2 DEF Alive
<1>3. CASE conn[c].stage \notin Registered..InLoop
  <2>1. conn[c].stage >= InLoop
    BY <1>1, <1>3 DEF Registered, InLoop
  <2>. QED
    BY <1>1, <2>1 DEF FateInv, FateOk, Alive
<1>. QED
  BY <1>2, <1>3

\* Whatever closes, and whoever lets go of a connection meanwhile: the Channels of a batch
\* and the `this' of a queued sendinloop() can dangle only after the timer's sweep.
THEOREM RawPointersSafeHolds == Spec => []RawPointersSafe
<1>1. ASSUME TypeOK, OwnInv, BatchInv, FateInv PROVE RawPointersSafe
  <2>1. ASSUME NEW l \in Loops, NEW e \in channels[l], e[1] \in Conns
        PROVE  Alive(e[1]) \/ "swept" \in fate[e[1]]
    BY <1>1, <2>1, KeptAlive DEF BatchInv
  <2>2. ASSUME NEW l \in Loops, NEW i \in DOMAIN taskqueue_[l], NEW c \in Conns,
               taskqueue_[l][i].c = c
        PROVE  Alive(c) \/ "swept" \in fate[c]
    <3>1. i \in 1..Len(taskqueue_[l])
      BY <1>1, LenProperties DEF TypeOK
    <3>2. conn[c].stage # 0
      BY <1>1, <2>2, <3>1 DEF OwnInv, TaskInv, Ready, MessageCb
    <3>. QED
      BY <1>1, <3>2, KeptAlive
  <2>. QED
    BY <2>1, <2>2 DEF RawPointersSafe
<1>. QED
  BY <1>1, TypesHold, OwnHolds, BatchHolds, FateHolds, PTL

\* TcpServer::conns_ is exact except after a close that came before newconnection() had
\* stored its connection, and for connections whose key the sweep handed to removeconn().
THEOREM ServerMapExactHolds == Spec => []ServerMapExact
<1>1. FateInv => ServerMapExact
  BY DEF FateInv, FateOk, ServerMapExact, Published, InServer
<1>. QED
  BY <1>1, FateHolds, PTL

\* What FailuresExplained says of a process that has died in the way s.
Why(s) ==
    /\ s = "exit" => \/ AcceptMayFail /\ ThreadNum = 1 /\ \E c \in Conns : Backlogged(c)
                     \/ \E c \in Conns : NextToSend(c) /\ conn[c].disconnect
                     \/ \E c \in Conns : InBatch(c) /\ conn[c].stage = Registered
    /\ s = "terminate" => \E c \in Conns : InBatch(c) /\ conn[c].stage \in Registered..MessageCb
    /\ s = "bad free" => Workers = {}
    /\ s = "bad index" => AcceptMayFail /\ ThreadNum > 1 /\ \E c \in Conns : Backlogged(c)
    /\ s = "use after free" =>
         \E c \in Conns : ~Alive(c) /\ "swept" \in fate[c] /\ (InBatch(c) \/ NextToSend(c))

\* A step of a connection's channel that ends the process finds the connection still in
\* newconnection(), except without workers: the channel of a batch is registered.
LEMMA ChannelFailure ==
    ASSUME TypeOK, OwnInv, BatchInv, NEW l \in Loops, NEW c \in Conns,
           ReadClose(l, c) \/ ReadMessages(l, c) \/ Write(l, c) \/ Error(l, c)
    PROVE  status' = "running" \/ (Dead /\ Why(status'))
<1>1. conn[c].stage \in Nat /\ conn[c].registered \in BOOLEAN /\ conn[c].disconnect \in BOOLEAN
  BY NamedTypes DEF ConnType, Stages
<1>2. PICK e : Running /\ Branch(l, c, e)
  BY DEF ReadClose, ReadMessages, Write, Error
<1>3. conn[c].stage # 0 /\ ~conn[c].disconnect /\ InBatch(c)
  BY <1>2 DEF Branch, BatchInv, InBatch
<1>4. conn[c].registered
  BY <1>1, <1>3 DEF OwnInv, ConnInv, ConnOk
<1>5. ASSUME conn[c].stage # Registered PROVE ~UpdateFails(c)
  <2>1. (conn[c].stage >= InEpoll) = TRUE
    BY <1>1, <1>3, <1>5 DEF InEpoll, Registered
  <2>2. conn[c].registered = TRUE
    BY <1>1, <1>4
  <2>. QED
    BY <2>1, <2>2, Zenon DEF UpdateFails
<1>6. ASSUME NEW s, Die(s), s = "exit" => conn[c].stage = Registered,
             s = "terminate" => conn[c].stage < CompleteCb,
             s = "bad free" => Workers = {}, s \notin {"bad index", "use after free"}
      PROVE  Dead /\ Why(status')
  <2>1. s = "terminate" => conn[c].stage \in Registered..MessageCb
    BY <1>1, <1>3, <1>6 DEF Registered, MessageCb, CompleteCb
  <2>. QED
    BY <1>3, <1>6, <2>1 DEF Die, Dead, Why
<1>7. ASSUME ReadClose(l, c) \/ Error(l, c), status' # "running" PROVE Dead /\ Why(status')
  <2>1. PICK cb \in {CloseCb, ErrorCb} : Die(CloseFailure(c, cb))
    BY <1>2, <1>7 DEF ReadClose, Error, CloseConnection, Running
  <2>2. PICK s : s = CloseFailure(c, cb) /\ Die(s)
    BY <2>1
  <2>3. /\ s \in {"exit", "terminate", "none"}
        /\ s = "exit" => conn[c].stage = Registered
        /\ s = "terminate" => conn[c].stage < CompleteCb
    BY <1>1, <1>5, <2>2 DEF CloseFailure, CloseCb, ErrorCb, CompleteCb
  <2>. QED
    BY <1>6, <2>2, <2>3
<1>8. ASSUME ReadMessages(l, c), status' # "running" PROVE Dead /\ Why(status')
  <2>1. PICK s : s = DeliverFailure(c) /\ Die(s)
    BY <1>2, <1>8 DEF ReadMessages, Running
  <2>2. /\ s \in {"terminate", "bad free", "none"}
        /\ s = "bad free" => Workers = {}
        /\ s = "terminate" => conn[c].stage < CompleteCb
    <3>1. CASE conn[c].stage < MessageCb
      <4>1. s = "terminate" /\ conn[c].stage < CompleteCb
        BY <1>1, <2>1, <3>1 DEF DeliverFailure, MessageCb, CompleteCb
      <4>. QED
        BY <4>1
    <3>2. CASE ~(conn[c].stage < MessageCb)
      BY <2>1, <3>2 DEF DeliverFailure
    <3>. QED
      BY <3>1, <3>2
  <2>. QED
    BY <1>6, <2>1, <2>2
<1>9. ASSUME Write(l, c), status' # "running" PROVE Dead /\ Why(status')
  <2>1. PICK n : [conn[c] EXCEPT !.output = Erased(@, n)].stage < CompleteCb /\ Die("terminate")
    BY <1>2, <1>9 DEF Write, Running
  <2>2. PICK q, k : k = [conn[c] EXCEPT !.output = q] /\ k.stage < CompleteCb
    BY <2>1
  <2>3. conn[c].stage < CompleteCb
    BY <2>2, NamedTypes DEF ConnType
  <2>. QED
    BY <1>6, <2>1, <2>3
<1>. QED
  BY <1>7, <1>8, <1>9

\* A queued sendinloop() fails on a closed connection, or on one that was swept away.
LEMMA SendFailure ==
    ASSUME TypeOK, OwnInv, RawPointersSafe, NEW l \in Loops, SendInLoop(l)
    PROVE  status' = "running" \/ (Dead /\ Why(status'))
<1>1. PICK q \in Seq(Tasks) : q = taskqueue_[l] /\ q # <<>>
  BY DEF TypeOK, SendInLoop
<1>2. PICK task \in Tasks : task = Head(q) /\ task = q[1] /\ 1 \in 1..Len(q)
  BY <1>1, HeadTailProperties, PoppedTasks
<1>3. PICK c \in Conns : c = task.c
  BY DEF Tasks
<1>4. conn[c].stage \in Nat /\ conn[c].registered \in BOOLEAN /\ conn[c].disconnect \in BOOLEAN
  BY NamedTypes DEF ConnType, Stages
<1>5. conn[c].stage >= MessageCb /\ NextToSend(c)
  BY <1>1, <1>2, <1>3 DEF OwnInv, TaskInv, Ready, NextToSend, SendInLoop
<1>6. UpdateFails(c) => conn[c].disconnect
  <2>1. conn[c].registered <=> ~conn[c].disconnect
    BY <1>4, <1>5 DEF OwnInv, ConnInv, ConnOk, MessageCb
  <2>. QED
    BY <1>4, <1>5, <2>1 DEF UpdateFails, InEpoll, MessageCb
<1>7. Alive(c) \/ "swept" \in fate[c]
  <2>1. 1 \in DOMAIN taskqueue_[l] /\ taskqueue_[l][1].c = c
    BY <1>1, <1>2, <1>3
  <2>. QED
    BY <2>1 DEF RawPointersSafe
<1>8. \/ ~Alive(c) /\ Die("use after free")
      \/ UpdateFails(c) /\ Die("exit")
      \/ status' = "running"
  BY <1>1, <1>2, <1>3 DEF SendInLoop, Running
<1>. QED
  BY <1>5, <1>6, <1>7, <1>8 DEF Die, Dead, Why

\* Every step leaves the process running or ends it for one of the reasons.
LEMMA FailureBy ==
    ASSUME TypeOK, OwnInv, BatchInv, RawPointersSafe, Next
    PROVE  status' = "running" \/ (Dead /\ Why(status'))
<1>1. CASE Running /\ UNCHANGED status
  BY <1>1 DEF Running
<1>2. ASSUME AcceptFails PROVE Dead /\ Why(status')
  <2>1. PICK s : Die(s) /\ s = IF ThreadNum = 1 THEN "exit" ELSE "bad index"
    BY <1>2 DEF AcceptFails
  <2>2. ThreadNum = 1 \/ ThreadNum > 1
    BY ReactorAssumption
  <2>3. /\ s = "exit" => ThreadNum = 1
        /\ s = "bad index" => ThreadNum > 1
        /\ s \notin {"terminate", "bad free", "use after free"}
    BY <2>1, <2>2
  <2>4. AcceptMayFail /\ \E c \in Conns : Backlogged(c)
    BY <1>2 DEF AcceptFails
  <2>. QED
    BY <2>1, <2>3, <2>4 DEF Die, Dead, Why
<1>3. ASSUME NEW l \in Loops, DispatchDangling(l) PROVE Dead /\ Why(status')
  <2>1. PICK e \in channels[l] : e[1] \in Conns /\ ~Alive(e[1])
    BY <1>3 DEF DispatchDangling
  <2>2. PICK c \in Conns : c = e[1]
    BY <2>1
  <2>3. InBatch(c) /\ "swept" \in fate[c]
    BY <1>3, <2>1, <2>2 DEF DispatchDangling, InBatch, RawPointersSafe
  <2>. QED
    BY <1>3, <2>1, <2>2, <2>3 DEF DispatchDangling, Die, Dead, Why
<1>4. ASSUME NEW l \in Loops, IOThread(l) PROVE status' = "running" \/ (Dead /\ Why(status'))
  <2>1. CASE \/ Poll(l) \/ EndOfBatch(l) \/ HandleWakeup(l) \/ EndOfDrain(l) \/ HandleTimer(l)
             \/ Sweep(l)
    BY <1>1, <2>1 DEF Poll, EndOfBatch, HandleWakeup, EndOfDrain, HandleTimer, Sweep, SweepNext,
         SweepIdle, RemoveExpired, SweepOn, SpinEnds
  <2>. QED
    BY <1>3, <1>4, <2>1, ChannelFailure, SendFailure DEF IOThread
<1>5. CASE MainThread
  BY <1>1, <1>2, <1>5 DEF MainThread, Accept, NewConnection
<1>6. CASE Environment
  BY <1>1, <1>6 DEF Environment, Connect, Ask, Leave, GoIdle, TimerExpires
<1>7. ASSUME NEW w \in Workers, WorkThread(w) PROVE Running /\ UNCHANGED status
  BY <1>7 DEF WorkThread, TakeTask, SendCheck, SendQueue, Release
<1>. QED
  BY <1>1, <1>4, <1>5, <1>6, <1>7 DEF Next

\* The server ends by itself for no other reason than those FailuresExplained lists,
\* whatever clients, clock and threads do: no channel is closed or updated after its
\* removal, and no close leaves a pointer behind.
THEOREM FailuresExplainedHolds == Spec => []FailuresExplained
<1>1. Init => FailuresExplained
  BY DEF Init, FailuresExplained
<1>2. ASSUME TypeOK, OwnInv, BatchInv, RawPointersSafe, FailuresExplained, [Next]_vars
      PROVE  FailuresExplained'
  <2>1. CASE status' = "running"
    BY <2>1 DEF FailuresExplained
  <2>2. ASSUME Dead, Why(status') PROVE FailuresExplained'
    <3>1. \A c \in Conns : /\ Backlogged(c)' = Backlogged(c) /\ InBatch(c)' = InBatch(c)
                           /\ NextToSend(c)' = NextToSend(c) /\ Alive(c)' = Alive(c)
      BY <2>2 DEF Dead, Backlogged, InBatch, NextToSend, Alive, mapVars, workVars, loopVars
    <3>2. UNCHANGED <<conn, fate>>
      BY <2>2 DEF Dead, mapVars
    <3>. QED
      BY <2>2, <3>1, <3>2 DEF FailuresExplained, Why
  <2>3. CASE UNCHANGED vars
    <3>1. Dead /\ UNCHANGED status
      BY <2>3 DEF vars, Dead
    <3>2. Why(status')
      BY <1>2, <3>1 DEF FailuresExplained, Why
    <3>. QED
      BY <2>2, <3>1, <3>2
  <2>. QED
    BY <1>2, <2>1, <2>2, <2>3, FailureBy
<1>. QED
  BY <1>1, <1>2, TypesHold, OwnHolds, BatchHolds, RawPointersSafeHolds, PTL DEF Spec

-----------------------------------------------------------------------------
\* The way of a request.

\* A worker that has not yet answered request m of c.
HasRequest(r, c, m) == r.at \in {"check", "queue"} /\ r.c = c /\ r.m = m

Hands(wk, c, m) == Cardinality({w \in Workers : HasRequest(wk[w], c, m)})

\* The number of places, from what is in them.
Tally(n, k, p, wk, q, c, m) ==
    Count(n.rcv, m) + Count(k.input, m) + Count(p, [c |-> c, m |-> m]) + Hands(wk, c, m)
      + Count(q, [c |-> c, m |-> m]) + Count(k.output, m) + Count(n.got, m)

\* What a worker does changes nothing in the hands of the others.
LEMMA HandsOf ==
    ASSUME NEW w \in Workers, NEW c, NEW m
    PROVE  \A wk : LET rest == {v \in Workers \ {w} : HasRequest(wk[v], c, m)} IN
             /\ Cardinality(rest) \in Nat
             /\ Hands(wk, c, m) = Cardinality(rest) + IF HasRequest(wk[w], c, m) THEN 1 ELSE 0
<1>1. SUFFICES ASSUME NEW wk
               PROVE  LET rest == {v \in Workers \ {w} : HasRequest(wk[v], c, m)} IN
                      /\ Cardinality(rest) \in Nat
                      /\ Hands(wk, c, m)
                           = Cardinality(rest) + IF HasRequest(wk[w], c, m) THEN 1 ELSE 0
  OBVIOUS
<1>2. PICK rest : rest = {v \in Workers \ {w} : HasRequest(wk[v], c, m)}
  OBVIOUS
<1>3. PICK all : all = {v \in Workers : HasRequest(wk[v], c, m)}
  OBVIOUS
<1>4. IsFiniteSet(rest) /\ Cardinality(rest) \in Nat
  <2>1. IsFiniteSet(Workers) /\ rest \in SUBSET Workers
    BY <1>2, ReactorAssumption
  <2>2. IsFiniteSet(rest)
    BY <2>1, FS_Subset
  <2>. QED
    BY <2>2, FS_CardinalityType
<1>5. CASE HasRequest(wk[w], c, m)
  <2>1. all = rest \cup {w} /\ w \notin rest
    BY <1>2, <1>3, <1>5
  <2>2. Cardinality(rest \cup {w}) = Cardinality(rest) + 1
    BY <1>4, <2>1, FS_AddElement
  <2>. QED
    BY <1>2, <1>3, <1>4, <1>5, <2>1, <2>2 DEF Hands
<1>6. CASE ~HasRequest(wk[w], c, m)
  <2>1. all = rest
    BY <1>2, <1>3, <1>6
  <2>. QED
    BY <1>2, <1>3, <1>4, <1>6, <2>1 DEF Hands
<1>. QED
  BY <1>5, <1>6

\* Each request becomes one task of its connection.
LEMMA CountHanded ==
    ASSUME TypeOK, NEW d \in Conns, NEW msgs \in Seq(Requests), NEW c \in Conns, NEW m \in Requests
    PROVE  Count(HandleMessages(d, msgs), [c |-> c, m |-> m])
             = Count(pool, [c |-> c, m |-> m]) + IF d = c THEN Count(msgs, m) ELSE 0
<1>1. PICK q, task : q = [i \in DOMAIN msgs |-> [c |-> d, m |-> msgs[i]]] /\ task = [c |-> c, m |-> m]
  OBVIOUS
<1>2. PICK n \in Nat : n = Len(msgs) /\ DOMAIN msgs = 1..n
  BY LenProperties
<1>3. q \in Seq(Tasks) /\ Len(q) = n
  <2>1. \A i \in 1..n : [c |-> d, m |-> msgs[i]] \in Tasks
    BY <1>2, ElementOfSeq DEF Tasks
  <2>2. q \in Seq(Tasks)
    BY <1>1, <1>2, <2>1, IsASeq
  <2>. QED
    BY <1>1, <1>2, <2>2, LenProperties
<1>4. \A i \in 1..n : q[i] = task <=> d = c /\ msgs[i] = m
  <2>1. SUFFICES ASSUME NEW i \in 1..n PROVE q[i] = task <=> d = c /\ msgs[i] = m
    OBVIOUS
  <2>2. PICK x : x = msgs[i]
    OBVIOUS
  <2>3. q[i] = [c |-> d, m |-> x]
    BY <1>1, <1>2, <2>2
  <2>4. [c |-> d, m |-> x] = [c |-> c, m |-> m] <=> d = c /\ x = m
    OBVIOUS
  <2>. QED
    BY <1>1, <2>2, <2>3, <2>4
<1>5. Count(q, task) = IF d = c THEN Count(msgs, m) ELSE 0
  <2>1. CASE d = c
    <3>1. Count(q, task) = Cardinality({i \in 1..n : q[i] = task})
      BY <1>3, CountType
    <3>2. Count(msgs, m) = Cardinality({i \in 1..n : msgs[i] = m})
      BY <1>2, CountType
    <3>3. {i \in 1..n : q[i] = task} = {i \in 1..n : msgs[i] = m}
      BY <1>4, <2>1
    <3>. QED
      BY <2>1, <3>1, <3>2, <3>3
  <2>2. CASE d # c
    <3>1. \A i \in 1..Len(q) : q[i] # task
      BY <1>3, <1>4, <2>2
    <3>. QED
      BY <1>3, <2>2, <3>1, CountNone
  <2>. QED
    BY <2>1, <2>2
<1>6. Count(pool \o q, task) = Count(pool, task) + Count(q, task)
  <2>1. PICK p \in Seq(Tasks) : p = pool
    BY DEF TypeOK
  <2>2. Count(p \o q, task) = Count(p, task) + Count(q, task)
    BY <1>3, CountChanges
  <2>. QED
    BY <2>1, <2>2
<1>. QED
  BY <1>1, <1>5, <1>6 DEF HandleMessages

\* The places of a request before and after a step.
LEMMA PlacesAre ==
    ASSUME NEW c \in Conns, NEW m \in Requests
    PROVE  /\ Places(c, m) = Tally(net[c], conn[c], pool, worker, taskqueue_[LoopOf(c)], c, m)
           /\ Places(c, m)' = Tally(net'[c], conn'[c], pool', worker', taskqueue_'[LoopOf(c)'], c, m)
BY DEF Places, Tally, Hands, HasRequest

\* All places can be counted.
LEMMA TallyType ==
    ASSUME TypeOK, NEW c \in Conns, NEW m \in Requests
    PROVE  LET task == [c |-> c, m |-> m] IN
           /\ Count(net[c].rcv, m) \in Nat /\ Count(conn[c].input, m) \in Nat
           /\ Count(pool, task) \in Nat /\ Hands(worker, c, m) \in Nat
           /\ \A l \in Loops : Count(taskqueue_[l], task) \in Nat
           /\ Count(conn[c].output, m) \in Nat /\ Count(net[c].got, m) \in Nat
<1>1. /\ net[c].rcv \in Seq(Requests) /\ net[c].got \in Seq(Requests)
      /\ conn[c].input \in Seq(Requests) /\ conn[c].output \in Seq(Requests)
  BY NamedTypes DEF NetType, ConnType
<1>2. pool \in Seq(Tasks) /\ taskqueue_ \in [Loops -> Seq(Tasks)]
  BY DEF TypeOK
<1>3. Hands(worker, c, m) \in Nat
  <2>1. PICK S : S = {w \in Workers : HasRequest(worker[w], c, m)}
    OBVIOUS
  <2>2. IsFiniteSet(Workers) /\ S \in SUBSET Workers
    BY <2>1, ReactorAssumption
  <2>3. IsFiniteSet(S)
    BY <2>2, FS_Subset
  <2>. QED
    BY <2>1, <2>3, FS_CardinalityType DEF Hands
<1>4. PICK task : task = [c |-> c, m |-> m]
  OBVIOUS
<1>5. /\ Count(net[c].rcv, m) \in Nat /\ Count(conn[c].input, m) \in Nat
      /\ Count(conn[c].output, m) \in Nat /\ Count(net[c].got, m) \in Nat
  BY <1>1, CountType
<1>6. Count(pool, task) \in Nat /\ \A l \in Loops : Count(taskqueue_[l], task) \in Nat
  BY <1>2, CountType
<1>. QED
  BY <1>3, <1>4, <1>5, <1>6

\* Each descriptor has a loop.
LEMMA LoopOfFd == \A f \in Fds \cup {0} : f % ThreadNum \in Loops
<1>1. SUFFICES ASSUME NEW f \in Fds \cup {0} PROVE f % ThreadNum \in Loops
  OBVIOUS
<1>2. f \in Nat /\ ThreadNum \in Nat /\ ThreadNum > 0
  BY FdsAre, ReactorAssumption
<1>3. f % ThreadNum \in 0..(ThreadNum - 1)
  BY <1>2
<1>. QED
  BY <1>3 DEF Loops

\* Each connection has a loop.
LEMMA LoopOfType ==
    ASSUME TypeOK, NEW c \in Conns
    PROVE  LoopOf(c) \in Loops
<1>1. conn[c].fd \in Fds \cup {0}
  BY NamedTypes DEF ConnType
<1>. QED
  BY <1>1, LoopOfFd DEF LoopOf

\* The places of a request are counted by a number.
LEMMA PlacesType ==
    ASSUME TypeOK, NEW c \in Conns, NEW m \in Requests
    PROVE  Places(c, m) \in Nat
<1>1. PICK n, a, b, d, e, f, g : /\ n = Count(net[c].rcv, m) /\ a = Count(conn[c].input, m)
                                 /\ b = Count(pool, [c |-> c, m |-> m])
                                 /\ d = Hands(worker, c, m)
                                 /\ e = Count(taskqueue_[LoopOf(c)], [c |-> c, m |-> m])
                                 /\ f = Count(conn[c].output, m) /\ g = Count(net[c].got, m)
  OBVIOUS
<1>2. /\ n \in Nat /\ a \in Nat /\ b \in Nat /\ d \in Nat /\ e \in Nat /\ f \in Nat /\ g \in Nat
  BY <1>1, LoopOfType, TallyType
<1>3. n + a + b + d + e + f + g \in Nat
  BY <1>2
<1>. QED
  BY <1>1, <1>3, PlacesAre DEF Tally

\* No place of c's requests is touched.
LEMMA PlacesSame ==
    ASSUME NEW c \in Conns, NEW m \in Requests,
           net'[c].rcv = net[c].rcv, net'[c].got = net[c].got, conn'[c].fd = conn[c].fd,
           conn'[c].input = conn[c].input, conn'[c].output = conn[c].output,
           UNCHANGED <<pool, worker, taskqueue_>>
    PROVE  Places(c, m)' = Places(c, m)
<1>1. LoopOf(c)' = LoopOf(c)
  BY DEF LoopOf
<1>. QED
  BY <1>1, PlacesAre, ZenonT(60) DEF Tally

\* Only the client asks.
LEMMA AskedBy ==
    ASSUME TypeOK, [Next]_vars, NEW c \in Conns
    PROVE  net'[c].asked = net[c].asked + IF Ask(c) THEN 1 ELSE 0
<1>1. net \in [Conns -> NetType] /\ net[c].asked \in Nat
  BY NamedTypes, ReactorAssumption DEF NetType
<1>2. SUFFICES /\ Ask(c) => net'[c].asked = net[c].asked + 1
               /\ ~Ask(c) => net'[c].asked = net[c].asked
  BY <1>1
<1>3. ASSUME NEW d \in Conns, Ask(d)
      PROVE  net'[c].asked = IF d = c THEN net[c].asked + 1 ELSE net[c].asked
  BY <1>1, <1>3 DEF Ask, NetType
<1>4. CASE UNCHANGED net
  <2>1. ~Ask(c)
    BY <1>1, <1>3, <1>4
  <2>. QED
    BY <1>4, <2>1
<1>5. CASE net'[c].asked = net[c].asked
  BY <1>1, <1>3, <1>5
<1>6. ASSUME NEW l \in Loops, IOThread(l) PROVE net'[c].asked = net[c].asked
  <2>1. CASE Dead
    BY <2>1 DEF Dead
  <2>2. ASSUME NEW d \in Conns, net' = [net EXCEPT ![d].rcv = <<>>]
        PROVE  net'[c].asked = net[c].asked
    BY <1>1, <2>2 DEF NetType
  <2>3. ASSUME NEW d \in Conns, NEW q, net' = [net EXCEPT ![d].got = q]
        PROVE  net'[c].asked = net[c].asked
    BY <1>1, <2>3 DEF NetType
  <2>4. ASSUME NEW d \in Conns, NEW cb, NEW input, CloseConnection(l, d, cb, input)
        PROVE  net'[c].asked = net[c].asked
    BY <2>1, <2>2, <2>4, CloseEffect
  <2>5. ASSUME NEW d \in Conns, ReadMessages(l, d) PROVE net'[c].asked = net[c].asked
    BY <2>1, <2>2, <2>5, ReadEffect
  <2>6. ASSUME NEW d \in Conns, Write(l, d) PROVE net'[c].asked = net[c].asked
    <3>1. SUFFICES ASSUME ~Dead PROVE net'[c].asked = net[c].asked
      BY <2>1
    <3>2. PICK n \in 0..Len(conn[d].output) :
            net' = [net EXCEPT ![d].got = @ \o SubSeq(conn[d].output, 1, n)]
      BY <2>6, <3>1, WriteEffect
    <3>. QED
      BY <2>3, <3>2
  <2>7. CASE SendInLoop(l)
    BY <2>1, <2>7, SendEffect
  <2>8. CASE \/ Poll(l) \/ EndOfBatch(l) \/ DispatchDangling(l) \/ HandleWakeup(l) \/ EndOfDrain(l)
             \/ HandleTimer(l) \/ Sweep(l)
    BY <2>8 DEF Poll, EndOfBatch, DispatchDangling, Die, HandleWakeup, EndOfDrain,
         HandleTimer, Sweep, SweepNext, SweepIdle, RemoveExpired, SweepOn, SpinEnds
  <2>. QED
    BY <1>6, <2>4, <2>5, <2>6, <2>7, <2>8 DEF IOThread, ReadClose, Error
<1>7. ASSUME NEW d \in Conns, Connect(d) \/ Leave(d) PROVE net'[c].asked = net[c].asked
  <2>1. PICK how : net' = [net EXCEPT ![d].peer = how]
    BY <1>7 DEF Connect, Leave
  <2>. QED
    BY <1>1, <2>1 DEF NetType
<1>8. CASE Environment
  <2>1. ASSUME NEW d \in Conns, GoIdle(d) PROVE UNCHANGED net
    BY <2>1 DEF GoIdle
  <2>2. ASSUME NEW l \in Loops, TimerExpires(l) PROVE UNCHANGED net
    BY <2>2 DEF TimerExpires
  <2>3. CASE \E d \in Conns : Ask(d)
    <3>1. PICK d \in Conns : Ask(d)
      BY <2>3
    <3>2. CASE d = c
      BY <1>3, <3>1, <3>2
    <3>3. CASE d # c
      BY <1>5, <1>3, <3>1, <3>3
    <3>. QED
      BY <3>2, <3>3
  <2>. QED
    BY <1>4, <1>5, <1>7, <1>8, <2>1, <2>2, <2>3 DEF Environment
<1>9. CASE MainThread
  BY <1>4, <1>9 DEF MainThread, Accept, AcceptFails, Die, NewConnection
<1>10. ASSUME NEW w \in Workers, WorkThread(w) PROVE UNCHANGED net
  BY <1>10 DEF WorkThread, TakeTask, SendCheck, SendQueue, Release
<1>11. CASE UNCHANGED vars
  BY <1>4, <1>11 DEF vars
<1>. QED
  BY <1>4, <1>5, <1>6, <1>8, <1>9, <1>10, <1>11 DEF Next

\* What clients and clock do to the way of a request: it begins with Ask().
LEMMA EnvPlaces ==
    ASSUME TypeOK, Environment, NEW c \in Conns, NEW m \in Requests
    PROVE  Places(c, m)' = Places(c, m) + IF Ask(c) /\ m = net[c].asked + 1 THEN 1 ELSE 0
<1>1. /\ conn \in [Conns -> ConnType] /\ net \in [Conns -> NetType] /\ net[c].asked \in Nat
      /\ net[c].rcv \in Seq(Requests)
  BY NamedTypes, ReactorAssumption DEF NetType
<1>2. Places(c, m) \in Nat
  BY PlacesType
<1>3. ASSUME NEW d \in Conns, Ask(d)
      PROVE  /\ UNCHANGED <<conn, pool, worker, taskqueue_>>
             /\ net'[c].got = net[c].got
             /\ net'[c].rcv = IF d = c THEN Append(net[c].rcv, net[c].asked + 1) ELSE net[c].rcv
             /\ net'[c].asked = IF d = c THEN net[c].asked + 1 ELSE net[c].asked
  BY <1>1, <1>3 DEF Ask, NetType, workVars, loopVars
<1>4. ASSUME Ask(c)
      PROVE  Places(c, m)' = Places(c, m) + IF m = net[c].asked + 1 THEN 1 ELSE 0
  <2>1. PICK y \in Requests : y = net[c].asked + 1
    <3>1. net[c].asked < MaxRequests
      BY <1>1, <1>4, AskedBound DEF Ask
    <3>. QED
      BY <1>1, <3>1, ReactorAssumption DEF Requests
  <2>2. Count(net'[c].rcv, m) = Count(net[c].rcv, m) + IF y = m THEN 1 ELSE 0
    <3>1. net'[c].rcv = Append(net[c].rcv, y)
      BY <1>3, <1>4, <2>1
    <3>. QED
      BY <1>1, <2>1, <3>1, CountChanges
  <2>3. UNCHANGED <<conn, pool, worker, taskqueue_>> /\ net'[c].got = net[c].got
    BY <1>3, <1>4
  <2>4. LoopOf(c)' = LoopOf(c)
    BY <2>3 DEF LoopOf
  <2>5. PICK rest \in Nat : /\ Places(c, m) = Count(net[c].rcv, m) + rest
                            /\ Places(c, m)' = Count(net'[c].rcv, m) + rest
    <3>1. PICK a, b, d, e, f, g : /\ a = Count(conn[c].input, m)
                                  /\ b = Count(pool, [c |-> c, m |-> m])
                                  /\ d = Hands(worker, c, m)
                                  /\ e = Count(taskqueue_[LoopOf(c)], [c |-> c, m |-> m])
                                  /\ f = Count(conn[c].output, m) /\ g = Count(net[c].got, m)
      OBVIOUS
    <3>2. /\ a \in Nat /\ b \in Nat /\ d \in Nat /\ e \in Nat /\ f \in Nat /\ g \in Nat
          /\ Count(net[c].rcv, m) \in Nat
      BY <3>1, LoopOfType, TallyType
    <3>3. /\ Places(c, m) = Count(net[c].rcv, m) + a + b + d + e + f + g
          /\ Places(c, m)' = Count(net'[c].rcv, m) + a + b + d + e + f + g
      BY <2>3, <2>4, <3>1, PlacesAre DEF Tally
    <3>4. PICK n \in Nat, k \in Nat : n = Count(net[c].rcv, m) /\ k = Count(net'[c].rcv, m)
      BY <2>2, <3>2
    <3>5. PICK rest \in Nat : rest = a + b + d + e + f + g
      BY <3>2
    <3>6. /\ n + a + b + d + e + f + g = n + rest
          /\ k + a + b + d + e + f + g = k + rest
      BY <3>2, <3>5
    <3>. QED
      BY <3>3, <3>4, <3>5, <3>6
  <2>6. Count(net[c].rcv, m) \in Nat
    BY TallyType
  <2>. QED
    BY <2>1, <2>2, <2>5, <2>6
<1>5. ASSUME ~Ask(c) PROVE Places(c, m)' = Places(c, m)
  <2>1. ASSUME NEW d \in Conns, Ask(d) PROVE Places(c, m)' = Places(c, m)
    <3>1. d # c
      BY <1>5, <2>1
    <3>. QED
      BY <1>3, <2>1, <3>1, PlacesSame
  <2>2. ASSUME NEW d \in Conns, Connect(d) \/ Leave(d) PROVE Places(c, m)' = Places(c, m)
    <3>1. UNCHANGED <<conn, pool, worker, taskqueue_>>
      BY <2>2 DEF Connect, Leave, workVars, loopVars
    <3>2. PICK how : net' = [net EXCEPT ![d].peer = how]
      BY <2>2 DEF Connect, Leave
    <3>3. net'[c].rcv = net[c].rcv /\ net'[c].got = net[c].got
      BY <1>1, <3>2 DEF NetType
    <3>. QED
      BY <3>1, <3>3, PlacesSame
  <2>3. ASSUME NEW d \in Conns, GoIdle(d) PROVE Places(c, m)' = Places(c, m)
    <3>1. /\ conn'[c].fd = conn[c].fd /\ conn'[c].input = conn[c].input
          /\ conn'[c].output = conn[c].output
      BY <1>1, <2>3 DEF GoIdle, ConnType
    <3>2. UNCHANGED <<net, pool, worker, taskqueue_>>
      BY <2>3 DEF GoIdle, workVars, loopVars
    <3>. QED
      BY <3>1, <3>2, PlacesSame
  <2>4. ASSUME NEW l \in Loops, TimerExpires(l) PROVE Places(c, m)' = Places(c, m)
    <3>1. UNCHANGED <<net, conn, pool, worker, taskqueue_>>
      BY <2>4 DEF TimerExpires, workVars
    <3>. QED
      BY <3>1, PlacesSame
  <2>. QED
    BY <2>1, <2>2, <2>3, <2>4 DEF Environment
<1>. QED
  BY <1>2, <1>4, <1>5

\* Nothing of a connection that has no callbacks yet is with the workers or its loop.
LEMMA NotReady ==
    ASSUME TypeOK, TaskInv, NEW c \in Conns, c \notin Ready, NEW m \in Requests, NEW l \in Loops
    PROVE  Count(taskqueue_[l], [c |-> c, m |-> m]) = 0
<1>1. PICK task : task = [c |-> c, m |-> m]
  OBVIOUS
<1>2. PICK q \in Seq(Tasks) : q = taskqueue_[l]
  BY DEF TypeOK
<1>3. ASSUME NEW i \in 1..Len(q) PROVE q[i] # task
  BY <1>1, <1>2, <1>3 DEF TaskInv
<1>. QED
  BY <1>1, <1>2, <1>3, CountNone

\* main moves no request.
LEMMA MainPlaces ==
    ASSUME TypeOK, TypeOK', OwnInv, OwnInv', MainThread, NEW c \in Conns, NEW m \in Requests
    PROVE  Places(c, m)' = Places(c, m)
<1>1. conn \in [Conns -> ConnType]
  BY NamedTypes
<1>2. UNCHANGED <<net, pool, worker, taskqueue_>>
  BY DEF MainThread, Accept, AcceptFails, Die, NewConnection, workVars, loopVars
<1>3. CASE AcceptFails
  <2>1. UNCHANGED conn
    BY <1>3 DEF AcceptFails, Die
  <2>. QED
    BY <1>2, <2>1, PlacesSame
<1>4. ASSUME NEW d \in Conns, NewConnection(d) PROVE Places(c, m)' = Places(c, m)
  <2>1. /\ conn'[c].fd = conn[c].fd /\ conn'[c].input = conn[c].input
        /\ conn'[c].output = conn[c].output
    BY <1>1, <1>4 DEF NewConnection, ConnType
  <2>. QED
    BY <1>2, <2>1, PlacesSame
<1>5. ASSUME NEW d \in Conns, Accept(d), d # c PROVE Places(c, m)' = Places(c, m)
  <2>1. conn'[c] = conn[c]
    BY <1>1, <1>5 DEF Accept
  <2>. QED
    BY <1>2, <2>1, PlacesSame
<1>6. CASE Accept(c)
  <2>1. PICK k \in ConnType : k = conn[c]
    BY <1>1
  <2>2. ConnOk(k) /\ k.stage = 0
    BY <1>6, <2>1 DEF OwnInv, ConnInv, Accept, Backlogged
  <2>3. AcceptedFd \in Fds
    BY <2>1, <2>2, AcceptedFdIsFree, FdsAre DEF ConnOk
  <2>4. PICK r : r = Constructed(k, AcceptedFd)
    OBVIOUS
  <2>5. r.stage = Registered /\ r.input = <<>> /\ r.output = <<>>
    BY <2>2, <2>3, <2>4, ConstructedOk
  <2>6. conn' = [conn EXCEPT ![c] = r]
    BY <1>6, <2>1, <2>4 DEF Accept
  <2>7. conn'[c].input = conn[c].input /\ conn'[c].output = conn[c].output
    BY <1>1, <2>1, <2>2, <2>5, <2>6 DEF ConnOk
  <2>8. c \notin Ready /\ c \notin Ready'
    BY <1>1, <2>1, <2>2, <2>5, <2>6 DEF Ready, MessageCb, Registered
  <2>9. PICK k0 \in Loops, k1 \in Loops : k0 = LoopOf(c) /\ k1 = LoopOf(c)'
    <3>1. LoopOf(c)' \in Loops
      <4>1. conn'[c].fd \in Fds \cup {0}
        BY DEF TypeOK
      <4>. QED
        BY <4>1, LoopOfFd DEF LoopOf
    <3>. QED
      BY <3>1, LoopOfType
  <2>10. /\ Count(taskqueue_[k0], [c |-> c, m |-> m]) = 0
         /\ Count(taskqueue_'[k1], [c |-> c, m |-> m]) = 0
    BY <1>2, <2>8, NotReady DEF OwnInv
  <2>. QED
    BY <1>2, <2>7, <2>9, <2>10, PlacesAre DEF Tally
<1>. QED
  BY <1>3, <1>4, <1>5, <1>6 DEF MainThread

\* A request is on its way to the workers, in the hands of one, or answered.
Asking(n, k, p, c, m) == Count(n.rcv, m) + Count(k.input, m) + Count(p, [c |-> c, m |-> m])
Answering(q, k, n, c, m) == Count(q, [c |-> c, m |-> m]) + Count(k.output, m) + Count(n.got, m)

\* The tally is the sum of its three parts.
LEMMA TallySplit ==
    ASSUME NEW c \in Conns, NEW m \in Requests, NEW n \in NetType, NEW k \in ConnType,
           NEW p \in Seq(Tasks), NEW wk, NEW q \in Seq(Tasks)
    PROVE  /\ Asking(n, k, p, c, m) \in Nat /\ Hands(wk, c, m) \in Nat
           /\ Answering(q, k, n, c, m) \in Nat
           /\ Tally(n, k, p, wk, q, c, m)
                = Asking(n, k, p, c, m) + Hands(wk, c, m) + Answering(q, k, n, c, m)
<1>1. Hands(wk, c, m) \in Nat
  <2>1. PICK S : S = {w \in Workers : HasRequest(wk[w], c, m)}
    OBVIOUS
  <2>2. IsFiniteSet(Workers) /\ S \in SUBSET Workers
    BY <2>1, ReactorAssumption
  <2>3. IsFiniteSet(S)
    BY <2>2, FS_Subset
  <2>. QED
    BY <2>1, <2>3, FS_CardinalityType DEF Hands
<1>2. PICK r, i, a, h, b, o, g :
        /\ r = Count(n.rcv, m) /\ i = Count(k.input, m) /\ a = Count(p, [c |-> c, m |-> m])
        /\ h = Hands(wk, c, m) /\ b = Count(q, [c |-> c, m |-> m])
        /\ o = Count(k.output, m) /\ g = Count(n.got, m)
  OBVIOUS
<1>3. n.rcv \in Seq(Requests) /\ n.got \in Seq(Requests) /\ k.input \in Seq(Requests)
      /\ k.output \in Seq(Requests)
  BY DEF NetType, ConnType
<1>4. r \in Nat /\ i \in Nat /\ o \in Nat /\ g \in Nat
  BY <1>2, <1>3, CountType
<1>5. a \in Nat /\ b \in Nat
  BY <1>2, CountType
<1>6. /\ r + i + a \in Nat /\ b + o + g \in Nat
      /\ r + i + a + h + b + o + g = (r + i + a) + h + (b + o + g)
  <2>1. h \in Nat
    BY <1>1, <1>2
  <2>. QED
    BY <1>4, <1>5, <2>1
<1>. QED
  BY <1>1, <1>2, <1>6 DEF Tally, Asking, Answering

\* The same of the places before and after a step.
LEMMA PlacesSplit ==
    ASSUME TypeOK, TypeOK', NEW c \in Conns, NEW m \in Requests, LoopOf(c)' = LoopOf(c)
    PROVE  LET asking == Asking(net[c], conn[c], pool, c, m)
               answering == Answering(taskqueue_[LoopOf(c)], conn[c], net[c], c, m)
               asking1 == Asking(net'[c], conn'[c], pool', c, m)
               answering1 == Answering(taskqueue_'[LoopOf(c)], conn'[c], net'[c], c, m)
           IN  /\ {asking, answering, asking1, answering1} \subseteq Nat
               /\ Hands(worker, c, m) \in Nat /\ Hands(worker', c, m) \in Nat
               /\ Places(c, m) = asking + Hands(worker, c, m) + answering
               /\ Places(c, m)' = asking1 + Hands(worker', c, m) + answering1
<1>1. PICK l \in Loops : l = LoopOf(c)
  BY LoopOfType
<1>2. /\ net[c] \in NetType /\ conn[c] \in ConnType /\ pool \in Seq(Tasks)
      /\ taskqueue_[l] \in Seq(Tasks)
  BY NamedTypes DEF TypeOK
<1>3. /\ net'[c] \in NetType /\ conn'[c] \in ConnType /\ pool' \in Seq(Tasks)
      /\ taskqueue_'[l] \in Seq(Tasks)
  BY DEF TypeOK, NetType, ConnType
<1>4. /\ Asking(net[c], conn[c], pool, c, m) \in Nat /\ Hands(worker, c, m) \in Nat
      /\ Answering(taskqueue_[l], conn[c], net[c], c, m) \in Nat
      /\ Tally(net[c], conn[c], pool, worker, taskqueue_[l], c, m)
           = Asking(net[c], conn[c], pool, c, m) + Hands(worker, c, m)
               + Answering(taskqueue_[l], conn[c], net[c], c, m)
  <2>1. PICK n \in NetType, k \in ConnType, p \in Seq(Tasks), q \in Seq(Tasks) :
          n = net[c] /\ k = conn[c] /\ p = pool /\ q = taskqueue_[l]
    BY <1>2
  <2>2. PICK wk : wk = worker
    OBVIOUS
  <2>3. /\ Asking(n, k, p, c, m) \in Nat /\ Hands(wk, c, m) \in Nat
        /\ Answering(q, k, n, c, m) \in Nat
        /\ Tally(n, k, p, wk, q, c, m)
             = Asking(n, k, p, c, m) + Hands(wk, c, m) + Answering(q, k, n, c, m)
    BY TallySplit
  <2>. QED
    BY <2>1, <2>2, <2>3
<1>5. /\ Asking(net'[c], conn'[c], pool', c, m) \in Nat /\ Hands(worker', c, m) \in Nat
      /\ Answering(taskqueue_'[l], conn'[c], net'[c], c, m) \in Nat
      /\ Tally(net'[c], conn'[c], pool', worker', taskqueue_'[l], c, m)
           = Asking(net'[c], conn'[c], pool', c, m) + Hands(worker', c, m)
               + Answering(taskqueue_'[l], conn'[c], net'[c], c, m)
  <2>1. PICK n \in NetType, k \in ConnType, p \in Seq(Tasks), q \in Seq(Tasks) :
          n = net'[c] /\ k = conn'[c] /\ p = pool' /\ q = taskqueue_'[l]
    BY <1>3
  <2>2. PICK wk : wk = worker'
    OBVIOUS
  <2>3. /\ Asking(n, k, p, c, m) \in Nat /\ Hands(wk, c, m) \in Nat
        /\ Answering(q, k, n, c, m) \in Nat
        /\ Tally(n, k, p, wk, q, c, m)
             = Asking(n, k, p, c, m) + Hands(wk, c, m) + Answering(q, k, n, c, m)
    BY TallySplit
  <2>. QED
    BY <2>1, <2>2, <2>3
<1>. QED
  BY <1>1, <1>4, <1>5, PlacesAre

\* Closing a connection puts what was read where the caller says and drops the rest.
LEMMA ClosePlaces ==
    ASSUME TypeOK, TypeOK', NEW l \in Loops, NEW d \in Conns, NEW cb \in {CloseCb, ErrorCb},
           NEW input \in Seq(Requests), CloseConnection(l, d, cb, input),
           NEW c \in Conns, NEW m \in Requests
    PROVE  \/ Places(c, m)' = Places(c, m)
           \/ /\ d = c /\ conn'[c].disconnect /\ conn[c].stage # 0
              /\ Count(input, m) = Count(conn[c].input, m) => Places(c, m)' <= Places(c, m)
              /\ Count(input, m) # Count(conn[c].input, m) + Count(net[c].rcv, m)
<1>1. /\ conn \in [Conns -> ConnType] /\ net \in [Conns -> NetType]
      /\ conn[c].input \in Seq(Requests) /\ net[c].rcv \in Seq(Requests)
  BY NamedTypes DEF ConnType, NetType
<1>2. CASE Dead
  <2>1. UNCHANGED <<conn, net, pool, worker, taskqueue_>>
    BY <1>2 DEF Dead, workVars, loopVars
  <2>. QED
    BY <2>1, PlacesSame
<1>3. SUFFICES ASSUME ~Dead
               PROVE  \/ Places(c, m)' = Places(c, m)
                      \/ /\ d = c /\ conn'[c].disconnect /\ conn[c].stage # 0
                         /\ Count(input, m) = Count(conn[c].input, m)
                              => Places(c, m)' <= Places(c, m)
                         /\ Count(input, m) # Count(conn[c].input, m) + Count(net[c].rcv, m)
  BY <1>2
<1>4. PICK k \in ConnType : k = conn[d]
  BY <1>1
<1>5. PICK r : r = [Removed(k) EXCEPT !.input = input]
  OBVIOUS
<1>6. /\ r.fd = k.fd /\ r.disconnect /\ r.input = input /\ r.output = k.output
  BY <1>5, RemovedIs
<1>7. /\ conn' = [conn EXCEPT ![d] = r] /\ net' = [net EXCEPT ![d].rcv = <<>>]
      /\ UNCHANGED <<pool, worker, taskqueue_>> /\ CloseFailure(d, cb) = "none"
  <2>1. /\ CloseFailure(d, cb) = "none"
        /\ conn' = [conn EXCEPT ![d] = [Removed(conn[d]) EXCEPT !.input = input]]
        /\ net' = [net EXCEPT ![d].rcv = <<>>]
        /\ UNCHANGED <<workVars, taskqueue_>>
    BY <1>3 DEF CloseConnection, Die, Dead, mapVars
  <2>. QED
    BY <1>4, <1>5, <2>1 DEF workVars
<1>8. CASE d # c
  <2>1. conn'[c] = conn[c] /\ net'[c] = net[c]
    BY <1>1, <1>7, <1>8
  <2>. QED
    BY <1>7, <2>1, PlacesSame
<1>9. CASE d = c
  <2>1. /\ conn'[c].fd = conn[c].fd /\ conn'[c].disconnect
        /\ conn'[c].input = input /\ conn'[c].output = conn[c].output
    BY <1>1, <1>4, <1>6, <1>7, <1>9
  <2>2. net'[c].rcv = <<>> /\ net'[c].got = net[c].got
    BY <1>1, <1>7, <1>9 DEF NetType
  <2>3. conn[c].stage # 0
    BY <1>7, <1>9, StageOfClose DEF CloseCb
  <2>4. LoopOf(c)' = LoopOf(c)
    BY <2>1 DEF LoopOf
  <2>5. PICK a \in Nat, h \in Nat, b \in Nat, a1 \in Nat :
          /\ a = Asking(net[c], conn[c], pool, c, m) /\ a1 = Asking(net'[c], conn'[c], pool', c, m)
          /\ Places(c, m) = a + h + b /\ Places(c, m)' = a1 + h + b
    <3>1. worker' = worker /\ Answering(taskqueue_'[LoopOf(c)], conn'[c], net'[c], c, m)
                                = Answering(taskqueue_[LoopOf(c)], conn[c], net[c], c, m)
      BY <1>7, <2>1, <2>2 DEF Answering
    <3>2. PICK a, h, b, a1 :
            /\ a = Asking(net[c], conn[c], pool, c, m) /\ a1 = Asking(net'[c], conn'[c], pool', c, m)
            /\ h = Hands(worker, c, m)
            /\ b = Answering(taskqueue_[LoopOf(c)], conn[c], net[c], c, m)
      OBVIOUS
    <3>3. /\ {a, b, a1} \subseteq Nat /\ h \in Nat
          /\ Places(c, m) = a + h + b /\ Places(c, m)' = a1 + h + b
      BY <2>4, <3>1, <3>2, PlacesSplit
    <3>. QED
      BY <3>2, <3>3
  <2>6. PICK x \in Nat, y \in Nat, z \in Nat, t \in Nat :
          /\ x = Count(net[c].rcv, m) /\ y = Count(conn[c].input, m)
          /\ z = Count(pool, [c |-> c, m |-> m]) /\ t = Count(input, m)
    BY <1>1, CountType, TallyType
  <2>7. a = x + y + z /\ a1 = 0 + t + z
    BY <1>7, <2>1, <2>2, <2>5, <2>6, CountEmpty DEF Asking
  <2>8. CASE t = y + x
    BY <2>5, <2>6, <2>7, <2>8
  <2>9. CASE t # y + x
    <3>1. t = y => Places(c, m)' <= Places(c, m)
      BY <2>5, <2>6, <2>7
    <3>. QED
      BY <1>9, <2>1, <2>3, <2>6, <2>9, <3>1
  <2>. QED
    BY <2>8, <2>9
<1>. QED
  BY <1>8, <1>9

\* Reading turns what has arrived into tasks.
LEMMA ReadPlaces ==
    ASSUME TypeOK, TypeOK', NEW l \in Loops, NEW d \in Conns, ReadMessages(l, d),
           NEW c \in Conns, NEW m \in Requests
    PROVE  Places(c, m)' = Places(c, m)
<1>1. /\ conn \in [Conns -> ConnType] /\ net \in [Conns -> NetType]
      /\ conn[d].input \in Seq(Requests) /\ net[d].rcv \in Seq(Requests)
  BY NamedTypes DEF ConnType, NetType
<1>2. CASE Dead
  <2>1. UNCHANGED <<conn, net, pool, worker, taskqueue_>>
    BY <1>2 DEF Dead, workVars, loopVars
  <2>. QED
    BY <2>1, PlacesSame
<1>3. CASE ~Dead
  <2>1. PICK msgs \in Seq(Requests) : msgs = conn[d].input \o net[d].rcv
    BY <1>1, ConcatProperties
  <2>2. PICK b \in BOOLEAN :
          conn' = [conn EXCEPT ![d] = [conn[d] EXCEPT !.input = <<>>, !.idle = conn[d].idle /\ b]]
    BY <1>3, ReadEffect
  <2>3. /\ net' = [net EXCEPT ![d].rcv = <<>>] /\ pool' = HandleMessages(d, msgs)
        /\ UNCHANGED <<worker, taskqueue_>>
    BY <1>3, <2>1, ReadEffect
  <2>4. /\ conn'[c].fd = conn[c].fd /\ conn'[c].output = conn[c].output
        /\ conn'[c].input = IF d = c THEN <<>> ELSE conn[c].input
    BY <1>1, <2>2 DEF ConnType
  <2>5. /\ net'[c].got = net[c].got
        /\ net'[c].rcv = IF d = c THEN <<>> ELSE net[c].rcv
    BY <1>1, <2>3 DEF NetType
  <2>6. PICK x, y, z \in Nat : /\ x = Count(net[c].rcv, m) /\ y = Count(conn[c].input, m)
                               /\ z = Count(pool, [c |-> c, m |-> m])
    BY TallyType
  <2>7. x \in Nat /\ y \in Nat
    BY <2>6, TallyType
  <2>8. Count(pool', [c |-> c, m |-> m]) = z + IF d = c THEN y + x ELSE 0
    <3>1. Count(pool', [c |-> c, m |-> m]) = z + IF d = c THEN Count(msgs, m) ELSE 0
      BY <2>3, <2>6, CountHanded
    <3>2. d = c => Count(msgs, m) = y + x
      BY <1>1, <2>1, <2>6, CountChanges
    <3>. QED
      BY <3>1, <3>2
  <2>9. Asking(net'[c], conn'[c], pool', c, m) = Asking(net[c], conn[c], pool, c, m)
    <3>1. CASE d = c
      <4>1. /\ Asking(net[c], conn[c], pool, c, m) = x + y + z
            /\ Asking(net'[c], conn'[c], pool', c, m) = 0 + 0 + (z + (y + x))
        BY <2>4, <2>5, <2>6, <2>8, <3>1, CountEmpty DEF Asking
      <4>. QED
        BY <2>6, <2>7, <4>1
    <3>2. CASE d # c
      BY <2>4, <2>5, <2>6, <2>7, <2>8, <3>2 DEF Asking
    <3>. QED
      BY <3>1, <3>2
  <2>10. Answering(taskqueue_'[LoopOf(c)], conn'[c], net'[c], c, m)
           = Answering(taskqueue_[LoopOf(c)], conn[c], net[c], c, m)
    BY <2>3, <2>4, <2>5 DEF Answering
  <2>11. LoopOf(c)' = LoopOf(c)
    BY <2>4 DEF LoopOf
  <2>. QED
    BY <2>3, <2>9, <2>10, <2>11, PlacesSplit, ZenonT(60)
<1>. QED
  BY <1>2, <1>3

\* What writecallback() takes out of outputbuffer_ reaches the client.
LEMMA WritePlaces ==
    ASSUME TypeOK, TypeOK', NEW l \in Loops, NEW d \in Conns, Write(l, d),
           NEW c \in Conns, NEW m \in Requests
    PROVE  Places(c, m)' = Places(c, m)
<1>1. /\ conn \in [Conns -> ConnType] /\ net \in [Conns -> NetType]
      /\ conn[d].output \in Seq(Requests) /\ net[d].got \in Seq(Requests)
  BY NamedTypes DEF ConnType, NetType
<1>2. CASE Dead
  <2>1. UNCHANGED <<conn, net, pool, worker, taskqueue_>>
    BY <1>2 DEF Dead, workVars, loopVars
  <2>. QED
    BY <2>1, PlacesSame
<1>3. CASE ~Dead
  <2>1. UNCHANGED <<pool, worker, taskqueue_>>
    BY <1>3, WriteEffect DEF workVars
  <2>2. PICK n \in 0..Len(conn[d].output), k \in ConnType :
          /\ net' = [net EXCEPT ![d].got = @ \o SubSeq(conn[d].output, 1, n)]
          /\ conn' = [conn EXCEPT ![d] = k]
          /\ k.fd = conn[d].fd /\ k.input = conn[d].input
          /\ k.output = Erased(conn[d].output, n)
    BY <1>3, WriteEffect
  <2>3. CASE d # c
    <3>1. conn'[c] = conn[c] /\ net'[c] = net[c]
      BY <1>1, <2>2, <2>3
    <3>. QED
      BY <2>1, <3>1, PlacesSame
  <2>4. CASE d = c
    <3>1. PICK out \in Seq(Requests), got \in Seq(Requests) : out = conn[c].output /\ got = net[c].got
      BY <1>1, <2>4
    <3>2. PICK front \in Seq(Requests), rest \in Seq(Requests) :
            front = SubSeq(out, 1, n) /\ rest = Erased(out, n)
      BY <2>4, <3>1, CutOf
    <3>3. Count(out, m) = Count(front, m) + Count(rest, m)
      BY <2>4, <3>1, <3>2, CountChanges
    <3>4. Count(got \o front, m) = Count(got, m) + Count(front, m)
      BY CountChanges
    <3>5. /\ net'[c].got = got \o front /\ net'[c].rcv = net[c].rcv
          /\ conn'[c].output = rest /\ conn'[c].input = conn[c].input /\ conn'[c].fd = conn[c].fd
      BY <1>1, <2>2, <2>4, <3>1, <3>2 DEF NetType
    <3>6. LoopOf(c)' = LoopOf(c)
      BY <3>5 DEF LoopOf
    <3>7. Answering(taskqueue_'[LoopOf(c)], conn'[c], net'[c], c, m)
            = Answering(taskqueue_[LoopOf(c)], conn[c], net[c], c, m)
      <4>1. PICK x \in Nat, y \in Nat, z \in Nat, q \in Nat :
              /\ x = Count(front, m) /\ y = Count(rest, m) /\ z = Count(got, m)
              /\ q = Count(taskqueue_[LoopOf(c)], [c |-> c, m |-> m])
        BY CountType, TallyType, LoopOfType
      <4>2. /\ Answering(taskqueue_[LoopOf(c)], conn[c], net[c], c, m) = q + (x + y) + z
            /\ Answering(taskqueue_'[LoopOf(c)], conn'[c], net'[c], c, m) = q + y + (z + x)
        BY <2>1, <3>1, <3>3, <3>4, <3>5, <4>1 DEF Answering
      <4>. QED
        BY <4>1, <4>2
    <3>8. Asking(net'[c], conn'[c], pool', c, m) = Asking(net[c], conn[c], pool, c, m)
      BY <2>1, <3>5 DEF Asking
    <3>. QED
      BY <2>1, <3>6, <3>7, <3>8, PlacesSplit
  <2>. QED
    BY <2>3, <2>4
<1>. QED
  BY <1>2, <1>3

\* sendinloop() moves its task to outputbuffer_.
LEMMA SendPlaces ==
    ASSUME TypeOK, TypeOK', TaskInv, NEW l \in Loops, SendInLoop(l),
           NEW c \in Conns, NEW m \in Requests
    PROVE  Places(c, m)' = Places(c, m)
<1>1. conn \in [Conns -> ConnType] /\ taskqueue_ \in [Loops -> Seq(Tasks)]
  BY NamedTypes DEF TypeOK
<1>2. PICK task \in Tasks :
        /\ taskqueue_[l] # <<>> /\ task = Head(taskqueue_[l])
        /\ \/ Dead
           \/ /\ conn' = [conn EXCEPT ![task.c] = Queued(conn[task.c], task.m)]
              /\ taskqueue_' = [taskqueue_ EXCEPT ![l] = Tail(@)]
              /\ UNCHANGED <<net, workVars>>
  BY SendEffect
<1>3. CASE Dead
  <2>1. UNCHANGED <<conn, net, pool, worker, taskqueue_>>
    BY <1>3 DEF Dead, workVars, loopVars
  <2>. QED
    BY <2>1, PlacesSame
<1>4. CASE ~Dead
  <2>1. PICK d \in Conns, n \in Requests : d = task.c /\ n = task.m /\ task = [c |-> d, m |-> n]
    BY DEF Tasks
  <2>2. PICK k \in ConnType : k = conn[d]
    BY <1>1
  <2>3. PICK r : r = Queued(k, n)
    OBVIOUS
  <2>4. r.fd = k.fd /\ r.input = k.input /\ r.output = Append(k.output, n)
    BY <2>3, QueuedIs
  <2>5. /\ conn' = [conn EXCEPT ![d] = r] /\ taskqueue_' = [taskqueue_ EXCEPT ![l] = Tail(@)]
        /\ UNCHANGED <<net, pool, worker>>
    BY <1>2, <1>4, <2>1, <2>2, <2>3 DEF workVars
  <2>6. /\ conn'[c].fd = conn[c].fd /\ conn'[c].input = conn[c].input
        /\ conn'[c].output = IF d = c THEN Append(conn[c].output, n) ELSE conn[c].output
    BY <1>1, <2>2, <2>4, <2>5
  <2>7. PICK q \in Seq(Tasks) : q = taskqueue_[l] /\ q # <<>> /\ Head(q) = task
    BY <1>1, <1>2
  <2>8. LoopOf(d) = l
    <3>1. 1 \in 1..Len(q) /\ Head(q) = q[1]
      BY <2>7, PoppedTasks
    <3>. QED
      BY <2>1, <2>7, <3>1 DEF TaskInv
  <2>9. PICK one \in Nat : one = IF d = c /\ n = m THEN 1 ELSE 0
    OBVIOUS
  <2>10. Count(q, [c |-> c, m |-> m]) = one + Count(Tail(q), [c |-> c, m |-> m])
    <3>1. PICK x : x = [c |-> c, m |-> m]
      OBVIOUS
    <3>2. Count(q, x) = (IF Head(q) = x THEN 1 ELSE 0) + Count(Tail(q), x)
      BY <2>7, CountChanges
    <3>3. task = x <=> d = c /\ n = m
      BY <2>1, <3>1
    <3>. QED
      BY <2>7, <2>9, <3>1, <3>2, <3>3
  <2>11. d = c => Count(Append(conn[c].output, n), m) = Count(conn[c].output, m) + one
    <3>1. PICK out \in Seq(Requests) : out = conn[c].output
      BY <1>1 DEF ConnType
    <3>2. Count(Append(out, n), m) = Count(out, m) + IF n = m THEN 1 ELSE 0
      BY CountChanges
    <3>. QED
      BY <2>9, <3>1, <3>2
  <2>12. LoopOf(c)' = LoopOf(c)
    BY <2>6 DEF LoopOf
  <2>13. Answering(taskqueue_'[LoopOf(c)], conn'[c], net'[c], c, m)
           = Answering(taskqueue_[LoopOf(c)], conn[c], net[c], c, m)
    <3>1. PICK y \in Nat, z \in Nat : y = Count(conn[c].output, m) /\ z = Count(net[c].got, m)
      BY TallyType
    <3>2. CASE d = c
      <4>1. taskqueue_'[LoopOf(c)] = Tail(q) /\ taskqueue_[LoopOf(c)] = q
        BY <1>1, <2>5, <2>7, <2>8, <3>2
      <4>2. PICK x \in Nat : x = Count(Tail(q), [c |-> c, m |-> m])
        <5>1. Tail(q) \in Seq(Tasks)
          BY <2>7, HeadTailProperties
        <5>. QED
          BY <5>1, CountType
      <4>3. /\ Answering(taskqueue_[LoopOf(c)], conn[c], net[c], c, m) = (one + x) + y + z
            /\ Answering(taskqueue_'[LoopOf(c)], conn'[c], net'[c], c, m) = x + (y + one) + z
        BY <2>5, <2>6, <2>10, <2>11, <3>1, <3>2, <4>1, <4>2 DEF Answering
      <4>. QED
        BY <3>1, <4>2, <4>3
    <3>3. CASE d # c
      <4>1. Count(taskqueue_'[LoopOf(c)], [c |-> c, m |-> m])
              = Count(taskqueue_[LoopOf(c)], [c |-> c, m |-> m])
        <5>1. CASE LoopOf(c) = l
          <6>1. taskqueue_'[l] = Tail(q) /\ taskqueue_[l] = q
            BY <1>1, <2>5, <2>7
          <6>2. Count(Tail(q), [c |-> c, m |-> m]) \in Nat
            <7>1. Tail(q) \in Seq(Tasks)
              BY <2>7, HeadTailProperties
            <7>. QED
              BY <7>1, CountType
          <6>. QED
            BY <2>9, <2>10, <3>3, <5>1, <6>1, <6>2
        <5>2. CASE LoopOf(c) # l
          BY <1>1, <2>5, <5>2, LoopOfType
        <5>. QED
          BY <5>1, <5>2
      <4>. QED
        BY <2>5, <2>6, <3>3, <4>1 DEF Answering
    <3>. QED
      BY <3>2, <3>3
  <2>14. Asking(net'[c], conn'[c], pool', c, m) = Asking(net[c], conn[c], pool, c, m)
    BY <2>5, <2>6 DEF Asking
  <2>. QED
    BY <2>5, <2>12, <2>13, <2>14, PlacesSplit
<1>. QED
  BY <1>3, <1>4

\* A worker takes a request and queues the reply, or finds the connection closed.
LEMMA WorkPlaces ==
    ASSUME TypeOK, TypeOK', TaskInv, NEW w \in Workers, WorkThread(w),
           NEW c \in Conns, NEW m \in Requests
    PROVE  \/ Places(c, m)' = Places(c, m)
           \/ /\ conn'[c].disconnect /\ conn[c].stage # 0
              /\ Places(c, m)' <= Places(c, m)
<1>1. /\ taskqueue_ \in [Loops -> Seq(Tasks)] /\ pool \in Seq(Tasks)
      /\ worker \in [Workers -> [at : {"check", "queue", "done"}, c : Conns, m : Requests]
                                \cup {IdleWorker}]
  BY DEF TypeOK
<1>2. UNCHANGED <<conn, net>> /\ LoopOf(c)' = LoopOf(c)
  BY DEF WorkThread, TakeTask, SendCheck, SendQueue, Release, LoopOf
<1>3. PICK x : x = [c |-> c, m |-> m]
  OBVIOUS
<1>4. PICK rest \in Nat : rest = Cardinality({v \in Workers \ {w} : HasRequest(worker[v], c, m)})
  BY HandsOf
<1>5. Hands(worker, c, m) = rest + IF HasRequest(worker[w], c, m) THEN 1 ELSE 0
  BY <1>4, HandsOf
<1>6. ASSUME NEW r, worker' = [worker EXCEPT ![w] = r]
      PROVE  Hands(worker', c, m) = rest + IF HasRequest(r, c, m) THEN 1 ELSE 0
  <2>1. {v \in Workers \ {w} : HasRequest(worker'[v], c, m)}
          = {v \in Workers \ {w} : HasRequest(worker[v], c, m)}
    BY <1>1, <1>6
  <2>2. Hands(worker', c, m)
          = Cardinality({v \in Workers \ {w} : HasRequest(worker'[v], c, m)})
              + IF HasRequest(worker'[w], c, m) THEN 1 ELSE 0
    BY HandsOf
  <2>3. worker'[w] = r
    BY <1>1, <1>6
  <2>. QED
    BY <1>4, <2>1, <2>2, <2>3
<1>7. PICK a, h, b, a1, h1, b1 :
        /\ a = Asking(net[c], conn[c], pool, c, m) /\ a1 = Asking(net'[c], conn'[c], pool', c, m)
        /\ h = Hands(worker, c, m) /\ h1 = Hands(worker', c, m)
        /\ b = Answering(taskqueue_[LoopOf(c)], conn[c], net[c], c, m)
        /\ b1 = Answering(taskqueue_'[LoopOf(c)], conn'[c], net'[c], c, m)
  OBVIOUS
<1>8. /\ {a, h, b, a1, h1, b1} \subseteq Nat
      /\ Places(c, m) = a + h + b /\ Places(c, m)' = a1 + h1 + b1
  BY <1>2, <1>7, PlacesSplit
<1>9. pool' = pool => a1 = a
  BY <1>2, <1>7
<1>10. taskqueue_' = taskqueue_ => b1 = b
  BY <1>2, <1>7
<1>11. CASE TakeTask(w)
  <2>1. /\ pool # <<>> /\ pool' = Tail(pool) /\ taskqueue_' = taskqueue_ /\ worker[w].at = "idle"
        /\ worker' = [worker EXCEPT ![w] = [at |-> "check", c |-> Head(pool).c, m |-> Head(pool).m]]
    BY <1>11 DEF TakeTask, loopVars
  <2>2. PICK task \in Tasks : task = Head(pool)
    BY <1>1, <2>1, HeadTailProperties
  <2>3. PICK d, n : d = task.c /\ n = task.m /\ task = [c |-> d, m |-> n]
    BY DEF Tasks
  <2>4. task = x <=> d = c /\ n = m
    BY <1>3, <2>3
  <2>5. PICK one \in Nat : one = IF task = x THEN 1 ELSE 0
    OBVIOUS
  <2>6. Count(pool, x) = one + Count(Tail(pool), x)
    <3>1. PICK p \in Seq(Tasks) : p = pool
      BY <1>1
    <3>2. Count(p, x) = (IF Head(p) = x THEN 1 ELSE 0) + Count(Tail(p), x)
      BY <2>1, <3>1, CountChanges
    <3>. QED
      BY <2>2, <2>5, <3>1, <3>2
  <2>7. ~HasRequest(worker[w], c, m)
    BY <2>1 DEF HasRequest
  <2>8. PICK r : r = [at |-> "check", c |-> d, m |-> n]
    OBVIOUS
  <2>9. HasRequest(r, c, m) <=> task = x
    BY <2>4, <2>8 DEF HasRequest
  <2>10. h = rest /\ h1 = rest + one
    <3>1. worker' = [worker EXCEPT ![w] = r]
      BY <2>1, <2>2, <2>3, <2>8
    <3>2. h = rest + (IF HasRequest(worker[w], c, m) THEN 1 ELSE 0)
          /\ h1 = rest + IF HasRequest(r, c, m) THEN 1 ELSE 0
      BY <1>5, <1>6, <1>7, <3>1
    <3>. QED
      BY <1>4, <2>5, <2>7, <2>9, <3>2
  <2>11. a = one + a1
    <3>1. PICK s \in Nat, t \in Nat : s = Count(net[c].rcv, m) /\ t = Count(conn[c].input, m)
      BY TallyType
    <3>2. PICK z \in Nat : z = Count(Tail(pool), x)
      <4>1. Tail(pool) \in Seq(Tasks)
        BY <1>1, <2>1, HeadTailProperties
      <4>. QED
        BY <4>1, CountType
    <3>3. a = s + t + (one + z) /\ a1 = s + t + z
      BY <1>2, <1>3, <1>7, <2>1, <2>6, <3>1, <3>2 DEF Asking
    <3>. QED
      BY <3>1, <3>2, <3>3
  <2>. QED
    BY <1>8, <1>10, <2>1, <2>10, <2>11
<1>12. ASSUME worker[w].at # "idle"
       PROVE  worker[w] \in [at : {"check", "queue", "done"}, c : Conns, m : Requests]
  BY <1>1, <1>12 DEF IdleWorker
<1>13. CASE SendCheck(w)
  <2>1. /\ worker[w].at = "check" /\ UNCHANGED <<pool, taskqueue_>>
        /\ worker' = [worker EXCEPT ![w].at = IF conn[worker[w].c].disconnect THEN "done" ELSE "queue"]
    BY <1>13 DEF SendCheck, loopVars
  <2>2. PICK k, r : /\ k = worker[w]
                    /\ r = [k EXCEPT !.at = IF conn[k.c].disconnect THEN "done" ELSE "queue"]
    OBVIOUS
  <2>3. worker' = [worker EXCEPT ![w] = r]
    BY <1>1, <2>1, <2>2
  <2>4. /\ r.c = k.c /\ r.m = k.m
        /\ r.at = IF conn[k.c].disconnect THEN "done" ELSE "queue"
    BY <1>12, <2>1, <2>2
  <2>5. h = rest + (IF HasRequest(k, c, m) THEN 1 ELSE 0)
        /\ h1 = rest + IF HasRequest(r, c, m) THEN 1 ELSE 0
    BY <1>5, <1>6, <1>7, <2>2, <2>3
  <2>6. CASE HasRequest(r, c, m) <=> HasRequest(k, c, m)
    <3>1. h1 = h
      BY <2>5, <2>6
    <3>. QED
      BY <1>8, <1>9, <1>10, <2>1, <3>1
  <2>7. CASE ~(HasRequest(r, c, m) <=> HasRequest(k, c, m))
    <3>1. k.c = c /\ conn[c].disconnect /\ ~HasRequest(r, c, m) /\ HasRequest(k, c, m)
      BY <2>1, <2>2, <2>4, <2>7 DEF HasRequest
    <3>2. h = rest + 1 /\ h1 = rest
      BY <2>5, <3>1
    <3>3. c \in Ready
      BY <2>1, <2>2, <3>1 DEF TaskInv, IdleWorker
    <3>4. conn[c].stage # 0
      BY <3>3, NamedTypes DEF Ready, MessageCb, ConnType, Stages
    <3>. QED
      BY <1>2, <1>4, <1>8, <1>9, <1>10, <2>1, <3>1, <3>2, <3>4
  <2>. QED
    BY <2>6, <2>7
<1>14. CASE SendQueue(w)
  <2>1. PICK k : k = worker[w] /\ k.at = "queue" /\ k.c \in Conns /\ k.m \in Requests
    BY <1>12, <1>14 DEF SendQueue
  <2>2. PICK task \in Tasks : task = [c |-> k.c, m |-> k.m]
    BY <2>1 DEF Tasks
  <2>3. PICK r : r = [k EXCEPT !.at = "done"]
    OBVIOUS
  <2>4. r.at = "done"
    BY <1>12, <2>1, <2>3
  <2>5. /\ worker' = [worker EXCEPT ![w] = r] /\ pool' = pool
        /\ taskqueue_' = [taskqueue_ EXCEPT ![LoopOf(k.c)] = Append(@, task)]
    BY <1>1, <1>14, <2>1, <2>2, <2>3 DEF SendQueue
  <2>6. PICK one \in Nat : one = IF task = x THEN 1 ELSE 0
    OBVIOUS
  <2>7. task = x <=> k.c = c /\ k.m = m
    BY <1>3, <2>2
  <2>8. HasRequest(k, c, m) <=> task = x
    BY <2>1, <2>7 DEF HasRequest
  <2>9. ~HasRequest(r, c, m)
    BY <2>4 DEF HasRequest
  <2>10. h = rest + one /\ h1 = rest
    <3>1. h = rest + (IF HasRequest(k, c, m) THEN 1 ELSE 0)
          /\ h1 = rest + IF HasRequest(r, c, m) THEN 1 ELSE 0
      BY <1>5, <1>6, <1>7, <2>1, <2>5
    <3>. QED
      BY <1>4, <2>6, <2>8, <2>9, <3>1
  <2>11. Count(taskqueue_'[LoopOf(c)], x) = Count(taskqueue_[LoopOf(c)], x) + one
    <3>1. PICK l \in Loops, j \in Loops : l = LoopOf(k.c) /\ j = LoopOf(c)
      BY <2>1, LoopOfType
    <3>2. PICK q \in Seq(Tasks) : q = taskqueue_[j]
      BY <1>1
    <3>3. Count(q, x) \in Nat
      BY CountType
    <3>4. CASE l = j
      <4>1. taskqueue_'[j] = Append(q, task)
        BY <1>1, <2>5, <3>1, <3>2, <3>4
      <4>2. Count(Append(q, task), x) = Count(q, x) + IF task = x THEN 1 ELSE 0
        BY CountChanges
      <4>. QED
        BY <2>6, <3>1, <3>2, <4>1, <4>2
    <3>5. CASE l # j
      <4>1. taskqueue_'[j] = q /\ one = 0
        BY <1>1, <2>5, <2>6, <2>7, <3>1, <3>2, <3>5
      <4>. QED
        BY <3>1, <3>2, <3>3, <4>1
    <3>. QED
      BY <3>4, <3>5
  <2>12. b1 = b + one
    <3>1. PICK s \in Nat, t \in Nat, z \in Nat :
            /\ s = Count(conn[c].output, m) /\ t = Count(net[c].got, m)
            /\ z = Count(taskqueue_[LoopOf(c)], x)
      BY <1>3, LoopOfType, TallyType
    <3>2. b = z + s + t /\ b1 = (z + one) + s + t
      BY <1>2, <1>3, <1>7, <2>11, <3>1 DEF Answering
    <3>. QED
      BY <3>1, <3>2
  <2>. QED
    BY <1>4, <1>8, <1>9, <2>5, <2>10, <2>12
<1>15. CASE Release(w)
  <2>1. worker[w].at = "done" /\ worker' = [worker EXCEPT ![w] = IdleWorker]
        /\ UNCHANGED <<pool, taskqueue_>>
    BY <1>15 DEF Release, loopVars
  <2>2. ~HasRequest(worker[w], c, m) /\ ~HasRequest(IdleWorker, c, m)
    BY <2>1 DEF HasRequest, IdleWorker
  <2>3. h = rest /\ h1 = rest
    <3>1. h = rest + (IF HasRequest(worker[w], c, m) THEN 1 ELSE 0)
          /\ h1 = rest + IF HasRequest(IdleWorker, c, m) THEN 1 ELSE 0
      BY <1>5, <1>6, <1>7, <2>1
    <3>. QED
      BY <1>4, <2>2, <3>1
  <2>. QED
    BY <1>8, <1>9, <1>10, <2>1, <2>3
<1>. QED
  BY <1>11, <1>13, <1>14, <1>15 DEF WorkThread

\* The loop's steps, with the closing of a connection among them.
LEMMA LoopPlaces ==
    ASSUME TypeOK, TypeOK', TaskInv, NEW l \in Loops, IOThread(l),
           NEW c \in Conns, NEW m \in Requests
    PROVE  \/ Places(c, m)' = Places(c, m)
           \/ /\ conn'[c].disconnect /\ conn[c].stage # 0
              /\ Places(c, m)' <= Places(c, m)
<1>1. ASSUME NEW d \in Conns, ReadClose(l, d) PROVE Places(c, m)' = Places(c, m)
  <2>1. conn[d].input \in Seq(Requests) /\ net[d].rcv \in Seq(Requests)
    BY NamedTypes DEF ConnType, NetType
  <2>2. PICK input \in Seq(Requests) : input = conn[d].input \o net[d].rcv
    BY <2>1, ConcatProperties
  <2>3. CloseConnection(l, d, CloseCb, input)
    BY <1>1, <2>2 DEF ReadClose
  <2>4. Count(input, m) = Count(conn[d].input, m) + Count(net[d].rcv, m)
    BY <2>1, <2>2, CountChanges
  <2>. QED
    BY <2>3, <2>4, ClosePlaces
<1>2. ASSUME NEW d \in Conns, Error(l, d)
      PROVE  \/ Places(c, m)' = Places(c, m)
             \/ /\ conn'[c].disconnect /\ conn[c].stage # 0
                /\ Places(c, m)' <= Places(c, m)
  <2>1. PICK input \in Seq(Requests) : input = conn[d].input
    BY NamedTypes DEF ConnType
  <2>2. CloseConnection(l, d, ErrorCb, input)
    BY <1>2, <2>1 DEF Error
  <2>. QED
    BY <2>1, <2>2, ClosePlaces
<1>3. CASE \/ Poll(l) \/ EndOfBatch(l) \/ DispatchDangling(l) \/ HandleWakeup(l) \/ EndOfDrain(l)
           \/ HandleTimer(l) \/ Sweep(l)
  <2>1. UNCHANGED <<conn, net, pool, worker, taskqueue_>>
    BY <1>3 DEF Poll, EndOfBatch, DispatchDangling, Die, HandleWakeup, EndOfDrain,
         HandleTimer, Sweep, SweepNext, SweepIdle, RemoveExpired, SweepOn, SpinEnds, workVars, loopVars
  <2>. QED
    BY <2>1, PlacesSame
<1>. QED
  BY <1>1, <1>2, <1>3, ReadPlaces, WritePlaces, SendPlaces DEF IOThread

\* A request enters the way with Ask(), and leaves it, if at all, on a closed connection.
LEMMA Conserved ==
    ASSUME TypeOK, TypeOK', OwnInv, OwnInv', [Next]_vars, NEW c \in Conns, NEW m \in Requests
    PROVE  \/ Places(c, m)' = Places(c, m) + IF Ask(c) /\ m = net[c].asked + 1 THEN 1 ELSE 0
           \/ /\ conn'[c].disconnect /\ conn[c].stage # 0
              /\ net'[c].asked = net[c].asked
              /\ Places(c, m)' <= Places(c, m)
<1>1. Places(c, m) \in Nat /\ net[c].asked \in Nat
  BY PlacesType, NamedTypes, ReactorAssumption DEF NetType
<1>2. CASE Environment
  BY <1>2, EnvPlaces
<1>3. SUFFICES ASSUME ~Environment
               PROVE  \/ Places(c, m)' = Places(c, m)
                      \/ /\ conn'[c].disconnect /\ conn[c].stage # 0
                         /\ Places(c, m)' <= Places(c, m)
  <2>1. ~Environment => ~Ask(c)
    BY DEF Environment
  <2>2. ~Ask(c) => net'[c].asked = net[c].asked
    BY <1>1, AskedBy
  <2>. QED
    BY <1>1, <1>2, <2>1, <2>2
<1>4. CASE UNCHANGED vars
  <2>1. UNCHANGED <<conn, net, pool, worker, taskqueue_>>
    BY <1>4 DEF vars, workVars, loopVars
  <2>. QED
    BY <2>1, PlacesSame
<1>. QED
  BY <1>3, <1>4, MainPlaces, LoopPlaces, WorkPlaces DEF Next, OwnInv

\* What has been asked is in one place, unless its connection is gone or closed; what
\* has not been asked is nowhere.
OnceInv ==
    \A c \in Conns : \A m \in Requests :
      /\ m > net[c].asked => Places(c, m) = 0
      /\ m <= net[c].asked => Places(c, m) <= 1
      /\ m <= net[c].asked /\ (conn[c].stage = 0 \/ (Alive(c) /\ ~conn[c].disconnect))
           => Places(c, m) = 1

\* A step adds to the places of a request only when the client asks, and takes from
\* them only for a connection that is closed or gone.
LEMMA OnceKept ==
    ASSUME TypeOK, TypeOK', OwnInv, OwnInv', BatchInv, OnceInv, [Next]_vars
    PROVE  OnceInv'
<1>1. SUFFICES ASSUME NEW c \in Conns, NEW m \in Requests
               PROVE  /\ m > net'[c].asked => Places(c, m)' = 0
                      /\ m <= net'[c].asked => Places(c, m)' <= 1
                      /\ /\ m <= net'[c].asked
                         /\ conn'[c].stage = 0 \/ (Alive(c)' /\ ~conn'[c].disconnect)
                         => Places(c, m)' = 1
  BY DEF OnceInv
<1>2. PICK was \in Nat, now \in Nat, p \in Nat, q \in Nat :
        /\ was = net[c].asked /\ now = net'[c].asked /\ p = Places(c, m) /\ q = Places(c, m)'
  <2>1. net[c].asked \in Nat /\ Places(c, m) \in Nat
    BY PlacesType, NamedTypes, ReactorAssumption DEF NetType
  <2>2. net'[c].asked \in Nat
    BY <2>1, AskedBy
  <2>3. Places(c, m)' \in Nat
    <3>1. PICK n, k, ps, ts, wk :
            /\ n \in NetType /\ k \in ConnType /\ ps \in Seq(Tasks) /\ ts \in Seq(Tasks)
            /\ n = net'[c] /\ k = conn'[c] /\ ps = pool' /\ ts = taskqueue_'[LoopOf(c)']
            /\ wk = worker'
      <4>1. LoopOf(c)' \in Loops
        <5>1. conn'[c].fd \in Fds \cup {0}
          BY DEF TypeOK
        <5>. QED
          BY <5>1, LoopOfFd DEF LoopOf
      <4>. QED
        BY <4>1 DEF TypeOK, NetType, ConnType
    <3>2. Tally(n, k, ps, wk, ts, c, m) \in Nat
      <4>1. /\ Asking(n, k, ps, c, m) \in Nat /\ Hands(wk, c, m) \in Nat
            /\ Answering(ts, k, n, c, m) \in Nat
            /\ Tally(n, k, ps, wk, ts, c, m)
                 = Asking(n, k, ps, c, m) + Hands(wk, c, m) + Answering(ts, k, n, c, m)
        BY <3>1, TallySplit
      <4>. QED
        BY <4>1
    <3>. QED
      BY <3>1, <3>2, PlacesAre
  <2>. QED
    BY <2>1, <2>2, <2>3
<1>3. /\ now = was + IF Ask(c) THEN 1 ELSE 0
      /\ m \in Nat
  BY <1>2, AskedBy, ReactorAssumption DEF Requests
<1>4. /\ m > was => p = 0
      /\ m <= was => p <= 1
      /\ m <= was /\ (conn[c].stage = 0 \/ (Alive(c) /\ ~conn[c].disconnect)) => p = 1
  BY <1>2 DEF OnceInv
<1>5. \/ q = p + IF Ask(c) /\ m = was + 1 THEN 1 ELSE 0
      \/ conn'[c].disconnect /\ conn[c].stage # 0 /\ now = was /\ q <= p
  BY <1>2, Conserved
<1>6. conn[c].stage \in Nat /\ conn'[c].stage \in Nat
      /\ (conn'[c].stage = conn[c].stage \/ conn'[c].stage = conn[c].stage + 1)
  <2>1. conn[c].stage \in Nat
    BY NamedTypes DEF ConnType, Stages
  <2>. QED
    BY <2>1, StageGrows
<1>7. ASSUME conn'[c].stage = 0 \/ (Alive(c)' /\ ~conn'[c].disconnect)
      PROVE  /\ conn[c].stage = 0 \/ (Alive(c) /\ ~conn[c].disconnect)
             /\ ~(conn'[c].disconnect /\ conn[c].stage # 0)
  <2>1. CASE conn[c].stage = 0
    BY <2>1
  <2>2. CASE conn[c].stage # 0
    <3>1. Alive(c)' /\ ~conn'[c].disconnect
      BY <1>6, <1>7, <2>2
    <3>2. ~Accept(c)
      BY <2>2 DEF Accept, Backlogged
    <3>3. Alive(c)
      BY <3>1, <3>2, AliveShrinks
    <3>4. ~conn[c].disconnect
      <4>1. SUFFICES ASSUME conn[c].disconnect PROVE FALSE
        OBVIOUS
      <4>2. PICK l \in Loops : Dispatched(l, c)
        BY <2>2, <3>1, <4>1, ClosedBy
      <4>3. PICK e \in channels[l] : e[1] = c
        BY <4>2 DEF Dispatched
      <4>. QED
        BY <4>1, <4>3 DEF BatchInv
    <3>. QED
      BY <3>1, <3>3, <3>4
  <2>. QED
    BY <2>1, <2>2
<1>8. m > now => q = 0
  BY <1>3, <1>4, <1>5
<1>9. m <= now => q <= 1
  BY <1>3, <1>4, <1>5
<1>10. m <= now /\ (conn'[c].stage = 0 \/ (Alive(c)' /\ ~conn'[c].disconnect)) => q = 1
  BY <1>3, <1>4, <1>5, <1>7
<1>. QED
  BY <1>2, <1>8, <1>9, <1>10

\* OnceInv holds in every state.
LEMMA OnceHolds == Spec => []OnceInv
<1>1. Init => OnceInv
  <2>1. SUFFICES ASSUME Init, NEW c \in Conns, NEW m \in Requests
                 PROVE  Places(c, m) = 0 /\ m > net[c].asked /\ ~(m <= net[c].asked)
    BY DEF OnceInv
  <2>2. /\ net[c].asked = 0 /\ net[c].rcv = <<>> /\ net[c].got = <<>> /\ conn[c].input = <<>>
        /\ conn[c].output = <<>> /\ pool = <<>> /\ worker = [w \in Workers |-> IdleWorker]
        /\ conn[c].fd = 0 /\ taskqueue_ = [l \in Loops |-> <<>>]
    BY <2>1 DEF Init
  <2>3. taskqueue_[LoopOf(c)] = <<>>
    <3>1. 0 % ThreadNum \in Loops
      BY LoopOfFd
    <3>. QED
      BY <2>2, <3>1 DEF LoopOf
  <2>4. Hands(worker, c, m) = 0
    <3>1. {w \in Workers : HasRequest(worker[w], c, m)} = {}
      BY <2>2 DEF HasRequest, IdleWorker
    <3>2. Hands(worker, c, m) = Cardinality({})
      BY <3>1 DEF Hands
    <3>. QED
      BY <3>2, FS_EmptySet
  <2>5. Places(c, m) = 0 + 0 + 0 + 0 + 0 + 0 + 0
    <3>1. Count(<<>>, m) = 0 /\ Count(<<>>, [c |-> c, m |-> m]) = 0
      BY CountEmpty
    <3>. QED
      BY <2>1, <2>2, <2>3, <2>4, <3>1, PlacesAre DEF Tally
  <2>6. m \in Nat /\ m > 0
    BY <2>1, ReactorAssumption DEF Requests
  <2>. QED
    BY <2>2, <2>5, <2>6
<1>2. TypeOK /\ TypeOK' /\ OwnInv /\ OwnInv' /\ BatchInv /\ OnceInv /\ [Next]_vars => OnceInv'
  BY OnceKept
<1>. QED
  BY <1>1, <1>2, TypesHold, OwnHolds, BatchHolds, PTL DEF Spec

\* No request is answered twice, and none is lost as long as its connection exists and
\* is not disconnected: every hand-over between socket, inputbuffer_, pool, worker,
\* taskqueue_ and outputbuffer_ takes it out of one place and puts it into the next.
THEOREM ExactlyOnceHolds == Spec => []ExactlyOnce
<1>1. TypeOK /\ OnceInv => ExactlyOnce
  <2>1. SUFFICES ASSUME TypeOK, OnceInv, NEW c \in Conns, NEW m \in 1..net[c].asked
                 PROVE  /\ Places(c, m) <= 1
                        /\ conn[c].stage = 0 \/ (Alive(c) /\ ~conn[c].disconnect)
                             => Places(c, m) = 1
    BY DEF ExactlyOnce
  <2>2. net[c].asked \in 0..MaxRequests
    BY <2>1, NamedTypes DEF NetType
  <2>3. m \in Requests /\ m <= net[c].asked
    BY <2>1, <2>2, ReactorAssumption DEF Requests
  <2>. QED
    BY <2>1, <2>3 DEF OnceInv
<1>. QED
  BY <1>1, TypesHold, OnceHolds, PTL
-----------------------------------------------------------------------------
\* The order of the replies.

\* What is in a place is counted there.
LEMMA PlacesAtLeast ==
    ASSUME TypeOK, NEW c \in Conns, NEW m \in Requests
    PROVE  /\ Count(net[c].rcv, m) <= Places(c, m) /\ Count(conn[c].input, m) <= Places(c, m)
           /\ Count(conn[c].output, m) <= Places(c, m) /\ Count(net[c].got, m) <= Places(c, m)
           /\ Count(taskqueue_[LoopOf(c)], [c |-> c, m |-> m]) + Count(net[c].got, m)
                <= Places(c, m)
           /\ Count(pool, [c |-> c, m |-> m]) <= Places(c, m)
           /\ Hands(worker, c, m) <= Places(c, m)
<1>1. PICK n, a, b, d, e, f, g : /\ n = Count(net[c].rcv, m) /\ a = Count(conn[c].input, m)
                                 /\ b = Count(pool, [c |-> c, m |-> m])
                                 /\ d = Hands(worker, c, m)
                                 /\ e = Count(taskqueue_[LoopOf(c)], [c |-> c, m |-> m])
                                 /\ f = Count(conn[c].output, m) /\ g = Count(net[c].got, m)
  OBVIOUS
<1>2. /\ n \in Nat /\ a \in Nat /\ b \in Nat /\ d \in Nat /\ e \in Nat /\ f \in Nat /\ g \in Nat
  BY <1>1, LoopOfType, TallyType
<1>3. PICK p : p = n + a + b + d + e + f + g
  OBVIOUS
<1>4. n <= p /\ a <= p /\ f <= p /\ g <= p /\ e + g <= p /\ b <= p /\ d <= p
  BY <1>2, <1>3
<1>5. p = Places(c, m)
  BY <1>1, <1>3, PlacesAre DEF Tally
<1>. QED
  BY <1>1, <1>4, <1>5

\* What a step can do to the requests of c: nothing, or one of the moves on their way.
Untouched(c) ==
    /\ net'[c].rcv = net[c].rcv /\ net'[c].got = net[c].got
    /\ conn'[c].input = conn[c].input /\ conn'[c].output = conn[c].output
    /\ conn'[c].disconnect = conn[c].disconnect
    /\ UNCHANGED <<pool, worker, taskqueue_>>
Reads(d, c) ==
    /\ net'[c].got = net[c].got /\ conn'[c].output = conn[c].output
    /\ conn'[c].disconnect = conn[c].disconnect
    /\ UNCHANGED <<worker, taskqueue_>>
    /\ pool' = HandleMessages(d, conn[d].input \o net[d].rcv)
    /\ d = c => net'[c].rcv = <<>> /\ conn'[c].input = <<>>
    /\ d # c => net'[c].rcv = net[c].rcv /\ conn'[c].input = conn[c].input
Writes(n, c) ==
    /\ net'[c].rcv = net[c].rcv /\ conn'[c].input = conn[c].input
    /\ conn'[c].disconnect = conn[c].disconnect /\ ~conn[c].disconnect
    /\ UNCHANGED <<pool, worker, taskqueue_>>
    /\ net'[c].got = net[c].got \o SubSeq(conn[c].output, 1, n)
    /\ conn'[c].output = Erased(conn[c].output, n)
Sends(l, c) ==
    /\ net'[c].rcv = net[c].rcv /\ net'[c].got = net[c].got
    /\ conn'[c].input = conn[c].input /\ conn'[c].disconnect = conn[c].disconnect
    /\ UNCHANGED <<pool, worker>>
    /\ taskqueue_[l] # <<>> /\ taskqueue_' = [taskqueue_ EXCEPT ![l] = Tail(@)]
    /\ conn'[c].output = IF Head(taskqueue_[l]).c = c
                         THEN Append(conn[c].output, Head(taskqueue_[l]).m) ELSE conn[c].output

\* Closing ends it.
LEMMA CloseMoves ==
    ASSUME TypeOK, NEW l \in Loops, NEW d \in Conns, NEW cb, NEW input,
           CloseConnection(l, d, cb, input), NEW c \in Conns
    PROVE  \/ Untouched(c)
           \/ conn'[c].disconnect /\ net'[c].got = net[c].got
<1>1. conn \in [Conns -> ConnType] /\ net \in [Conns -> NetType]
  BY NamedTypes
<1>2. CASE Dead
  BY <1>2 DEF Dead, Untouched, workVars, loopVars
<1>3. CASE /\ conn' = [conn EXCEPT ![d] = [Removed(conn[d]) EXCEPT !.input = input]]
           /\ net' = [net EXCEPT ![d].rcv = <<>>]
           /\ UNCHANGED <<pool, worker, taskqueue_>>
  <2>1. PICK k \in ConnType : k = conn[d]
    BY <1>1
  <2>2. PICK r : r = [Removed(k) EXCEPT !.input = input]
    OBVIOUS
  <2>3. r.disconnect
    BY <2>2, RemovedIs
  <2>4. conn' = [conn EXCEPT ![d] = r]
    BY <1>3, <2>1, <2>2
  <2>5. CASE c = d
    <3>1. net'[c].got = net[c].got
      BY <1>1, <1>3, <2>5 DEF NetType
    <3>2. conn'[c] = r
      BY <1>1, <2>4, <2>5
    <3>. QED
      BY <2>3, <3>1, <3>2, Zenon
  <2>6. CASE c # d
    <3>1. conn'[c] = conn[c] /\ net'[c] = net[c]
      BY <1>1, <1>3, <2>4, <2>6
    <3>. QED
      BY <1>3, <3>1 DEF Untouched, workVars
  <2>. QED
    BY <2>5, <2>6
<1>4. Dead \/ (/\ conn' = [conn EXCEPT ![d] = [Removed(conn[d]) EXCEPT !.input = input]]
                /\ net' = [net EXCEPT ![d].rcv = <<>>]
                /\ UNCHANGED <<pool, worker, taskqueue_>>)
  BY DEF CloseConnection, Die, Dead, workVars
<1>. QED
  BY <1>2, <1>3, <1>4, Zenon

\* Reading hands over what there is.
LEMMA ReadMoves ==
    ASSUME TypeOK, NEW l \in Loops, NEW d \in Conns, ReadMessages(l, d), NEW c \in Conns
    PROVE  Untouched(c) \/ Reads(d, c)
<1>1. conn \in [Conns -> ConnType] /\ net \in [Conns -> NetType]
  BY NamedTypes
<1>2. CASE Dead
  BY <1>2 DEF Dead, Untouched, workVars, loopVars
<1>3. CASE ~Dead
  <2>1. /\ net' = [net EXCEPT ![d].rcv = <<>>]
        /\ pool' = HandleMessages(d, conn[d].input \o net[d].rcv)
        /\ UNCHANGED <<worker, taskqueue_>>
    BY <1>3, ReadEffect
  <2>2. PICK b, k : /\ b \in BOOLEAN /\ conn' = [conn EXCEPT ![d] = k]
                    /\ k = [conn[d] EXCEPT !.input = <<>>, !.idle = conn[d].idle /\ b]
    BY <1>3, ReadEffect, ZenonT(60)
  <2>3. k.disconnect = conn[d].disconnect /\ k.output = conn[d].output /\ k.input = <<>>
    BY <1>1, <2>2 DEF ConnType
  <2>4. CASE c = d
    <3>1. net'[c].got = net[c].got /\ net'[c].rcv = <<>>
      BY <1>1, <2>1, <2>4 DEF NetType
    <3>2. conn'[c] = k
      BY <1>1, <2>2, <2>4
    <3>. QED
      BY <2>1, <2>3, <2>4, <3>1, <3>2 DEF Reads
  <2>5. CASE c # d
    <3>1. conn'[c] = conn[c] /\ net'[c] = net[c]
      BY <1>1, <2>1, <2>2, <2>5
    <3>. QED
      BY <2>1, <2>5, <3>1 DEF Reads
  <2>. QED
    BY <2>4, <2>5
<1>. QED
  BY <1>2, <1>3

\* Writing moves replies to the client.
LEMMA WriteMoves ==
    ASSUME TypeOK, BatchInv, NEW l \in Loops, NEW d \in Conns, Write(l, d), NEW c \in Conns
    PROVE  Untouched(c) \/ \E n \in 0..Len(conn[c].output) : Writes(n, c)
<1>1. conn \in [Conns -> ConnType] /\ net \in [Conns -> NetType]
  BY NamedTypes
<1>2. CASE Dead
  BY <1>2 DEF Dead, Untouched, workVars, loopVars
<1>3. CASE ~Dead
  <2>1. UNCHANGED <<pool, worker, taskqueue_>>
    BY <1>3, WriteEffect DEF workVars
  <2>2. PICK n \in 0..Len(conn[d].output), k \in ConnType :
          /\ net' = [net EXCEPT ![d].got = net[d].got \o SubSeq(conn[d].output, 1, n)]
          /\ conn' = [conn EXCEPT ![d] = k]
          /\ k.disconnect = conn[d].disconnect /\ k.input = conn[d].input
          /\ k.output = Erased(conn[d].output, n)
    BY <1>3, WriteEffect, Zenon
  <2>3. CASE c = d
    <3>1. /\ net'[c].got = net[c].got \o SubSeq(conn[c].output, 1, n)
          /\ net'[c].rcv = net[c].rcv
      BY <1>1, <2>2, <2>3 DEF NetType
    <3>2. conn'[c] = k
      BY <1>1, <2>2, <2>3
    <3>3. ~conn[c].disconnect
      <4>1. Branch(l, d, "OUT")
        BY DEF Write
      <4>2. PICK e \in channels[l] : e[1] = d
        BY <4>1, Zenon DEF Branch
      <4>. QED
        BY <2>3, <4>2, Zenon DEF BatchInv
    <3>4. Writes(n, c)
      BY <2>1, <2>2, <2>3, <3>1, <3>2, <3>3 DEF Writes
    <3>. QED
      BY <2>2, <2>3, <3>4
  <2>4. CASE c # d
    <3>1. conn'[c] = conn[c] /\ net'[c] = net[c]
      BY <1>1, <2>2, <2>4
    <3>. QED
      BY <2>1, <3>1 DEF Untouched
  <2>. QED
    BY <2>3, <2>4
<1>. QED
  BY <1>2, <1>3

\* A task of the loop moves its reply to outputbuffer_.
LEMMA SendMoves ==
    ASSUME TypeOK, NEW l \in Loops, SendInLoop(l), NEW c \in Conns
    PROVE  Untouched(c) \/ Sends(l, c)
<1>1. conn \in [Conns -> ConnType]
  BY NamedTypes
<1>2. CASE Dead
  BY <1>2 DEF Dead, Untouched, workVars, loopVars
<1>3. CASE ~Dead
  <2>1. PICK task \in Tasks :
          /\ taskqueue_[l] # <<>> /\ task = Head(taskqueue_[l])
          /\ conn' = [conn EXCEPT ![task.c] = Queued(conn[task.c], task.m)]
          /\ taskqueue_' = [taskqueue_ EXCEPT ![l] = Tail(@)]
          /\ UNCHANGED <<net, workVars>>
    BY <1>3, SendEffect, Zenon
  <2>2. PICK d \in Conns, m \in Requests, k \in ConnType : d = task.c /\ m = task.m /\ k = conn[d]
    BY <1>1 DEF Tasks
  <2>3. PICK r : r = Queued(k, m)
    OBVIOUS
  <2>4. r.disconnect = k.disconnect /\ r.input = k.input /\ r.output = Append(k.output, m)
    BY <2>3, QueuedIs
  <2>5. conn' = [conn EXCEPT ![d] = r]
    BY <2>1, <2>2, <2>3
  <2>6. CASE c = d
    <3>1. conn'[c] = r
      BY <1>1, <2>5, <2>6
    <3>. QED
      BY <2>1, <2>2, <2>4, <2>6, <3>1 DEF Sends, workVars
  <2>7. CASE c # d
    <3>1. conn'[c] = conn[c]
      BY <1>1, <2>5, <2>7
    <3>. QED
      BY <2>1, <2>2, <2>7, <3>1 DEF Sends, workVars
  <2>. QED
    BY <2>6, <2>7
<1>. QED
  BY <1>2, <1>3

\* Main and the environment, but for the client's asking, touch nothing.
LEMMA OtherMoves ==
    ASSUME TypeOK, OwnInv, MainThread \/ Environment, NEW c \in Conns, ~Ask(c)
    PROVE  Untouched(c)
<1>1. conn \in [Conns -> ConnType] /\ net \in [Conns -> NetType]
  BY NamedTypes
<1>2. UNCHANGED <<pool, worker, taskqueue_>>
  BY DEF MainThread, Accept, AcceptFails, Die, NewConnection, Environment, Connect, Ask, Leave,
     GoIdle, TimerExpires, workVars, loopVars
<1>3. ASSUME NEW d \in Conns, Accept(d) PROVE Untouched(c)
  <2>1. PICK k \in ConnType : k = conn[d]
    BY <1>1
  <2>2. ConnOk(k) /\ k.stage = 0
    BY <1>3, <2>1 DEF OwnInv, ConnInv, Accept, Backlogged
  <2>3. AcceptedFd \in Fds
    BY <2>1, <2>2, AcceptedFdIsFree, FdsAre DEF ConnOk
  <2>4. PICK r : r = Constructed(k, AcceptedFd)
    OBVIOUS
  <2>5. r.input = <<>> /\ r.output = <<>> /\ ~r.disconnect
    BY <2>2, <2>3, <2>4, ConstructedOk
  <2>6. r.disconnect = FALSE
    <3>1. r \in ConnType
      BY <2>3, <2>4, ConstructedType
    <3>. QED
      BY <2>5, <3>1 DEF ConnType
  <2>7. k.disconnect = FALSE /\ k.input = <<>> /\ k.output = <<>>
    BY <2>2 DEF ConnOk, ConnType
  <2>8. conn' = [conn EXCEPT ![d] = r] /\ UNCHANGED net
    BY <1>3, <2>1, <2>4 DEF Accept
  <2>9. CASE c = d
    <3>1. conn'[c] = r /\ conn[c] = k
      BY <1>1, <2>1, <2>8, <2>9
    <3>. QED
      BY <1>2, <2>5, <2>6, <2>7, <2>8, <3>1 DEF Untouched
  <2>10. CASE c # d
    <3>1. conn'[c] = conn[c]
      BY <1>1, <2>8, <2>10
    <3>. QED
      BY <1>2, <2>8, <3>1 DEF Untouched
  <2>. QED
    BY <2>9, <2>10
<1>4. ASSUME NEW d \in Conns, NewConnection(d) \/ GoIdle(d) PROVE Untouched(c)
  <2>1. UNCHANGED net
    BY <1>4 DEF NewConnection, GoIdle
  <2>2. PICK k \in ConnType : k = conn[d]
    BY <1>1
  <2>3. PICK r : /\ r \in {[k EXCEPT !.stage = @ + 1], [k EXCEPT !.idle = TRUE]}
                 /\ conn' = [conn EXCEPT ![d] = r]
    BY <1>4, <2>2 DEF NewConnection, GoIdle
  <2>4. r.input = k.input /\ r.output = k.output /\ r.disconnect = k.disconnect
    BY <2>3 DEF ConnType
  <2>5. /\ conn'[c].input = conn[c].input /\ conn'[c].output = conn[c].output
        /\ conn'[c].disconnect = conn[c].disconnect
    <3>1. CASE c = d
      <4>1. conn'[c] = r
        BY <1>1, <2>3, <3>1
      <4>. QED
        BY <2>2, <2>4, <3>1, <4>1
    <3>2. CASE c # d
      <4>1. conn'[c] = conn[c]
        BY <1>1, <2>3, <3>2
      <4>. QED
        BY <4>1
    <3>. QED
      BY <3>1, <3>2
  <2>. QED
    BY <1>2, <2>1, <2>5 DEF Untouched
<1>5. ASSUME NEW d \in Conns, Connect(d) \/ Leave(d) PROVE Untouched(c)
  <2>1. UNCHANGED conn
    BY <1>5 DEF Connect, Leave
  <2>2. PICK how : net' = [net EXCEPT ![d].peer = how]
    BY <1>5 DEF Connect, Leave
  <2>3. net'[c].rcv = net[c].rcv /\ net'[c].got = net[c].got
    BY <1>1, <2>2 DEF NetType
  <2>. QED
    BY <1>2, <2>1, <2>3 DEF Untouched
<1>6. ASSUME NEW d \in Conns, Ask(d) PROVE Untouched(c)
  <2>1. d # c
    BY <1>6
  <2>2. UNCHANGED conn /\ net'[c] = net[c]
    BY <1>1, <1>6, <2>1 DEF Ask
  <2>. QED
    BY <1>2, <2>2 DEF Untouched
<1>7. CASE AcceptFails \/ \E l \in Loops : TimerExpires(l)
  <2>1. UNCHANGED <<conn, net>>
    BY <1>7 DEF AcceptFails, Die, TimerExpires
  <2>. QED
    BY <1>2, <2>1 DEF Untouched
<1>. QED
  BY <1>3, <1>4, <1>5, <1>6, <1>7 DEF MainThread, Environment

\* All steps.
LEMMA Moves ==
    ASSUME TypeOK, OwnInv, BatchInv, [Next]_vars, NEW c \in Conns
    PROVE  \/ Untouched(c) \/ Ask(c) \/ (conn'[c].disconnect /\ net'[c].got = net[c].got)
           \/ \E d \in Conns : Reads(d, c)
           \/ \E n \in 0..Len(conn[c].output) : Writes(n, c)
           \/ \E l \in Loops : Sends(l, c)
           \/ \E w \in Workers : WorkThread(w)
<1>1. ASSUME NEW l \in Loops, NEW d \in Conns, ReadClose(l, d) \/ Error(l, d)
      PROVE  Untouched(c) \/ (conn'[c].disconnect /\ net'[c].got = net[c].got)
  BY <1>1, CloseMoves DEF ReadClose, Error
<1>2. ASSUME NEW l \in Loops,
             \/ Poll(l) \/ EndOfBatch(l) \/ DispatchDangling(l) \/ HandleWakeup(l)
             \/ EndOfDrain(l) \/ HandleTimer(l) \/ Sweep(l)
      PROVE  Untouched(c)
  <2>1. UNCHANGED <<conn, net, pool, worker, taskqueue_>>
    BY <1>2 DEF Poll, EndOfBatch, DispatchDangling, Die, HandleWakeup, EndOfDrain,
         HandleTimer, Sweep, SweepNext, SweepIdle, RemoveExpired, SweepOn, SpinEnds, workVars, loopVars
  <2>. QED
    BY <2>1 DEF Untouched
<1>3. CASE UNCHANGED vars
  BY <1>3 DEF vars, workVars, loopVars, Untouched
<1>4. ASSUME NEW l \in Loops, IOThread(l)
      PROVE  \/ Untouched(c) \/ (conn'[c].disconnect /\ net'[c].got = net[c].got)
             \/ \E d \in Conns : Reads(d, c)
             \/ \E n \in 0..Len(conn[c].output) : Writes(n, c)
             \/ Sends(l, c)
  BY <1>1, <1>2, <1>4, ReadMoves, WriteMoves, SendMoves, ZenonT(60) DEF IOThread
<1>. QED
  BY <1>3, <1>4, OtherMoves, ZenonT(60) DEF Next

\* What is in the receive buffer, the pool or the workers' hands has been asked.
LEMMA AllAsked ==
    ASSUME TypeOK, OnceInv, NEW c \in Conns
    PROVE  /\ \A i \in 1..Len(net[c].rcv) : net[c].rcv[i] <= net[c].asked
           /\ \A i \in 1..Len(pool) : pool[i].c = c => pool[i].m <= net[c].asked
           /\ \A w \in Workers : Holding(worker[w], c) => worker[w].m \in 1..net[c].asked
<1>1. PICK a \in Nat : a = net[c].asked
  BY NamedTypes, ReactorAssumption DEF NetType
<1>2. ASSUME NEW m \in Requests, Places(c, m) >= 1 PROVE m \in 1..a
  <2>1. Places(c, m) # 0 /\ m \in Nat /\ m >= 1
    BY <1>2, PlacesType, ReactorAssumption DEF Requests
  <2>2. ~(m > a)
    BY <1>1, <2>1 DEF OnceInv
  <2>. QED
    BY <1>1, <2>1, <2>2
<1>3. ASSUME NEW i \in 1..Len(net[c].rcv) PROVE net[c].rcv[i] <= a
  <2>1. PICK r \in Seq(Requests) : r = net[c].rcv
    BY NamedTypes DEF NetType
  <2>2. PICK m \in Requests : m = r[i]
    BY <1>3, <2>1, ElementOfSeq
  <2>3. Count(r, m) >= 1
    BY <1>3, <2>1, <2>2, CountAt
  <2>4. Places(c, m) >= 1
    <3>1. PICK n : n = Count(net[c].rcv, m)
      OBVIOUS
    <3>2. n \in Nat /\ n <= Places(c, m) /\ Places(c, m) \in Nat
      <4>1. n \in Nat
        BY <3>1, TallyType
      <4>2. n <= Places(c, m)
        BY <3>1, PlacesAtLeast
      <4>. QED
        BY <4>1, <4>2, PlacesType
    <3>. QED
      BY <2>1, <2>3, <3>1, <3>2
  <2>5. m \in 1..a
    BY <1>2, <2>4
  <2>. QED
    BY <1>1, <2>1, <2>2, <2>5
<1>4. ASSUME NEW i \in 1..Len(pool), pool[i].c = c PROVE pool[i].m <= a
  <2>1. PICK p \in Seq(Tasks) : p = pool
    BY DEF TypeOK
  <2>2. PICK task \in Tasks : task = p[i]
    BY <1>4, <2>1, ElementOfSeq
  <2>3. PICK m \in Requests : m = task.m /\ task = [c |-> c, m |-> m]
    BY <1>4, <2>1, <2>2 DEF Tasks
  <2>4. Count(p, task) >= 1
    BY <1>4, <2>1, <2>2, CountAt
  <2>5. Places(c, m) >= 1
    <3>1. PICK n : n = Count(pool, [c |-> c, m |-> m])
      OBVIOUS
    <3>2. n >= 1
      BY <2>1, <2>3, <2>4, <3>1
    <3>3. n \in Nat /\ n <= Places(c, m) /\ Places(c, m) \in Nat
      <4>1. n \in Nat
        BY <3>1, TallyType
      <4>2. n <= Places(c, m)
        BY <3>1, PlacesAtLeast
      <4>. QED
        BY <4>1, <4>2, PlacesType
    <3>. QED
      BY <3>2, <3>3
  <2>6. m \in 1..a
    BY <1>2, <2>5
  <2>. QED
    BY <1>1, <2>1, <2>2, <2>3, <2>6
<1>5. ASSUME NEW w \in Workers, Holding(worker[w], c) PROVE worker[w].m \in 1..a
  <2>1. worker[w] \in [at : {"check", "queue", "done"}, c : Conns, m : Requests]
    BY <1>5 DEF TypeOK, Holding, IdleWorker
  <2>2. PICK m \in Requests : m = worker[w].m /\ HasRequest(worker[w], c, m)
    BY <1>5, <2>1 DEF Holding, HasRequest
  <2>3. Places(c, m) >= 1
    <3>1. PICK n : n = Hands(worker, c, m)
      OBVIOUS
    <3>2. n \in Nat /\ n <= Places(c, m) /\ Places(c, m) \in Nat
      <4>1. n \in Nat
        BY <3>1, TallyType
      <4>2. n <= Places(c, m)
        BY <3>1, PlacesAtLeast
      <4>. QED
        BY <4>1, <4>2, PlacesType
    <3>3. n >= 1
      <4>1. PICK k \in Nat :
              k = Cardinality({v \in Workers \ {w} : HasRequest(worker[v], c, m)})
        BY HandsOf
      <4>2. Hands(worker, c, m) = k + IF HasRequest(worker[w], c, m) THEN 1 ELSE 0
        BY <4>1, HandsOf
      <4>. QED
        BY <2>2, <3>1, <4>1, <4>2
    <3>. QED
      BY <3>2, <3>3
  <2>. QED
    BY <1>2, <2>2, <2>3
<1>. QED
  BY <1>1, <1>3, <1>4, <1>5

\* Until it is closed, the requests of a connection are taken in the order they were made.
WaitInv ==
    \A c \in Conns :
      ~conn[c].disconnect => conn[c].input = <<>> /\ Ordered(pool, worker, net[c].rcv, c)

\* The client, the IO thread that reads and the workers keep this order.
LEMMA WaitKept ==
    ASSUME TypeOK, OwnInv, BatchInv, OnceInv, WaitInv, [Next]_vars
    PROVE  WaitInv'
<1>1. SUFFICES ASSUME NEW c \in Conns, ~conn'[c].disconnect
               PROVE  conn'[c].input = <<>> /\ Ordered(pool', worker', net'[c].rcv, c)
  BY DEF WaitInv
<1>2. PICK r \in Seq(Requests), p \in Seq(Tasks) : r = net[c].rcv /\ p = pool
  BY NamedTypes DEF TypeOK, NetType
<1>3. ~conn[c].disconnect => conn[c].input = <<>> /\ Ordered(p, worker, r, c)
  BY <1>2 DEF WaitInv
<1>4. CASE Untouched(c)
  BY <1>1, <1>2, <1>3, <1>4 DEF Untouched
<1>5. CASE Ask(c)
  <2>1. UNCHANGED <<conn, pool, worker>>
    BY <1>5 DEF Ask, workVars
  <2>2. PICK a : a = net[c].asked + 1
    OBVIOUS
  <2>3. net'[c].rcv = Append(r, a)
    BY <1>2, <1>5, <2>2, NamedTypes DEF Ask, NetType
  <2>4. a \in Requests
    BY <1>5, <2>2, AskedBound, NamedTypes, ReactorAssumption DEF Ask, Requests, NetType
  <2>5. /\ \A i \in 1..Len(r) : r[i] < a
        /\ \A i \in 1..Len(p) : p[i].c = c => p[i].m < a
        /\ \A w \in Workers : Holding(worker[w], c) => worker[w].m < a
    <3>1. PICK b \in Nat : b = net[c].asked
      BY NamedTypes, ReactorAssumption DEF NetType
    <3>2. /\ \A i \in 1..Len(r) : r[i] <= b /\ r[i] \in Nat
          /\ \A i \in 1..Len(p) : p[i].m \in Nat /\ (p[i].c = c => p[i].m <= b)
          /\ \A w \in Workers : Holding(worker[w], c) => worker[w].m \in 1..b
      <4>1. Requests \subseteq Nat
        BY ReactorAssumption DEF Requests
      <4>2. (\A i \in 1..Len(r) : r[i] \in Requests) /\ \A i \in 1..Len(p) : p[i] \in Tasks
        BY ElementOfSeq
      <4>3. \A i \in 1..Len(p) : p[i].m \in Requests
        BY <4>2 DEF Tasks
      <4>. QED
        BY <1>2, <3>1, <4>1, <4>2, <4>3, AllAsked
    <3>. QED
      BY <2>2, <3>1, <3>2
  <2>6. Ordered(p, worker, Append(r, a), c)
    BY <1>1, <1>3, <2>1, <2>4, <2>5, OrderedAsk
  <2>. QED
    BY <1>1, <1>2, <1>3, <2>1, <2>3, <2>6
<1>6. ASSUME NEW d \in Conns, Reads(d, c)
      PROVE  conn'[c].input = <<>> /\ Ordered(pool', worker', net'[c].rcv, c)
  <2>1. conn[c].input = <<>> /\ Ordered(p, worker, r, c) /\ worker' = worker
    BY <1>1, <1>3, <1>6 DEF Reads
  <2>2. PICK msgs : msgs = conn[d].input \o net[d].rcv
    OBVIOUS
  <2>3. PICK q : q = HandleMessages(d, msgs) /\ pool' = q
    BY <1>6, <2>2 DEF Reads
  <2>4. msgs \in Seq(Requests)
    BY <2>2, NamedTypes, ConcatProperties DEF ConnType, NetType
  <2>5. /\ Len(q) = Len(p) + Len(msgs) /\ \A i \in 1..Len(p) : q[i] = p[i]
        /\ \A i \in 1..Len(msgs) : q[Len(p) + i] = [c |-> d, m |-> msgs[i]]
    BY <1>2, <2>3, <2>4, HandedTasks
  <2>6. CASE d = c
    <3>1. msgs = r
      BY <1>2, <2>1, <2>2, <2>6, ConcatEmptySeq
    <3>2. Ordered(q, worker, <<>>, c)
      BY <2>1, <2>5, <2>6, <3>1, OrderedRead
    <3>. QED
      BY <1>6, <2>1, <2>3, <2>6, <3>2 DEF Reads
  <2>7. CASE d # c
    <3>1. ASSUME NEW i \in 1..Len(q), q[i].c = c PROVE i \in 1..Len(p) /\ q[i] = p[i]
      <4>1. PICK n \in Nat, k \in Nat : n = Len(p) /\ k = Len(msgs)
        BY <2>4, LenProperties
      <4>2. i \notin 1..n => i - n \in 1..k /\ i = n + (i - n)
        BY <2>5, <3>1, <4>1
      <4>3. \A j \in 1..k : q[n + j].c = d
        <5>1. ASSUME NEW j \in 1..k PROVE q[n + j].c = d
          <6>1. q[n + j] = [c |-> d, m |-> msgs[j]]
            BY <2>5, <4>1
          <6>2. PICK x : x = msgs[j]
            OBVIOUS
          <6>. QED
            BY <6>1, <6>2
        <5>. QED
          BY <5>1
      <4>4. i \in 1..n
        BY <2>7, <3>1, <4>2, <4>3
      <4>. QED
        BY <2>5, <4>1, <4>4
    <3>2. Ordered(q, worker, r, c)
      BY <2>1, <3>1, OrderedOther
    <3>. QED
      BY <1>2, <1>6, <2>1, <2>3, <2>7, <3>2 DEF Reads
  <2>. QED
    BY <2>6, <2>7
<1>7. ASSUME \/ \E n \in 0..Len(conn[c].output) : Writes(n, c)
             \/ \E l \in Loops : Sends(l, c)
      PROVE  conn'[c].input = <<>> /\ Ordered(pool', worker', net'[c].rcv, c)
  BY <1>1, <1>2, <1>3, <1>7 DEF Writes, Sends
<1>8. ASSUME NEW w \in Workers, WorkThread(w)
      PROVE  conn'[c].input = <<>> /\ Ordered(pool', worker', net'[c].rcv, c)
  <2>1. UNCHANGED <<conn, net>>
    BY <1>8 DEF WorkThread, TakeTask, SendCheck, SendQueue, Release
  <2>2. conn[c].input = <<>> /\ Ordered(p, worker, r, c)
    BY <1>1, <1>3, <2>1
  <2>3. worker \in [Workers -> [at : {"check", "queue", "done"}, c : Conns, m : Requests]
                               \cup {IdleWorker}]
    BY DEF TypeOK
  <2>4. PICK wk : wk = worker'
    OBVIOUS
  <2>5. CASE TakeTask(w)
    <3>1. PICK task \in Tasks : task = p[1] /\ task = Head(p) /\ p # <<>>
      <4>1. p # <<>> /\ Head(p) = p[1] /\ 1 \in 1..Len(p)
        BY <1>2, <2>5, PoppedTasks DEF TakeTask
      <4>. QED
        BY <4>1, ElementOfSeq
    <3>2. wk = [worker EXCEPT ![w] = [at |-> "check", c |-> task.c, m |-> task.m]]
      BY <1>2, <2>4, <2>5, <3>1 DEF TakeTask
    <3>3. (\A v \in Workers \ {w} : wk[v] = worker[v]) /\ wk[w].c = p[1].c /\ wk[w].m = p[1].m
      BY <2>3, <3>1, <3>2
    <3>4. Ordered(Tail(p), wk, r, c)
      BY <2>2, <3>1, <3>3, OrderedTake
    <3>. QED
      BY <1>2, <2>1, <2>2, <2>4, <2>5, <3>4 DEF TakeTask
  <2>6. CASE SendCheck(w) \/ SendQueue(w) \/ Release(w)
    <3>1. pool' = pool
      BY <2>6 DEF SendCheck, SendQueue, Release
    <3>2. \A v \in Workers : Holding(wk[v], c) => Holding(worker[v], c) /\ wk[v].m = worker[v].m
      <4>1. CASE SendCheck(w)
        <5>1. PICK at : wk = [worker EXCEPT ![w].at = at] /\ worker[w].at = "check"
          BY <2>4, <4>1 DEF SendCheck
        <5>2. worker[w] \in [at : {"check", "queue", "done"}, c : Conns, m : Requests]
          BY <2>3, <5>1 DEF IdleWorker
        <5>3. wk[w].c = worker[w].c /\ wk[w].m = worker[w].m
          BY <2>3, <5>1, <5>2
        <5>4. \A v \in Workers \ {w} : wk[v] = worker[v]
          BY <2>3, <5>1
        <5>. QED
          BY <5>1, <5>3, <5>4 DEF Holding
      <4>2. CASE SendQueue(w)
        <5>1. wk = [worker EXCEPT ![w].at = "done"] /\ worker[w].at = "queue"
          BY <2>4, <4>2 DEF SendQueue
        <5>2. worker[w] \in [at : {"check", "queue", "done"}, c : Conns, m : Requests]
          BY <2>3, <5>1 DEF IdleWorker
        <5>3. wk[w].at = "done"
          BY <2>3, <5>1, <5>2
        <5>4. \A v \in Workers \ {w} : wk[v] = worker[v]
          BY <2>3, <5>1
        <5>. QED
          BY <5>3, <5>4 DEF Holding
      <4>3. CASE Release(w)
        <5>1. wk[w].at = "idle" /\ \A v \in Workers \ {w} : wk[v] = worker[v]
          BY <2>3, <2>4, <4>3 DEF Release, IdleWorker
        <5>. QED
          BY <5>1 DEF Holding
      <4>. QED
        BY <2>6, <4>1, <4>2, <4>3
    <3>3. Ordered(p, wk, r, c)
      BY <2>2, <3>2, OrderedHands
    <3>. QED
      BY <1>2, <2>1, <2>2, <2>4, <3>1, <3>3
  <2>. QED
    BY <1>8, <2>5, <2>6 DEF WorkThread
<1>. QED
  BY <1>1, <1>4, <1>5, <1>6, <1>7, <1>8, Moves, Zenon

\* WaitInv holds in every state.
LEMMA WaitHolds == Spec => []WaitInv
<1>1. Init => WaitInv
  BY DEF Init, WaitInv, Ordered, Rising, RisingTasks, TasksBefore, Holding, IdleWorker
<1>2. TypeOK /\ OwnInv /\ BatchInv /\ OnceInv /\ WaitInv /\ [Next]_vars => WaitInv'
  BY WaitKept
<1>. QED
  BY <1>1, <1>2, TypesHold, OwnHolds, BatchHolds, OnceHolds, PTL DEF Spec

\* Of the requests before one that a worker is about to answer, those whose replies have
\* not been queued yet are in the hands of other workers.
LEMMA HandsBound ==
    ASSUME TypeOK, OwnInv, OnceInv, WaitInv, NEW w \in Workers, NEW c \in Conns,
           Holding(worker[w], c), ~conn[c].disconnect
    PROVE  LET q == taskqueue_[LoopOf(c)] IN
           FewMissing(worker[w].m, Upto(net[c].got, Len(net[c].got))
                                     \cup Upto(conn[c].output, Len(conn[c].output))
                                     \cup TasksUpto(q, Len(q), c))
<1>1. PICK r \in Seq(Requests), g \in Seq(Requests), o \in Seq(Requests), p \in Seq(Tasks),
           q \in Seq(Tasks) :
        /\ r = net[c].rcv /\ g = net[c].got /\ o = conn[c].output /\ p = pool
        /\ q = taskqueue_[LoopOf(c)]
  BY NamedTypes, LoopOfType DEF TypeOK, NetType, ConnType
<1>2. PICK a, m : a \in Nat /\ a = net[c].asked /\ m = worker[w].m
  BY NamedTypes, ReactorAssumption DEF NetType
<1>3. m \in 1..a
  BY <1>2, AllAsked
<1>4. conn[c].input = <<>> /\ BeforeAll(m, p, r, c)
  BY <1>1, <1>2 DEF WaitInv, Ordered
<1>5. Alive(c)
  BY DEF Alive, Holding
<1>6. PICK S : S = Upto(g, Len(g)) \cup Upto(o, Len(o)) \cup TasksUpto(q, Len(q), c)
  OBVIOUS
<1>7. ASSUME NEW k \in 1..(m - 1) \ S PROVE \E v \in Workers \ {w} : worker[v].m = k
  <2>1. k \in Nat /\ k \in Requests /\ k <= a /\ k < m
    <3>1. k \in 1..(m - 1) /\ m \in Nat /\ m <= a /\ a \in Nat
      BY <1>2, <1>3, <1>7
    <3>2. k \in Nat /\ k >= 1 /\ k < m /\ k <= a
      BY <3>1
    <3>3. a <= MaxRequests /\ MaxRequests \in Nat
      BY <1>2, NamedTypes, ReactorAssumption DEF NetType
    <3>4. k \in 1..MaxRequests
      BY <3>1, <3>2, <3>3
    <3>. QED
      BY <3>2, <3>4 DEF Requests
  <2>2. Places(c, k) = 1
    BY <1>2, <1>5, <2>1 DEF OnceInv
  <2>3. PICK task : task = [c |-> c, m |-> k]
    OBVIOUS
  <2>4. task.c = c /\ task.m = k
    BY <2>3
  <2>5. Count(g, k) = 0 /\ Count(o, k) = 0
    <3>1. (\A i \in 1..Len(g) : g[i] # k) /\ \A i \in 1..Len(o) : o[i] # k
      BY <1>6, <1>7 DEF Upto
    <3>. QED
      BY <3>1, CountNone
  <2>6. Count(q, task) = 0
    <3>1. \A i \in 1..Len(q) : q[i] # task
      BY <1>6, <1>7, <2>4 DEF TasksUpto
    <3>. QED
      BY <3>1, CountNone
  <2>7. Count(p, task) = 0
    <3>1. \A i \in 1..Len(p) : p[i].c = c => m < p[i].m
      BY <1>4 DEF BeforeAll
    <3>2. ~(m < k)
      BY <1>3, <2>1
    <3>3. \A i \in 1..Len(p) : p[i] # task
      BY <2>4, <3>1, <3>2
    <3>. QED
      BY <3>3, CountNone
  <2>8. Count(r, k) = 0
    <3>1. \A i \in 1..Len(r) : m < r[i]
      BY <1>4 DEF BeforeAll
    <3>2. ~(m < k)
      BY <1>3, <2>1
    <3>3. \A i \in 1..Len(r) : r[i] # k
      BY <3>1, <3>2
    <3>. QED
      BY <3>3, CountNone
  <2>9. Count(conn[c].input, k) = 0
    <3>1. <<>> \in Seq(Requests) /\ \A i \in 1..Len(<<>>) : <<>>[i] # k
      BY EmptySeq
    <3>2. Count(<<>>, k) = 0
      BY <3>1, CountNone
    <3>. QED
      BY <1>4, <3>2
  <2>10. Hands(worker, c, k) = 1
    <3>1. PICK h \in Nat : h = Hands(worker, c, k)
      BY <2>1, TallyType
    <3>2. Places(c, k) = 0 + 0 + 0 + h + 0 + 0 + 0
      BY <1>1, <2>1, <2>3, <2>5, <2>6, <2>7, <2>8, <2>9, <3>1, PlacesAre DEF Tally
    <3>. QED
      BY <2>2, <3>1, <3>2
  <2>11. PICK v \in Workers : HasRequest(worker[v], c, k)
    <3>1. SUFFICES ASSUME \A v \in Workers : ~HasRequest(worker[v], c, k) PROVE FALSE
      OBVIOUS
    <3>2. {v \in Workers : HasRequest(worker[v], c, k)} = {}
      BY <3>1
    <3>3. Cardinality({v \in Workers : HasRequest(worker[v], c, k)}) = 0
      BY <3>2, FS_EmptySet
    <3>. QED
      BY <2>10, <3>3 DEF Hands
  <2>12. worker[v].m = k /\ v # w
    <3>1. worker[v].m = k
      BY <2>11 DEF HasRequest
    <3>2. m # k
      BY <1>3, <2>1
    <3>. QED
      BY <1>2, <3>1, <3>2
  <2>. QED
    BY <2>12
<1>8. FewMissing(m, S)
  BY <1>7, InOtherHands
<1>. QED
  BY <1>1, <1>2, <1>6, <1>8

\* Replies stand in outputbuffer_ and in the loops' queues as the client will get them.
InTurn(n, k, q, c) ==
    /\ SentInTurn(n.got)
    /\ ~k.disconnect => /\ OutInTurn(n.got, k.output)
                        /\ \A l \in Loops : QueueInTurn(n.got, k.output, q[l], c)
ReplyInv == \A c \in Conns : InTurn(net[c], conn[c], taskqueue_, c)

\* No step on their way lets a reply overtake more than those in other workers' hands.
LEMMA ReplyKept ==
    ASSUME TypeOK, OwnInv, BatchInv, OnceInv, WaitInv, ReplyInv, [Next]_vars
    PROVE  ReplyInv'
<1>1. SUFFICES ASSUME NEW c \in Conns PROVE InTurn(net'[c], conn'[c], taskqueue_', c)
  BY DEF ReplyInv
<1>2. PICK g \in Seq(Requests), o \in Seq(Requests) : g = net[c].got /\ o = conn[c].output
  BY NamedTypes DEF NetType, ConnType
<1>3. taskqueue_ \in [Loops -> Seq(Tasks)]
  BY DEF TypeOK
<1>4. /\ SentInTurn(g)
      /\ ~conn[c].disconnect => OutInTurn(g, o) /\ \A l \in Loops : QueueInTurn(g, o, taskqueue_[l], c)
  BY <1>2 DEF ReplyInv, InTurn
<1>5. ASSUME net'[c].got = g, conn'[c].output = o, conn'[c].disconnect = conn[c].disconnect,
             taskqueue_' = taskqueue_
      PROVE  InTurn(net'[c], conn'[c], taskqueue_', c)
  BY <1>4, <1>5 DEF InTurn
<1>6. CASE Untouched(c)
  BY <1>2, <1>5, <1>6 DEF Untouched
<1>7. CASE Ask(c)
  <2>1. net'[c].got = g /\ UNCHANGED <<conn, taskqueue_>>
    BY <1>2, <1>7, NamedTypes DEF Ask, NetType, loopVars
  <2>. QED
    BY <1>2, <1>5, <2>1
<1>8. CASE conn'[c].disconnect /\ net'[c].got = net[c].got
  BY <1>2, <1>4, <1>8 DEF InTurn
<1>9. ASSUME NEW d \in Conns, Reads(d, c) PROVE InTurn(net'[c], conn'[c], taskqueue_', c)
  BY <1>2, <1>5, <1>9 DEF Reads
<1>10. ASSUME NEW n \in 0..Len(conn[c].output), Writes(n, c)
       PROVE  InTurn(net'[c], conn'[c], taskqueue_', c)
  <2>1. PICK g1, o1 : g1 = net'[c].got /\ o1 = conn'[c].output
    OBVIOUS
  <2>2. g1 = g \o SubSeq(o, 1, n) /\ o1 = Erased(o, n) /\ n \in 0..Len(o)
    BY <1>2, <1>10, <2>1 DEF Writes
  <2>3. ~conn[c].disconnect /\ taskqueue_' = taskqueue_
    BY <1>10 DEF Writes
  <2>4. ASSUME NEW l \in Loops
        PROVE  SentInTurn(g1) /\ OutInTurn(g1, o1) /\ QueueInTurn(g1, o1, taskqueue_[l], c)
    <3>1. PICK q \in Seq(Tasks) : q = taskqueue_[l]
      BY <1>3
    <3>2. OutInTurn(g, o) /\ QueueInTurn(g, o, q, c)
      BY <1>4, <2>3, <3>1
    <3>. QED
      BY <1>4, <2>2, <3>1, <3>2, InTurnSent
  <2>5. \E l \in Loops : TRUE
    BY LoopOfType
  <2>. QED
    BY <2>1, <2>3, <2>4, <2>5 DEF InTurn
<1>11. ASSUME NEW l \in Loops, Sends(l, c) PROVE InTurn(net'[c], conn'[c], taskqueue_', c)
  <2>1. PICK q, h, o1 : q = taskqueue_[l] /\ h = Head(q) /\ o1 = conn'[c].output
    OBVIOUS
  <2>2. /\ net'[c].got = g /\ conn'[c].disconnect = conn[c].disconnect
        /\ q # <<>> /\ taskqueue_' = [taskqueue_ EXCEPT ![l] = Tail(q)]
        /\ o1 = IF h.c = c THEN Append(o, h.m) ELSE o
    BY <1>2, <1>11, <2>1 DEF Sends
  <2>3. CASE conn[c].disconnect
    BY <1>4, <2>2, <2>3 DEF InTurn
  <2>4. CASE ~conn[c].disconnect
    <3>1. q \in Seq(Tasks) /\ OutInTurn(g, o) /\ QueueInTurn(g, o, q, c)
      BY <1>3, <1>4, <2>1, <2>4
    <3>2. OutInTurn(g, o1) /\ QueueInTurn(g, o1, Tail(q), c)
      BY <2>1, <2>2, <3>1, InTurnPopped
    <3>3. ASSUME NEW k \in Loops, k # l PROVE QueueInTurn(g, o1, taskqueue_[k], c)
      <4>1. CASE h.c # c
        BY <1>4, <2>2, <2>4, <4>1
      <4>2. CASE h.c = c
        <5>1. 1 \in 1..Len(q) /\ h = q[1]
          BY <2>1, <2>2, <3>1, PoppedTasks
        <5>2. LoopOf(c) = l
          BY <2>1, <4>2, <5>1 DEF OwnInv, TaskInv
        <5>3. \A i \in 1..Len(taskqueue_[k]) : taskqueue_[k][i].c # c
          BY <3>3, <5>2 DEF OwnInv, TaskInv
        <5>. QED
          BY <5>3 DEF QueueInTurn
      <4>. QED
        BY <4>1, <4>2
    <3>4. \A k \in Loops : taskqueue_'[k] = IF k = l THEN Tail(q) ELSE taskqueue_[k]
      BY <1>3, <2>2
    <3>5. \A k \in Loops : QueueInTurn(g, o1, taskqueue_'[k], c)
      BY <3>2, <3>3, <3>4
    <3>. QED
      BY <1>4, <2>1, <2>2, <3>2, <3>5 DEF InTurn
  <2>. QED
    BY <2>3, <2>4
<1>12. ASSUME NEW w \in Workers, WorkThread(w) PROVE InTurn(net'[c], conn'[c], taskqueue_', c)
  <2>1. UNCHANGED <<conn, net>>
    BY <1>12 DEF WorkThread, TakeTask, SendCheck, SendQueue, Release
  <2>2. CASE TakeTask(w) \/ SendCheck(w) \/ Release(w)
    <3>1. taskqueue_' = taskqueue_
      BY <2>2 DEF TakeTask, SendCheck, Release, loopVars
    <3>. QED
      BY <1>2, <1>5, <2>1, <3>1
  <2>3. CASE SendQueue(w)
    <3>1. PICK d, m, k : d = worker[w].c /\ m = worker[w].m /\ k = LoopOf(d)
      OBVIOUS
    <3>2. d \in Conns /\ m \in Requests /\ Holding(worker[w], d)
      <4>1. worker[w].at = "queue"
        BY <2>3 DEF SendQueue
      <4>2. worker[w] \in [at : {"check", "queue", "done"}, c : Conns, m : Requests]
        BY <4>1 DEF TypeOK, IdleWorker
      <4>. QED
        BY <3>1, <4>1, <4>2 DEF Holding
    <3>3. PICK task : task \in Tasks /\ task = [c |-> d, m |-> m] /\ task.c = d /\ task.m = m
      <4>1. PICK task : task = [c |-> d, m |-> m]
        OBVIOUS
      <4>2. task \in Tasks
        BY <3>2, <4>1 DEF Tasks
      <4>3. task.c = d /\ task.m = m
        BY <4>1
      <4>. QED
        BY <4>1, <4>2, <4>3
    <3>4. k \in Loops
      BY <3>1, <3>2, LoopOfType
    <3>5. PICK q \in Seq(Tasks) : q = taskqueue_[k]
      BY <1>3, <3>4
    <3>6. taskqueue_' = [taskqueue_ EXCEPT ![k] = Append(q, task)]
      BY <2>3, <3>1, <3>3, <3>5 DEF SendQueue
    <3>7. CASE conn[c].disconnect
      BY <1>2, <1>4, <2>1, <3>7 DEF InTurn
    <3>8. CASE ~conn[c].disconnect
      <4>1. QueueInTurn(g, o, q, c)
        BY <1>4, <3>4, <3>5, <3>8
      <4>2. task.c = c => FewMissing(task.m, Upto(g, Len(g)) \cup Upto(o, Len(o))
                                               \cup TasksUpto(q, Len(q), c))
        BY <1>2, <3>1, <3>2, <3>3, <3>5, <3>8, HandsBound
      <4>3. QueueInTurn(g, o, Append(q, task), c)
        BY <3>3, <4>1, <4>2, InTurnQueued
      <4>4. \A l \in Loops : taskqueue_'[l] = IF l = k THEN Append(q, task) ELSE taskqueue_[l]
        BY <1>3, <3>6
      <4>5. \A l \in Loops : QueueInTurn(g, o, taskqueue_'[l], c)
        BY <1>4, <3>8, <4>3, <4>4
      <4>. QED
        BY <1>2, <1>4, <2>1, <3>8, <4>5 DEF InTurn
    <3>. QED
      BY <3>7, <3>8
  <2>. QED
    BY <1>12, <2>2, <2>3 DEF WorkThread
<1>. QED
  BY <1>1, <1>6, <1>7, <1>8, <1>9, <1>10, <1>11, <1>12, Moves, Zenon

\* ReplyInv holds in every state.
LEMMA ReplyHolds == Spec => []ReplyInv
<1>1. Init => ReplyInv
  BY DEF Init, ReplyInv, InTurn, SentInTurn, OutInTurn, QueueInTurn
<1>2. TypeOK /\ OwnInv /\ BatchInv /\ OnceInv /\ WaitInv /\ ReplyInv /\ [Next]_vars => ReplyInv'
  BY ReplyKept
<1>. QED
  BY <1>1, <1>2, TypesHold, OwnHolds, BatchHolds, OnceHolds, WaitHolds, PTL DEF Spec

\* A reply the client gets has overtaken at most Workers - 1 earlier requests, whatever
\* clients, connections and loops do, between addtask(), queueinloop() and sendinloop().
THEOREM OvertakingBoundedHolds == Spec => []OvertakingBounded
<1>1. ASSUME TypeOK, ReplyInv PROVE OvertakingBounded
  <2>1. SUFFICES ASSUME NEW c \in Conns, NEW j \in DOMAIN net[c].got
                 PROVE  LET g == net[c].got IN
                        Cardinality(1..(g[j] - 1) \ Range(SubSeq(g, 1, j))) < Cardinality(Workers)
    BY DEF OvertakingBounded
  <2>2. PICK g \in Seq(Requests), n \in Nat : g = net[c].got /\ n = Len(g) /\ DOMAIN g = 1..n
    BY <1>1, NamedTypes, LenProperties DEF NetType
  <2>3. j \in 1..n /\ j \in 0..n
    BY <2>1, <2>2
  <2>4. FewMissing(g[j], Upto(g, j))
    BY <1>1, <2>2, <2>3 DEF ReplyInv, InTurn, SentInTurn
  <2>5. PICK a \in Seq(Requests) : /\ a = SubSeq(g, 1, j) /\ Len(a) = j
                                   /\ \A i \in 1..j : a[i] = g[i]
    <3>1. j \in 0..Len(g)
      BY <2>2, <2>3
    <3>2. SubSeq(g, 1, j) \in Seq(Requests) /\ Len(SubSeq(g, 1, j)) = j
          /\ \A i \in 1..j : SubSeq(g, 1, j)[i] = g[i]
      BY <3>1, CutOf
    <3>. QED
      BY <3>2
  <2>6. DOMAIN a = 1..j
    BY <2>5, LenProperties
  <2>7. Range(a) = Upto(g, j)
    BY <2>5, <2>6 DEF Range, Upto
  <2>. QED
    BY <2>2, <2>4, <2>5, <2>7 DEF FewMissing
<1>. QED
  BY <1>1, TypesHold, ReplyHolds, PTL
=============================================================================
