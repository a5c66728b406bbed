------------------------------ MODULE Framing -------------------------------
(***************************************************************************)
(* One connection as a stream of bytes: a client that sends framed         *)
(* requests (client.cpp), a network that may cut the stream anywhere,      *)
(* Connection::onmessage() with inputbuffer_, the echo, sendinloop() and   *)
(* writecallback() with outputbuffer_, and the client's two recv() calls.  *)
(*                                                                         *)
(* The connection stays open (Reactor has the rest).  Between onmessage()  *)
(* and sendinloop() a reply passes the pool and the loop's task queue,     *)
(* with one worker two FIFOs (TaskFifo): `replied' counts what came out.   *)
(***************************************************************************)
EXTENDS Buffer

CONSTANTS Bodies,       \* the contents of the requests
          Prefix,       \* stands for "reply:WORK thread "
          MaxMessages,  \* bound on the requests
          ReadSize      \* sizeof(buffer) in onmessage(), 1024 in the code

\* The buffers of client.cpp hold 1024 bytes: every length fits into an int.
ASSUME FramingAssumption ==
    /\ Bodies \subseteq Seq(Bytes) /\ Prefix \in Seq(Bytes \ {NUL}) /\ Prefix # <<>>
    /\ \A m \in Bodies : Len(m) \in Lengths /\ Len(Prefix) + Len(m) \in Lengths
    /\ MaxMessages \in Nat /\ ReadSize \in Nat \ {0}

VARIABLES sent,             \* the requests sent
          up,               \* bytes on their way to the server
          inputbuffer_,
          pc,               \* the IO thread: in epoll_wait(), or in onmessage()
          handled,          \* the messages handed to onmessagecallback_
          replied,          \* how many of them sendinloop() has answered
          outputbuffer_,
          down,             \* bytes on their way to the client
          client,           \* the recv() the client is in, and its variable len
          got,              \* the replies the client has printed
          short             \* some recv() of the client returned less than asked for

serverVars == <<inputbuffer_, pc, handled, replied, outputbuffer_>>
clientVars == <<sent, client, got, short>>
vars == <<up, down, serverVars, clientVars>>

Init ==
    /\ up = <<>> /\ down = <<>> /\ inputbuffer_ = <<>> /\ outputbuffer_ = <<>>
    /\ pc = "poll" /\ handled = <<>> /\ replied = 0
    /\ sent = <<>> /\ got = <<>> /\ short = FALSE
    /\ client = [at |-> "header", len |-> Encode(0)]

Least(m, n) == IF m < n THEN m ELSE n
-----------------------------------------------------------------------------
\* The client's loop; it may send ahead of the replies.

\* int len=strlen(buf); header and body in one send().
SendRequest(m) ==
    /\ client.at = "header" /\ Len(sent) < MaxMessages
    /\ sent' = Append(sent, m)
    /\ up' = up \o Encode(Len(m)) \o m
    /\ client' = [client EXCEPT !.len = Encode(Len(m))]
    /\ UNCHANGED <<down, serverVars, got, short>>

\* recv(sockfd,&len,4,0): as many bytes of len as there are.
RecvHeader ==
    /\ client.at = "header" /\ Len(got) < Len(sent) /\ down # <<>>
    /\ \E n \in 1..Least(HeaderSize, Len(down)) :
         /\ client' = [at |-> "body",
                       len |-> [i \in 1..HeaderSize |-> IF i <= n THEN down[i] ELSE client.len[i]]]
         /\ down' = erase(down, n)
         /\ short' = (short \/ n < HeaderSize)
    /\ UNCHANGED <<up, serverVars, sent, got>>

\* recv(sockfd,buf,len,0), whose result is not looked at either.
RecvBody ==
    /\ client.at = "body"
    /\ LET len == Decode(client.len) IN
       \E n \in 0..Least(len, Len(down)) :
         /\ n = 0 => len = 0
         /\ got' = Append(got, SubSeq(down, 1, n))
         /\ down' = erase(down, n)
         /\ short' = (short \/ n < len)
    /\ client' = [client EXCEPT !.at = "header"]
    /\ UNCHANGED <<up, serverVars, sent>>
-----------------------------------------------------------------------------
\* The IO thread.

\* Connection::onmessage(): read() until it would block.  The channel is readable
\* when the first read() is reached; after it more may have arrived or not.
Read ==
    /\ pc \in {"poll", "read"} /\ up # <<>>
    /\ \E n \in 1..Least(ReadSize, Len(up)) :
         /\ inputbuffer_' = append(inputbuffer_, SubSeq(up, 1, n))
         /\ up' = erase(up, n)
    /\ pc' = "read"
    /\ UNCHANGED <<down, handled, replied, outputbuffer_, clientVars>>

ReadWouldBlock ==
    /\ pc = "read"
    /\ pc' = "pick"
    /\ UNCHANGED <<up, down, inputbuffer_, handled, replied, outputbuffer_, clientVars>>

\* Mutant of Pick: one message per read event.
PickOnce ==
    /\ pc = "pick"
    /\ \E r \in pickmessage(inputbuffer_) :
         /\ pc' = IF r.result = "throw" THEN "terminated" ELSE "poll"
         /\ inputbuffer_' = IF r.result = "message" THEN r.rest ELSE inputbuffer_
         /\ handled' = IF r.result = "message" THEN Append(handled, r.ss) ELSE handled
    /\ UNCHANGED <<up, down, replied, outputbuffer_, clientVars>>

\* while (true): pickmessage() and onmessagecallback_, until there is none.
Pick ==
    /\ pc = "pick"
    /\ \E r \in pickmessage(inputbuffer_) :
         \/ /\ r.result = "message"
            /\ inputbuffer_' = r.rest
            /\ handled' = Append(handled, r.ss)
            /\ UNCHANGED pc
         \/ /\ r.result # "message"
            /\ pc' = IF r.result = "throw" THEN "terminated" ELSE "poll"
            /\ UNCHANGED <<inputbuffer_, handled>>
    /\ UNCHANGED <<up, down, replied, outputbuffer_, clientVars>>

\* HandleMessage() and OnMessage(): what is sent for a message.
Reply(m) == Prefix \o m

\* The bytes that Buffer::append(dataCopy, size) may read: strdup() has copied up
\* to the first NUL, and what lies behind the copy is anything.
CopyRead(data) ==
    {b \in [DOMAIN data -> Bytes] :
       \A i \in DOMAIN data : (\A j \in 1..(i - 1) : data[j] # NUL) => b[i] = data[i]}

\* Connection::sendinloop(), with the copy made by send().
SendInLoop ==
    /\ pc = "poll" /\ replied < Len(handled)
    /\ \E data \in CopyRead(Reply(handled[replied + 1])) :
         outputbuffer_' = appendwithsep(outputbuffer_, data)
    /\ replied' = replied + 1
    /\ UNCHANGED <<up, down, inputbuffer_, pc, handled, clientVars>>

\* Mutant of Write: a partial send() empties outputbuffer_.
WriteClears ==
    /\ pc = "poll" /\ outputbuffer_ # <<>>
    /\ \E writen \in 1..Len(outputbuffer_) : down' = down \o SubSeq(outputbuffer_, 1, writen)
    /\ outputbuffer_' = <<>>
    /\ UNCHANGED <<up, inputbuffer_, pc, handled, replied, clientVars>>

\* Connection::writecallback(): send() takes a part, the rest waits.
Write ==
    /\ pc = "poll" /\ outputbuffer_ # <<>>
    /\ \E writen \in 1..Len(outputbuffer_) :
         /\ down' = down \o SubSeq(outputbuffer_, 1, writen)
         /\ outputbuffer_' = erase(outputbuffer_, writen)
    /\ UNCHANGED <<up, inputbuffer_, pc, handled, replied, clientVars>>
-----------------------------------------------------------------------------
OnMessage == Read \/ ReadWouldBlock \/ Pick

Next == \/ \E m \in Bodies : SendRequest(m)
        \/ RecvHeader \/ RecvBody \/ OnMessage \/ SendInLoop \/ Write

\* The IO thread runs, its ready channels are all served, and the client reads on;
\* nobody has to send.
Fairness == /\ WF_vars(OnMessage) /\ WF_vars(SendInLoop) /\ WF_vars(Write)
            /\ WF_vars(RecvHeader) /\ WF_vars(RecvBody)

Spec == Init /\ [][Next]_vars
FairSpec == Spec /\ Fairness
-----------------------------------------------------------------------------
\* The variables keep their types: buffers and streams hold bytes.
TypeOK ==
    /\ {up, down, inputbuffer_, outputbuffer_} \subseteq Seq(Bytes)
    /\ pc \in {"poll", "read", "pick", "terminated"}
    /\ {sent, handled, got} \subseteq Seq(Seq(Bytes))
    /\ replied \in 0..Len(handled)
    /\ client \in [at : {"header", "body"}, len : [1..HeaderSize -> Bytes]]
    /\ short \in BOOLEAN

\* However the stream is cut, onmessagecallback_ gets the requests whole, once
\* and in order (Connection::onmessage(), Buffer::pickmessage()).
Requests == INSTANCE MessagePipe WITH Messages <- Bodies, delivered <- handled
RequestsDelivered == Requests!PipeSpec

\* pickmessage() on a buffer with one to three bytes reads a header that is partly
\* not there; whatever those bytes are, it never takes the header for complete,
\* which would make substr() throw in the IO thread.
PartialHeaderHarmless == pc # "terminated"

\* When onmessage() returns, every request whose last byte has been read has been
\* handed over: what is left in inputbuffer_ is the beginning of one that is still
\* arriving.  No further read event would come for a request left behind.
NothingStranded ==
    pc = "poll" => \/ inputbuffer_ = <<>>
                   \/ /\ Len(handled) < Len(sent)
                      /\ Len(inputbuffer_) < HeaderSize + Len(sent[Len(handled) + 1])
                      /\ up # <<>>

\* Whatever is cut and queued on the way back, by partial send() calls and by replies
\* appended between them (writecallback(), sendinloop()), each reply has the length of
\* its request with the prefix, and a reply to a text is that text unchanged, as long as
\* each recv() of client.cpp returns what it asks for.
IsText(m) == \A i \in DOMAIN m : m[i] # NUL
RepliesFaithful ==
    ~short => \A i \in DOMAIN got :
                /\ Len(got[i]) = Len(Prefix) + Len(sent[i])
                /\ IsText(sent[i]) => got[i] = Reply(sent[i])

\* The server echoes: the client gets back what it has sent, behind the prefix
\* (EchoServer::OnMessage(), Connection::send()).
EchoesRequests == ~short => \A i \in DOMAIN got : got[i] = Reply(sent[i])

\* Every request is answered and the answer is read, unless client.cpp has lost
\* its place in the stream by a short recv().
AllEchoed == \A n \in 1..MaxMessages : Len(sent) >= n ~> (Len(got) >= n \/ short)
=============================================================================
