------------------------------- MODULE Client -------------------------------
(***************************************************************************)
(* The terminal's end of a connection (app/client/Client.{hpp,cpp}).       *)
(*                                                                         *)
(* The FTXUI thread posts requests to the client's io_context; one thread  *)
(* runs that context.  A reply carries no identifier: recvLoop gives it to *)
(* the oldest handler in _pending.  Handlers and the disconnect handler    *)
(* post to the FTXUI thread what they have to tell it, here "events".      *)
(*                                                                         *)
(* A request is its number in the order of the calls of sendRequest.  On   *)
(* the wire it is two chunks, header and payload.  The server is the one   *)
(* Service describes.                                                      *)
(***************************************************************************)
EXTENDS Naturals, Sequences, FiniteSets

CONSTANTS
    MaxRequests,      \* bound: requests the user makes
    PartialWrites     \* may the send buffer take less than a whole packet?

ASSUME ClientAssumption == MaxRequests \in Nat /\ PartialWrites \in BOOLEAN

VARIABLES
    made,        \* how many requests the pages have made
    posts,       \* requests on the way to the io thread
    link,        \* the socket: "connecting", "refused", "up" or "lost"
    connected,   \* _connected
    pending,     \* _pending
    hook,        \* _disconnectHandler: "none", "installed" or "moved"
    writes,      \* async_writes under way: request and chunks left
    got,         \* how many replies recvLoop has read
    events,      \* what the FTXUI thread is told
    stream,      \* chunks on the way to the server
    serving,     \* the packet the server is serving, if any
    outbox,      \* replies of the server
    open         \* has the server kept its side open?

io == <<posts, connected, pending, hook, writes, got, events>>
server == <<stream, serving, outbox, open>>
clientVars == <<made, link, io, server>>

ClientInit ==
    /\ made = 0 /\ got = 0
    /\ link = "connecting" /\ connected = FALSE /\ hook = "none"
    /\ posts = <<>> /\ pending = <<>> /\ writes = <<>> /\ events = <<>>
    /\ stream = <<>> /\ serving = <<>> /\ outbox = <<>> /\ open = TRUE

Called(id, ok, r) == [kind |-> "call", id |-> id, ok |-> ok, reply |-> r]
Failed(id) == Called(id, FALSE, [to |-> id, says |-> "nothing"])
Lost == [kind |-> "lost"]
Refused == [kind |-> "refused"]

-----------------------------------------------------------------------------
(* The FTXUI thread.                                                       *)

SendRequest ==
    /\ made' = made + 1 /\ posts' = Append(posts, made')
    /\ UNCHANGED <<link, connected, pending, hook, writes, got, events, server>>

\* App::run installs the handler when client.run() and connect() have started.
OnDisconnect ==
    /\ hook = "none"
    /\ hook' = "installed"
    /\ UNCHANGED <<made, link, posts, connected, pending, writes, got, events, server>>

-----------------------------------------------------------------------------
(* The io thread.                                                          *)

Connect ==
    /\ link = "connecting"
    /\ \/ link' = "up" /\ connected' = TRUE /\ UNCHANGED events
       \/ link' = "refused" /\ events' = Append(events, Refused) /\ UNCHANGED connected
    /\ UNCHANGED <<made, posts, pending, hook, writes, got, server>>

\* The function sendRequest posted.  async_write writes what it can at once,
\* but only if no other write waits for the socket: see Write.
RunPost ==
    /\ posts # <<>>
    /\ LET id == Head(posts)
       IN IF connected
          THEN /\ pending' = Append(pending, id)
               /\ writes' = Append(writes, [id |-> id, left |-> 2])
               /\ UNCHANGED events
          ELSE events' = Append(events, Failed(id)) /\ UNCHANGED <<pending, writes>>
    /\ posts' = Tail(posts)
    /\ UNCHANGED <<made, link, connected, hook, got, server>>

\* The socket serves its writes in turn.  A write that was not taken whole
\* queues again for the rest, behind the writes that started meanwhile.
ChunksAfter(w, n) == [k \in 1 .. n |-> [of |-> w.id, part |-> 3 - w.left + k]]  \* mutant
Chunks(w, n) == [k \in 1 .. n |-> [of |-> w.id, part |-> 2 - w.left + k]]

Write ==
    /\ link = "up" /\ writes # <<>>
    /\ LET w == Head(writes)
       IN \E n \in 1 .. w.left :
              /\ PartialWrites \/ n = w.left
              /\ stream' = IF open THEN stream \o Chunks(w, n) ELSE stream
              /\ writes' = IF n = w.left THEN Tail(writes)
                           ELSE Append(Tail(writes), [w EXCEPT !.left = @ - n])
    /\ UNCHANGED <<made, link, posts, connected, pending, hook, got, events,
                   serving, outbox, open>>

\* What the disconnect handler tells, if there is one to move out.
Notice == IF hook = "installed" THEN <<Lost>> ELSE <<>>
Moved == IF hook = "installed" THEN "moved" ELSE hook

WriteFails ==
    /\ link \in {"up", "lost"} /\ writes # <<>> /\ ~open
    /\ writes' = Tail(writes)
    /\ connected' = FALSE
    /\ events' = events \o Notice /\ hook' = Moved
    /\ UNCHANGED <<made, link, posts, pending, got, server>>

NewestHandler == pending[Len(pending)]                                  \* mutant
NextHandler == Head(pending)

NotPopped(s) == s                                                       \* mutant
Popped(s) == Tail(s)

\* recvLoop reads a reply; nobody waiting for it is no error.
Receive ==
    /\ link = "up" /\ got < Len(outbox)
    /\ got' = got + 1
    /\ IF pending = <<>>
       THEN UNCHANGED <<pending, events>>
       ELSE /\ events' = Append(events, Called(NextHandler, TRUE, outbox[got']))
            /\ pending' = Popped(pending)
    /\ UNCHANGED <<made, link, posts, connected, hook, writes, server>>

DropPending == <<>>                                                     \* mutant
FailPending == [k \in 1 .. Len(pending) |-> Failed(pending[k])]

\* Replies that were under way may be lost with the connection.
ReceiveFails ==
    /\ link = "up" /\ ~open
    /\ link' = "lost" /\ connected' = FALSE
    /\ events' = events \o Notice \o FailPending /\ hook' = Moved
    /\ pending' = <<>>
    /\ UNCHANGED <<made, posts, writes, got, server>>

-----------------------------------------------------------------------------
(* The server: a header and what follows it make a packet; a packet put    *)
(* together from two requests is answered for what it looks like.          *)

Framed(a, b) == IF a.of = b.of /\ a.part = 1 /\ b.part = 2 THEN a.of ELSE 0

Take ==
    /\ open /\ serving = <<>> /\ Len(stream) >= 2
    /\ serving' = <<Framed(stream[1], stream[2])>>
    /\ stream' = SubSeq(stream, 3, Len(stream))
    /\ UNCHANGED <<made, link, io, outbox, open>>

AnswersAgain(says) ==                                                   \* mutant
    /\ open /\ serving # <<>>
    /\ outbox' = Append(outbox, [to |-> serving[1], says |-> says])
    /\ UNCHANGED <<made, link, io, stream, serving, open>>
ServerAnswers(says) ==
    /\ open /\ serving # <<>>
    /\ outbox' = Append(outbox, [to |-> serving[1], says |-> says])
    /\ serving' = <<>>
    /\ UNCHANGED <<made, link, io, stream, open>>

ServerCloses ==
    /\ open /\ link = "up"
    /\ open' = FALSE /\ stream' = <<>> /\ serving' = <<>>
    /\ UNCHANGED <<made, link, io, outbox>>

-----------------------------------------------------------------------------

IoStep == Connect \/ RunPost \/ Write \/ WriteFails \/ Receive \/ ReceiveFails

ServerStep == Take \/ ServerAnswers("any") \/ ServerCloses

ClientNext ==
    \/ made < MaxRequests /\ SendRequest
    \/ OnDisconnect \/ IoStep \/ ServerStep

ClientSpec == ClientInit /\ [][ClientNext]_clientVars

\* The io_context runs what is ready; a server that is up serves.
ClientFairness ==
    /\ WF_clientVars(Connect) /\ WF_clientVars(RunPost)
    /\ WF_clientVars(Write \/ WriteFails)
    /\ WF_clientVars(Receive \/ ReceiveFails)
    /\ WF_clientVars(Take) /\ WF_clientVars(ServerAnswers("any"))

FairClientSpec == ClientSpec /\ ClientFairness

-----------------------------------------------------------------------------
(* Properties.                                                             *)

Ids == 1 .. made

ClientTypeOK ==
    /\ made \in Nat /\ got \in 0 .. Len(outbox)
    /\ link \in {"connecting", "refused", "up", "lost"}
    /\ connected \in BOOLEAN /\ (connected => link = "up")
    /\ hook \in {"none", "installed", "moved"}
    /\ posts \in Seq(Ids) /\ pending \in Seq(Ids)
    /\ writes \in Seq([id : Ids, left : 1 .. 2])
    /\ stream \in Seq([of : Ids, part : 1 .. 2])
    /\ serving \in {<<>>} \cup {<<k>> : k \in Ids \cup {0}}
    /\ open \in BOOLEAN

Calls(id) == {k \in DOMAIN events : events[k].kind = "call" /\ events[k].id = id}
Places(s, id) == {k \in DOMAIN s : s[k] = id}

\* Every handler waits in exactly one place until it is called, once: none is
\* lost in a disconnection and none is called by a reply after it failed.
CalledOnce ==
    \A id \in 1 .. made :
        Cardinality(Places(posts, id)) + Cardinality(Places(pending, id))
            + Cardinality(Calls(id)) = 1

\* README, Client: "Request queue maps responses back to callbacks (FIFO
\* order)".  The handler that gets a reply is the one of the request the reply
\* answers.
RepliesMatch ==
    \A k \in DOMAIN events :
        events[k].kind = "call" => events[k].reply.to = events[k].id

\* Every request comes back to the page that made it.
CallsReturn == \A id \in 1 .. MaxRequests : made >= id ~> Calls(id) # {}

\* The server the client was checked against is one Service allows.
Conn ==
    INSTANCE Service WITH
        Nothing <- <<>>, MayAnswer <- LAMBDA k, r : r.to = k[1],
        inbox <- [k \in 1 .. Len(stream) \div 2 |->
                      <<Framed(stream[2 * k - 1], stream[2 * k])>>]

ServerIsService == Conn!Spec

=============================================================================
