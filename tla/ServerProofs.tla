---------------------------- MODULE ServerProofs ----------------------------
(***************************************************************************)
(* Sessions, for every number of connections, of packets and of requests.  *)
(*                                                                         *)
(* A server step is a database step or leaves the database alone, so what  *)
(* DatabaseProofs shows of DbSpec holds of the whole server.  SessionInv   *)
(* says what a session holds in each of its states;                        *)
(* from it follows Service, one step at a time.  Owned says that waiting   *)
(* sessions and requests in the database engine match one to one; it rests *)
(* on OrderInv, because only the order of the numbers tells that a         *)
(* completion being run is the last trace of its request.                  *)
(***************************************************************************)
EXTENDS Server, DatabaseProofs

-----------------------------------------------------------------------------
(* What a session holds.                                                   *)

Bodies == Replies \cup [kind : {"PONG", "log", ""}, value : {FALSE}]
Sendable == [type : Parsed \cup Unparsed \cup Local, body : Bodies, cb : Nat]

SessionTypes ==
    /\ at \in [Sessions -> {"listening", "reading", "waiting", "writing", "closed"}]
    /\ packet \in [Sessions -> Packets \cup {Nobody}]
    /\ asked \in [Sessions -> Nat]
    /\ writing \in [Sessions -> Sendable \cup {Nobody}]
    /\ inbox \in [Sessions -> Seq(Packets)] /\ outbox \in [Sessions -> Seq(Sendable)]
    /\ peer \in [Sessions -> BOOLEAN]

SessionOK(s) ==
    /\ at[s] \in {"waiting", "writing"} <=> packet[s] # Nobody
    /\ at[s] = "writing" <=> writing[s] # Nobody
    /\ at[s] = "waiting" => asked[s] \in 1 .. submitted /\ ForDatabase(packet[s])
    /\ at[s] = "writing" => Answers(packet[s], writing[s])
    /\ at[s] \in {"listening", "closed"} => inbox[s] = <<>>
    /\ at[s] = "listening" => ~peer[s]

SessionInv == SessionTypes /\ \A s \in Sessions : SessionOK(s)

LEMMA PacketTypes ==
    ASSUME NEW k \in Packets
    PROVE  /\ k # Nobody
           /\ k.type \in Parsed \cup Unparsed \cup Local \cup {Unknown}
           /\ ForDatabase(k) => k.request \in Requests
<1>1. k.type # "none"
  BY PacketsAssumption DEF Parsed, Unparsed, Local, Unknown
<1>2. k # Nobody
  BY <1>1 DEF Nobody
<1>3. ForDatabase(k) => k.request \in Requests
  BY PacketsAssumption DEF ForDatabase, Parsed, Unparsed, Local, Unknown
<1> QED
  BY <1>2, <1>3, PacketsAssumption

LEMMA WrittenTypes == Nobody \notin Sendable
<1>1. "none" \notin Parsed \cup Unparsed \cup Local
  BY DEF Parsed, Unparsed, Local
<1> QED
  BY <1>1 DEF Nobody, Sendable

\* The next packet of an inbox that is not empty.
LEMMA NextPacket ==
    ASSUME SessionInv, NEW s \in Sessions, inbox[s] # <<>>
    PROVE  Head(inbox[s]) \in Packets /\ Tail(inbox[s]) \in Seq(Packets)
BY HeadTailProperties DEF SessionInv, SessionTypes

-----------------------------------------------------------------------------
(* The database inside the server.                                         *)

LEMMA ServerStepsDb ==
    ASSUME SessionInv, ServerNext
    PROVE  DbNext \/ UNCHANGED vars
<1>1. CASE \E s \in Sessions : Accept(s) \/ Send(s) \/ HangUp(s) \/ SessionStep(s)
  <2>1. PICK s \in Sessions : Accept(s) \/ Send(s) \/ HangUp(s) \/ SessionStep(s)
    BY <1>1
  <2>2. CASE Ask(s)
    <3>1. inbox[s] # <<>> /\ ForDatabase(Head(inbox[s])) /\ Submit(Head(inbox[s]).request)
      BY <2>2 DEF Ask
    <3>2. Head(inbox[s]).request \in Requests
      BY <3>1, NextPacket, PacketTypes
    <3> QED
      BY <3>1, <3>2 DEF DbNext
  <2> QED
    BY <2>1, <2>2 DEF Accept, Send, HangUp, SessionStep, Respond, Ignore, ReadFails, Written,
                      WriteFails
<1> QED
  BY <1>1 DEF ServerNext, Complete, DatabaseStep, ProcessEnds, ProcessStarts, DbNext, MainStep

-----------------------------------------------------------------------------
(* One lemma per step of a session.                                        *)

LEMMA SessionInit == ServerInit => SessionInv
<1> SUFFICES ASSUME ServerInit PROVE SessionInv
  OBVIOUS
<1>1. SessionTypes
  BY EmptySeq DEF ServerInit, SessionTypes
<1>2. \A s \in Sessions : SessionOK(s)
  BY DEF ServerInit, SessionOK, Nobody
<1> QED
  BY <1>1, <1>2 DEF SessionInv

\* A session nothing happens to stays as it is.
LEMMA OthersOK ==
    ASSUME SessionInv, NEW s \in Sessions, submitted \in Nat,
           at'[s] = at[s], packet'[s] = packet[s], asked'[s] = asked[s],
           writing'[s] = writing[s], inbox'[s] = inbox[s], peer'[s] = peer[s],
           submitted' \in Nat, submitted <= submitted'
    PROVE  SessionOK(s)'
BY DEF SessionInv, SessionOK

LEMMA ClientInv ==
    ASSUME SessionInv, NEW s \in Sessions, submitted \in Nat, Accept(s) \/ Send(s) \/ HangUp(s)
    PROVE  SessionInv'
<1>1. submitted' = submitted
  BY DEF Accept, Send, HangUp, vars, network
<1>2. CASE Accept(s)
  <2>1. SessionTypes'
    BY <1>2 DEF Accept, SessionInv, SessionTypes
  <2>2. SessionOK(s)'
    BY <1>1, <1>2 DEF Accept, SessionInv, SessionTypes, SessionOK
  <2>3. ASSUME NEW t \in Sessions \ {s}
        PROVE  SessionOK(t)'
    <3>1. /\ at'[t] = at[t] /\ packet'[t] = packet[t] /\ asked'[t] = asked[t]
          /\ writing'[t] = writing[t] /\ inbox'[t] = inbox[t] /\ peer'[t] = peer[t]
      BY <1>2 DEF Accept, SessionInv, SessionTypes
    <3> QED
      BY <1>1, <3>1, OthersOK
  <2> QED
    BY <2>1, <2>2, <2>3 DEF SessionInv
<1>3. CASE Send(s)
  <2>1. PICK k \in Packets : inbox' = [inbox EXCEPT ![s] = Append(@, k)]
    BY <1>3 DEF Send
  <2>2. SessionTypes'
    BY <1>3, <2>1, AppendProperties DEF Send, SessionInv, SessionTypes
  <2>3. SessionOK(s)'
    BY <1>1, <1>3, <2>1 DEF Send, SessionInv, SessionTypes, SessionOK
  <2>4. \A t \in Sessions \ {s} : SessionOK(t)'
    BY <1>1, <1>3, <2>1, OthersOK DEF Send, SessionInv, SessionTypes
  <2> QED
    BY <2>2, <2>3, <2>4 DEF SessionInv
<1>4. CASE HangUp(s)
  <2>1. SessionTypes'
    BY <1>4 DEF HangUp, SessionInv, SessionTypes
  <2>2. SessionOK(s)'
    BY <1>1, <1>4 DEF HangUp, SessionInv, SessionTypes, SessionOK
  <2>3. ASSUME NEW t \in Sessions \ {s}
        PROVE  SessionOK(t)'
    <3>1. /\ at'[t] = at[t] /\ packet'[t] = packet[t] /\ asked'[t] = asked[t]
          /\ writing'[t] = writing[t] /\ inbox'[t] = inbox[t] /\ peer'[t] = peer[t]
      BY <1>4 DEF HangUp, SessionInv, SessionTypes
    <3> QED
      BY <1>1, <3>1, OthersOK
  <2> QED
    BY <2>1, <2>2, <2>3 DEF SessionInv
<1> QED
  BY <1>2, <1>3, <1>4

LEMMA AskInv ==
    ASSUME SessionInv, NEW s \in Sessions, submitted \in Nat, Ask(s)
    PROVE  SessionInv'
<1> DEFINE k == Head(inbox[s])
<1>1. k \in Packets /\ Tail(inbox[s]) \in Seq(Packets) /\ ForDatabase(k) /\ k # Nobody
  BY NextPacket, PacketTypes DEF Ask
<1>2. submitted' = submitted + 1
  BY DEF Ask, Submit
<1>3. SessionTypes'
  BY <1>1, <1>2 DEF Ask, SessionInv, SessionTypes
<1>4. SessionOK(s)'
  BY <1>1, <1>2 DEF Ask, Ready, SessionInv, SessionTypes, SessionOK
<1>5. \A t \in Sessions \ {s} : SessionOK(t)'
  BY <1>2, OthersOK DEF Ask, SessionInv, SessionTypes
<1> QED
  BY <1>3, <1>4, <1>5 DEF SessionInv

LEMMA RespondInv ==
    ASSUME SessionInv, NEW s \in Sessions, submitted \in Nat, Respond(s)
    PROVE  SessionInv'
<1> DEFINE k == Head(inbox[s])
           r == Reply(k.type, OnTheSpot(k), 0)
<1>1. /\ k \in Packets /\ Tail(inbox[s]) \in Seq(Packets) /\ k # Nobody
      /\ ~ForDatabase(k) /\ k.type \in Parsed \cup Unparsed \cup Local
  BY NextPacket, PacketTypes DEF Respond
<1>2. OnTheSpot(k) \in Bodies
  BY DEF OnTheSpot, Bodies, Text, Bool, Replies
<1>3. r \in Sendable /\ Answers(k, r) /\ r # Nobody
  <2>1. r \in Sendable /\ r.type = k.type /\ r.cb = 0
    BY <1>1, <1>2 DEF Reply, Sendable
  <2> QED
    BY <1>1, <2>1, WrittenTypes DEF Answers
<1>4. submitted' = submitted
  BY DEF Respond, vars, network
<1>5. /\ packet' = [packet EXCEPT ![s] = k] /\ writing' = [writing EXCEPT ![s] = r]
      /\ asked' = [asked EXCEPT ![s] = 0] /\ inbox' = [inbox EXCEPT ![s] = Tail(@)]
      /\ at' = [at EXCEPT ![s] = "writing"] /\ UNCHANGED <<outbox, peer>>
  BY DEF Respond
<1> HIDE DEF k, r
<1>6. SessionTypes'
  BY <1>1, <1>3, <1>5 DEF SessionInv, SessionTypes, k
<1>7. SessionOK(s)'
  BY <1>1, <1>3, <1>5 DEF SessionInv, SessionTypes, SessionOK
<1>8. \A t \in Sessions \ {s} : SessionOK(t)'
  BY <1>4, <1>5, OthersOK DEF SessionInv, SessionTypes
<1> QED
  BY <1>6, <1>7, <1>8 DEF SessionInv

\* A session that ends, for whichever reason.
LEMMA DropInv ==
    ASSUME SessionInv, NEW s \in Sessions, submitted \in Nat,
           Ignore(s) \/ ReadFails(s) \/ WriteFails(s)
    PROVE  SessionInv'
<1>1. /\ at' = [at EXCEPT ![s] = "closed"] /\ inbox' = [inbox EXCEPT ![s] = <<>>]
      /\ packet' = [packet EXCEPT ![s] = Nobody] /\ UNCHANGED <<asked, outbox, peer>>
      /\ submitted' = submitted
  BY DEF Ignore, ReadFails, WriteFails, Drop, vars, network
<1>2. writing' = [writing EXCEPT ![s] = Nobody]
  <2>1. CASE WriteFails(s)
    BY <2>1 DEF WriteFails
  <2>2. CASE Ignore(s) \/ ReadFails(s)
    BY <2>2 DEF Ignore, ReadFails, Ready, MayFail, SessionInv, SessionTypes, SessionOK
  <2> QED
    BY <2>1, <2>2
<1>3. SessionTypes'
  BY <1>1, <1>2, EmptySeq DEF SessionInv, SessionTypes
<1>4. SessionOK(s)'
  BY <1>1, <1>2 DEF SessionInv, SessionTypes, SessionOK
<1>5. \A t \in Sessions \ {s} : SessionOK(t)'
  BY <1>1, <1>2, OthersOK DEF SessionInv, SessionTypes
<1> QED
  BY <1>3, <1>4, <1>5 DEF SessionInv

LEMMA WrittenInv ==
    ASSUME SessionInv, NEW s \in Sessions, submitted \in Nat, Written(s)
    PROVE  SessionInv'
<1>1. submitted' = submitted
  BY DEF Written, vars, network
<1>2. writing[s] \in Sendable
  BY DEF Written, SessionInv, SessionTypes, SessionOK
<1>3. SessionTypes'
  BY <1>2, AppendProperties DEF Written, SessionInv, SessionTypes
<1>4. SessionOK(s)'
  BY DEF Written, SessionInv, SessionTypes, SessionOK
<1>5. \A t \in Sessions \ {s} : SessionOK(t)'
  BY <1>1, OthersOK DEF Written, SessionInv, SessionTypes
<1> QED
  BY <1>3, <1>4, <1>5 DEF SessionInv

LEMMA CompleteInv ==
    ASSUME SessionInv, DbInv, Complete
    PROVE  SessionInv'
<1>1. PICK s \in Sessions :
          /\ at[s] = "waiting" /\ asked[s] = Head(posted).cb
          /\ writing' = [writing EXCEPT ![s] =
                             Reply(packet[s].type, Body(packet[s].type, Head(posted).reply),
                                   Head(posted).cb)]
          /\ at' = [at EXCEPT ![s] = "writing"]
  BY DEF Complete
<1> DEFINE c == Head(posted)
           k == packet[s]
           r == Reply(k.type, Body(k.type, c.reply), c.cb)
<1>2. c \in Completions
  BY HeadTailProperties DEF Complete, RunPosted, DbInv, Lines
<1>3. k \in Packets /\ ForDatabase(k) /\ k # Nobody /\ asked[s] \in 1 .. submitted
  BY <1>1 DEF SessionInv, SessionTypes, SessionOK
<1>4. r \in Sendable /\ Answers(k, r) /\ r # Nobody
  <2>1. Body(k.type, c.reply) \in Bodies
    BY <1>2 DEF Body, Bool, Bodies, Replies, Completions
  <2>2. k.type \in Parsed \cup Unparsed
    BY <1>3 DEF ForDatabase
  <2>3. r \in Sendable /\ r.type = k.type /\ r.cb = asked[s]
    BY <1>1, <1>2, <2>1, <2>2 DEF Reply, Sendable, Completions
  <2> QED
    BY <1>3, <2>3, WrittenTypes DEF Answers
<1>5. submitted' = submitted /\ submitted \in Nat
  BY DEF Complete, RunPosted, DbInv, Lines
<1>6. /\ writing' = [writing EXCEPT ![s] = r] /\ at' = [at EXCEPT ![s] = "writing"]
      /\ UNCHANGED <<packet, asked, inbox, outbox, peer>>
  BY <1>1 DEF Complete
<1> HIDE DEF r
<1>7. SessionTypes'
  BY <1>4, <1>6 DEF SessionInv, SessionTypes
<1>8. SessionOK(s)'
  BY <1>1, <1>3, <1>4, <1>6 DEF SessionInv, SessionTypes, SessionOK
<1>9. \A t \in Sessions \ {s} : SessionOK(t)'
  BY <1>5, <1>6, OthersOK DEF SessionInv, SessionTypes
<1> QED
  BY <1>7, <1>8, <1>9 DEF SessionInv

LEMMA EndsInv ==
    ASSUME SessionInv, HangUpAll
    PROVE  SessionInv'
<1>1. SessionTypes'
  BY EmptySeq DEF HangUpAll, SessionInv, SessionTypes
<1>2. \A s \in Sessions : SessionOK(s)'
  BY DEF HangUpAll, SessionInv, SessionTypes, SessionOK
<1> QED
  BY <1>1, <1>2 DEF SessionInv

LEMMA IdleInv ==
    ASSUME SessionInv, UNCHANGED <<sessions, submitted>>
    PROVE  SessionInv'
BY DEF sessions, SessionInv, SessionTypes, SessionOK

LEMMA SessionStepInv ==
    ASSUME SessionInv, DbInv, [ServerNext]_serverVars
    PROVE  SessionInv'
<1>1. submitted \in Nat
  BY DEF DbInv, Lines
<1>2. CASE UNCHANGED serverVars
  BY <1>2, IdleInv DEF serverVars, vars, network
<1>3. ASSUME NEW s \in Sessions, Accept(s) \/ Send(s) \/ HangUp(s) \/ SessionStep(s)
      PROVE  SessionInv'
  BY <1>1, <1>3, ClientInv, AskInv, RespondInv, DropInv, WrittenInv DEF SessionStep
<1>4. CASE Complete
  BY <1>4, CompleteInv
<1>5. CASE DatabaseStep
  <2>1. submitted' = submitted
    BY <1>5 DEF DatabaseStep, SaveTimer, NotifyOne, WorkerStep, CheckQueue, ProcessRequest,
                ProcessSave, WorkerSaved, SaveHistory, Stop, Destroy, FinalSave, network
  <2> QED
    BY <1>5, <2>1, IdleInv DEF DatabaseStep
<1>6. CASE ProcessEnds
  BY <1>6, EndsInv DEF ProcessEnds
<1>7. CASE ProcessStarts
  BY <1>7, IdleInv DEF ProcessStarts, Start
<1> QED
  BY <1>2, <1>3, <1>4, <1>5, <1>6, <1>7 DEF ServerNext

ServerInv == SessionInv /\ OrderInv

\* The server runs the database engine of module Database and nothing else
\* touches its state: every theorem about DbSpec is one about the server.
THEOREM ServerRunsDatabase == ServerSpec => DbSpec
<1>1. ServerInit => SessionInv /\ DbInv /\ DbInit
  BY SessionInit, DbInitInv DEF ServerInit
<1>2. SessionInv /\ DbInv /\ [ServerNext]_serverVars => (SessionInv /\ DbInv)' /\ [DbNext]_vars
  <2>1. SessionInv /\ [ServerNext]_serverVars => [DbNext]_vars
    BY ServerStepsDb DEF serverVars
  <2> QED
    BY <2>1, SessionStepInv, DbStepInv
<1> QED
  BY <1>1, <1>2, PTL DEF ServerSpec, DbSpec

\* What a session holds goes with where it is, whatever the database engine
\* and the other sessions do meanwhile.
THEOREM ServerInvariance == ServerSpec => []ServerInv
<1>1. ServerInit => SessionInv
  BY SessionInit
<1>2. SessionInv /\ OrderInv /\ [ServerNext]_serverVars => SessionInv'
  BY SessionStepInv DEF OrderInv
<1> QED
  BY <1>1, <1>2, ServerRunsDatabase, OrderInvariance, PTL DEF ServerSpec, ServerInv

\* What a session serves, writes and waits for goes with where it is, and a
\* number it waits for is one that was given out.
THEOREM ServerTypeCorrect == ServerSpec => []ServerTypeOK
<1>1. ServerInv => ServerTypeOK
  BY DbInvTypes DEF ServerInv, OrderInv, SessionInv, SessionTypes, SessionOK, ServerTypeOK
<1> QED
  BY <1>1, ServerInvariance, PTL

-----------------------------------------------------------------------------
(* Service, step by step.                                                  *)

Serves(s) == Conn(s)!Next \/ UNCHANGED Conn(s)!connection

LEMMA Undisturbed ==
    ASSUME NEW s \in Sessions, inbox'[s] = inbox[s], packet'[s] = packet[s],
           outbox'[s] = outbox[s], (at'[s] # "closed") = (at[s] # "closed")
    PROVE  Serves(s)
BY DEF Serves, Conn!connection

LEMMA Extended ==
    ASSUME NEW S, NEW q \in Seq(S), NEW x \in S, NEW r, r = Append(q, x)
    PROVE  Len(r) = Len(q) + 1 /\ SubSeq(r, 1, Len(q)) = q /\ r[Len(r)] = x
BY AppendProperties

LEMMA ClientServes ==
    ASSUME SessionInv, NEW s \in Sessions, Accept(s) \/ Send(s) \/ HangUp(s),
           NEW t \in Sessions
    PROVE  Serves(t)
<1>1. CASE Accept(s) \/ HangUp(s) \/ t # s
  BY <1>1, Undisturbed DEF Accept, HangUp, Send, SessionInv, SessionTypes
<1>2. CASE Send(s) /\ t = s
  <2>1. PICK k \in Packets : inbox' = [inbox EXCEPT ![s] = Append(@, k)]
    BY <1>2 DEF Send
  <2>2. inbox'[s] = Append(inbox[s], k) /\ inbox[s] \in Seq(Packets)
    BY <2>1 DEF SessionInv, SessionTypes
  <2>3. Len(inbox'[s]) = Len(inbox[s]) + 1 /\ SubSeq(inbox'[s], 1, Len(inbox[s])) = inbox[s]
    BY <2>2, Extended
  <2> QED
    BY <1>2, <2>3 DEF Send, Serves, Conn!Next, Conn!Arrive
<1> QED
  BY <1>1, <1>2

LEMMA SessionServes ==
    ASSUME SessionInv, NEW s \in Sessions, SessionStep(s), NEW t \in Sessions
    PROVE  Serves(t)
<1>1. CASE t # s
  BY <1>1, Undisturbed DEF SessionStep, Ask, Respond, Ignore, ReadFails, Written, WriteFails,
                          Drop, SessionInv, SessionTypes
<1>2. CASE t = s /\ (Ask(s) \/ Respond(s))
  <2>1. packet[s] = Nobody /\ at[s] # "closed" /\ inbox[s] # <<>>
    BY <1>2 DEF Ask, Respond, Ready, SessionInv, SessionOK
  <2>2. /\ packet'[s] = Head(inbox[s]) /\ inbox'[s] = Tail(inbox[s])
        /\ outbox' = outbox /\ at'[s] # "closed"
    BY <1>2 DEF Ask, Respond, SessionInv, SessionTypes
  <2> QED
    BY <1>2, <2>1, <2>2 DEF Serves, Conn!Next, Conn!Take
<1>3. CASE t = s /\ (Ignore(s) \/ ReadFails(s) \/ WriteFails(s))
  BY <1>3 DEF Ignore, ReadFails, WriteFails, Drop, SessionInv, SessionTypes, Serves, Conn!Next,
              Conn!Close
<1>4. CASE t = s /\ Written(s)
  <2>1. /\ at[s] = "writing" /\ packet[s] # Nobody /\ Answers(packet[s], writing[s])
        /\ outbox[s] \in Seq(Sendable) /\ writing[s] \in Sendable
    BY <1>4 DEF Written, SessionInv, SessionTypes, SessionOK
  <2>2. outbox'[s] = Append(outbox[s], writing[s])
    BY <1>4 DEF Written, SessionInv, SessionTypes
  <2>3. /\ Len(outbox'[s]) = Len(outbox[s]) + 1
        /\ SubSeq(outbox'[s], 1, Len(outbox[s])) = outbox[s]
        /\ outbox'[s][Len(outbox'[s])] = writing[s]
    BY <2>1, <2>2, Extended
  <2>4. packet'[s] = Nobody /\ at'[s] # "closed" /\ inbox' = inbox
    BY <1>4 DEF Written, SessionInv, SessionTypes
  <2> QED
    BY <1>4, <2>1, <2>3, <2>4 DEF Serves, Conn!Next, Conn!Answer
<1> QED
  BY <1>1, <1>2, <1>3, <1>4 DEF SessionStep

LEMMA ServerServes ==
    ASSUME SessionInv, [ServerNext]_serverVars, NEW t \in Sessions
    PROVE  Serves(t)
<1>1. CASE \E s \in Sessions : Accept(s) \/ Send(s) \/ HangUp(s) \/ SessionStep(s)
  BY <1>1, ClientServes, SessionServes
<1>2. CASE Complete
  BY <1>2, Undisturbed DEF Complete, SessionInv, SessionTypes
<1>3. CASE DatabaseStep \/ ProcessStarts \/ UNCHANGED serverVars
  BY <1>3, Undisturbed DEF DatabaseStep, ProcessStarts, serverVars, sessions
<1>4. CASE ProcessEnds
  <2>1. CASE at[t] = "listening"
    BY <1>4, <2>1, Undisturbed DEF ProcessEnds, HangUpAll, SessionInv, SessionOK
  <2>2. CASE at[t] # "listening"
    BY <1>4, <2>2 DEF ProcessEnds, HangUpAll, Serves, Conn!Next, Conn!Close
  <2> QED
    BY <2>1, <2>2
<1> QED
  BY <1>1, <1>2, <1>3, <1>4 DEF ServerNext

\* Every connection is served as module Service says: packets are taken in the
\* order they came, one at a time, and each is answered by a reply of its own.
THEOREM ServiceImplemented == ServerSpec => SessionsServe
<1>1. ServerInit => \A s \in Sessions : Conn(s)!Init
  BY DEF ServerInit, Conn!Init
<1>2. SessionInv /\ [ServerNext]_serverVars
        => [\A s \in Sessions : Conn(s)!Next \/ UNCHANGED Conn(s)!connection]_serverVars
  BY ServerServes DEF Serves
<1>3. ServerInv => SessionInv
  BY DEF ServerInv
<1> QED
  BY <1>1, <1>2, <1>3, ServerInvariance, PTL DEF ServerSpec, SessionsServe

-----------------------------------------------------------------------------
(* Waiting sessions and requests in the engine match one to one.           *)

Holds(s, id) == \E k \in 1 .. Len(s) : Numbered(s[k]) /\ s[k].cb = id

\* Waiting(id), for any state of the three places a request can be in.
InEngine(p, c, q, id) == Holds(p, id) \/ Holds(<<c>>, id) \/ Holds(q, id)

Owned ==
    /\ \A id \in 1 .. submitted :
           InEngine(posted, current, queue, id)
               => \E s \in Sessions : at[s] = "waiting" /\ asked[s] = id
    /\ \A s \in Sessions :
           at[s] = "waiting" => InEngine(posted, current, queue, asked[s])
    /\ \A s, t \in Sessions :
           at[s] = "waiting" /\ at[t] = "waiting" /\ asked[s] = asked[t] => s = t

LEMMA HoldsConcat ==
    ASSUME NEW S, NEW s \in Seq(S), NEW t \in Seq(S), NEW id
    PROVE  Holds(s \o t, id) <=> Holds(s, id) \/ Holds(t, id)
<1> DEFINE l == s \o t
<1>1. /\ Len(s) \in Nat /\ Len(t) \in Nat /\ Len(l) = Len(s) + Len(t)
      /\ \A i \in 1 .. Len(s) : i \in 1 .. Len(l) /\ l[i] = s[i]
      /\ \A j \in 1 .. Len(t) : Len(s) + j \in 1 .. Len(l) /\ l[Len(s) + j] = t[j]
  BY ConcatProperties, LenProperties
<1> HIDE DEF l
<1>2. \A i \in 1 .. Len(l) :
         \/ i \in 1 .. Len(s) /\ l[i] = s[i]
         \/ i - Len(s) \in 1 .. Len(t) /\ l[i] = t[i - Len(s)]
  <2> SUFFICES ASSUME NEW i \in 1 .. Len(l), ~ (i \in 1 .. Len(s))
               PROVE  i - Len(s) \in 1 .. Len(t) /\ l[i] = t[i - Len(s)]
    BY <1>1
  <2>1. i - Len(s) \in 1 .. Len(t) /\ Len(s) + (i - Len(s)) = i
    BY <1>1
  <2> QED
    BY <1>1, <2>1
<1>3. Holds(l, id) => Holds(s, id) \/ Holds(t, id)
  BY <1>2, Zenon DEF Holds
<1>4. Holds(s, id) \/ Holds(t, id) => Holds(l, id)
  BY <1>1, Zenon DEF Holds
<1> QED
  BY <1>3, <1>4 DEF l

LEMMA HoldsOne ==
    ASSUME NEW x, NEW id
    PROVE  Holds(<<x>>, id) <=> Numbered(x) /\ x.cb = id
BY DEF Holds

\* An item is a numbered request or a SaveOp.
LEMMA ItemNumbers ==
    /\ \A x \in Items : x.op = "request" <=> Numbered(x)
    /\ \A x \in Completions : Numbered(x)
    /\ NoItem.op # "request" /\ ~Numbered(NoItem)
    /\ ~Numbered(SaveOp)
<1>1. \A x \in RequestItems : x.op = "request" /\ Numbered(x)
  BY DEF RequestItems, Numbered
<1>2. SaveOp.op # "request" /\ ~Numbered(SaveOp)
  BY DEF SaveOp, Numbered
<1>3. NoItem.op # "request" /\ ~Numbered(NoItem)
  BY DEF NoItem, Numbered
<1>4. \A x \in Completions : Numbered(x)
  BY DEF Completions, Numbered
<1> QED
  BY <1>1, <1>2, <1>3, <1>4 DEF Items

LEMMA WaitingHolds ==
    ASSUME DbInv, NEW id
    PROVE  Waiting(id) <=> InEngine(posted, current, queue, id)
<1>1. \A k \in 1 .. Len(posted) : Numbered(posted[k])
  BY ItemNumbers, ElementOfSeq DEF DbInv, Lines
<1>2. \A k \in 1 .. Len(queue) : queue[k].op = "request" <=> Numbered(queue[k])
  BY ItemNumbers, ElementOfSeq DEF DbInv, Lines
<1>3. current.op = "request" <=> Numbered(current)
  BY ItemNumbers DEF DbInv, Threads
<1>4. (\E k \in 1 .. Len(posted) : posted[k].cb = id) <=> Holds(posted, id)
  BY <1>1 DEF Holds
<1>5. (\E k \in 1 .. Len(queue) : queue[k].op = "request" /\ queue[k].cb = id)
         <=> Holds(queue, id)
  BY <1>2 DEF Holds
<1> QED
  BY <1>3, <1>4, <1>5, HoldsOne DEF Waiting, InEngine

\* Steps of the worker hand a request on; they neither lose nor repeat one.
LEMMA WorkerKeepsWaiting ==
    ASSUME DbInv, DbInv', DatabaseStep, NEW id
    PROVE  InEngine(posted', current', queue', id) <=> InEngine(posted, current, queue, id)
<1> USE DEF InEngine
<1>1. /\ posted \in Seq(Things) /\ <<current>> \in Seq(Things) /\ queue \in Seq(Things)
  BY LineParts
<1>2. CASE UNCHANGED <<posted, current, queue>>
  BY <1>2
<1>3. CASE SaveTimer
  <2>1. SaveOp \in Things
    BY DEF Items, Things
  <2>2. queue' = queue \o <<SaveOp>> /\ <<SaveOp>> \in Seq(Things)
    BY <1>1, <1>3, <2>1, AppendIsConcat DEF SaveTimer
  <2>3. ~Holds(<<SaveOp>>, id)
    BY ItemNumbers, HoldsOne
  <2>4. Holds(queue', id) <=> Holds(queue, id)
    BY <1>1, <2>2, <2>3, HoldsConcat
  <2> QED
    BY <1>3, <2>4 DEF SaveTimer, network
<1>4. CASE CheckQueue
  <2>1. CASE queue # <<>> /\ current' = Head(queue) /\ queue' = Tail(queue)
    <3>1. <<current'>> \in Seq(Things) /\ queue' \in Seq(Things) /\ queue = <<current'>> \o queue'
      BY <1>1, <2>1, HeadThenTail
    <3>2. Holds(queue, id) <=> Holds(<<current'>>, id) \/ Holds(queue', id)
      BY <3>1, HoldsConcat
    <3>3. ~Holds(<<current>>, id)
      BY <1>4, ItemNumbers, HoldsOne DEF CheckQueue, DbInv, Threads
    <3> QED
      BY <1>4, <3>2, <3>3 DEF CheckQueue, network
  <2> QED
    BY <1>2, <1>4, <2>1 DEF CheckQueue, network, Popped
<1>5. CASE ProcessRequest
  <2> DEFINE x == [cb |-> current.cb, reply |-> reply']
  <2>1. current \in RequestItems
    BY <1>5 DEF ProcessRequest, Busy, DbInv, Threads, Items
  <2>2. x \in Completions
    BY <2>1 DEF RequestItems, Completions, DbInv, TypeOK
  <2>3. posted' = posted \o <<x>> /\ <<x>> \in Seq(Things)
    BY <1>1, <1>5, <2>2, AppendIsConcat DEF ProcessRequest, Things
  <2>4. x.cb = current.cb
    OBVIOUS
  <2> HIDE DEF x
  <2>5. Holds(<<x>>, id) <=> Holds(<<current>>, id)
    <3>1. Numbered(x)
      BY <2>2, ItemNumbers
    <3>2. Numbered(current)
      BY <2>1 DEF RequestItems, Numbered
    <3> QED
      BY <2>4, <3>1, <3>2, HoldsOne
  <2>6. ~Holds(<<current'>>, id)
    BY <1>5, ItemNumbers, HoldsOne DEF ProcessRequest, Done
  <2>7. Holds(posted', id) <=> Holds(posted, id) \/ Holds(<<x>>, id)
    BY <1>1, <2>3, HoldsConcat
  <2> QED
    BY <1>5, <2>5, <2>6, <2>7 DEF ProcessRequest
<1>6. CASE ProcessSave \/ WorkerSaved
  <2>1. current = SaveOp /\ UNCHANGED <<posted, queue>> /\ current' \in {SaveOp, NoItem}
    BY <1>6 DEF ProcessSave, WorkerSaved, CloseDatabase, Done, network, DbInv, Saving
  <2>2. ~Holds(<<current>>, id) /\ ~Holds(<<current'>>, id)
    BY <2>1, ItemNumbers, HoldsOne
  <2> QED
    BY <2>1, <2>2
<1>7. CASE NotifyOne \/ SaveHistory \/ Stop \/ Destroy \/ FinalSave
  <2>1. UNCHANGED <<posted, current, queue>>
    BY <1>7 DEF NotifyOne, SaveHistory, Stop, Destroy, FinalSave, network, threads
  <2> QED
    BY <1>2, <2>1
<1> QED
  BY <1>3, <1>4, <1>5, <1>6, <1>7 DEF DatabaseStep, WorkerStep

LEMMA SubmitWaits ==
    ASSUME DbInv, NEW r \in Requests, Submit(r), NEW id
    PROVE  InEngine(posted', current', queue', id)
               <=> InEngine(posted, current, queue, id) \/ id = submitted'
<1> DEFINE x == Item(r, submitted')
<1>1. x \in Items /\ Numbered(x) /\ x.cb = submitted'
  BY DEF Item, Items, RequestItems, DbInv, Lines, Submit, Numbered
<1>2. /\ queue \in Seq(Things) /\ <<x>> \in Seq(Things) /\ queue' = queue \o <<x>>
      /\ UNCHANGED <<posted, current>>
  BY <1>1, LineParts, AppendIsConcat DEF Submit, Things
<1> HIDE DEF x
<1>3. Holds(queue', id) <=> Holds(queue, id) \/ id = submitted'
  BY <1>1, <1>2, HoldsConcat, HoldsOne
<1> QED
  BY <1>2, <1>3 DEF InEngine

\* The completion that is being run is the last trace of its request.
LEMMA RunPostedWaits ==
    ASSUME OrderInv, RunPosted, NEW id
    PROVE  InEngine(posted', current', queue', id)
               <=> InEngine(posted, current, queue, id) /\ id # Head(posted).cb
<1> DEFINE h == Head(posted)
           y == <<h>>
<1>1. /\ posted \in Seq(Things) /\ <<current>> \in Seq(Things) /\ queue \in Seq(Things)
  BY LineParts DEF OrderInv
<1>2. h \in Completions /\ Numbered(h) /\ h.cb \in Nat
  BY HeadTailProperties, ItemNumbers DEF RunPosted, OrderInv, DbInv, Lines, Completions
<1>3. y \in Seq(Things) /\ posted' \in Seq(Things) /\ posted = y \o posted'
  BY <1>1, HeadThenTail DEF RunPosted
<1>4. UNCHANGED <<current, queue>>
  BY DEF RunPosted, threads
<1>5. Len(y) = 1 /\ y[1] = h
  BY One
<1> HIDE DEF h, y
<1>6. Before(y, posted') /\ Before(y, <<current>>) /\ Before(y, queue)
  BY <1>1, <1>3, AscendingConcat, BeforeConcat DEF OrderInv, Ordered, InLine
<1>7. \A s : Before(y, s) => ~Holds(s, h.cb)
  BY <1>2, <1>5 DEF Before, Holds
<1>8. Holds(posted, id) <=> id = h.cb \/ Holds(posted', id)
  <2>1. Holds(posted, id) <=> Holds(y, id) \/ Holds(posted', id)
    BY <1>3, HoldsConcat
  <2>2. Holds(y, id) <=> id = h.cb
    BY <1>2, <1>5 DEF Holds
  <2> QED
    BY <2>1, <2>2
<1>9. ~Holds(posted', h.cb) /\ ~Holds(<<current>>, h.cb) /\ ~Holds(queue, h.cb)
  BY <1>6, <1>7
<1> QED
  BY <1>4, <1>8, <1>9 DEF h, InEngine

LEMMA IdleOwned ==
    ASSUME Owned, UNCHANGED <<at, asked, submitted>>,
           \A id : InEngine(posted', current', queue', id) <=> InEngine(posted, current, queue, id)
    PROVE  Owned'
BY DEF Owned

LEMMA SessionOwned ==
    ASSUME ServerInv, ServerInv', Owned, NEW s \in Sessions,
           Accept(s) \/ Send(s) \/ HangUp(s) \/ SessionStep(s)
    PROVE  Owned'
<1>1. CASE ~Ask(s)
  <2>1. UNCHANGED <<vars, asked>> \/ Respond(s)
    BY <1>1 DEF Accept, Send, HangUp, SessionStep, Ignore, ReadFails, Written, WriteFails
  <2>2. UNCHANGED <<posted, current, queue, submitted>>
    BY <2>1 DEF Respond, vars, network, threads
  <2>3. \A id : InEngine(posted', current', queue', id) <=> InEngine(posted, current, queue, id)
    BY <2>2
  <2>4. \A t \in Sessions : /\ at'[t] = "waiting" <=> at[t] = "waiting"
                            /\ at[t] = "waiting" => asked'[t] = asked[t]
    <3>1. \/ at[s] # "waiting" /\ at'[s] # "waiting"
          \/ UNCHANGED <<at, asked>>
      BY <1>1 DEF Accept, Send, HangUp, SessionStep, Respond, Ignore, ReadFails, Written,
                  WriteFails, Drop, Ready, MayFail, ServerInv, SessionInv, SessionTypes
    <3>2. \A t \in Sessions \ {s} : at'[t] = at[t] /\ asked'[t] = asked[t]
      BY <1>1 DEF Accept, Send, HangUp, SessionStep, Respond, Ignore, ReadFails, Written,
                  WriteFails, Drop, ServerInv, SessionInv, SessionTypes
    <3> QED
      BY <3>1, <3>2
  <2> QED
    BY <2>2, <2>3, <2>4 DEF Owned
<1>2. CASE Ask(s)
  <2> DEFINE r == Head(inbox[s]).request
  <2>1. r \in Requests /\ Submit(r)
    BY <1>2, NextPacket, PacketTypes DEF Ask, ServerInv
  <2>2. submitted \in Nat /\ submitted' = submitted + 1
    BY <2>1 DEF Submit, ServerInv, OrderInv, DbInv, Lines
  <2> HIDE DEF r
  <2>3. \A id : InEngine(posted', current', queue', id)
                    <=> InEngine(posted, current, queue, id) \/ id = submitted'
    BY <2>1, SubmitWaits DEF ServerInv, OrderInv
  <2>4. /\ at[s] = "reading" /\ at'[s] = "waiting" /\ asked'[s] = submitted'
        /\ \A t \in Sessions \ {s} : at'[t] = at[t] /\ asked'[t] = asked[t]
    BY <1>2 DEF Ask, Ready, ServerInv, SessionInv, SessionTypes
  <2>5. \A t \in Sessions : at[t] = "waiting" => asked[t] \in 1 .. submitted
    BY DEF ServerInv, SessionInv, SessionOK
  <2>6. \A id \in 1 .. submitted' :
            InEngine(posted', current', queue', id)
                => \E t \in Sessions : at'[t] = "waiting" /\ asked'[t] = id
    <3> SUFFICES ASSUME NEW id \in 1 .. submitted', InEngine(posted', current', queue', id)
                 PROVE  \E t \in Sessions : at'[t] = "waiting" /\ asked'[t] = id
      OBVIOUS
    <3>1. CASE id = submitted'
      BY <2>4, <3>1
    <3>2. CASE id # submitted'
      <4>1. id \in 1 .. submitted /\ InEngine(posted, current, queue, id)
        BY <2>2, <2>3, <3>2
      <4>2. PICK t \in Sessions : at[t] = "waiting" /\ asked[t] = id
        BY <4>1 DEF Owned
      <4> QED
        BY <2>4, <4>2
    <3> QED
      BY <3>1, <3>2
  <2>7. \A t \in Sessions : at'[t] = "waiting" => InEngine(posted', current', queue', asked'[t])
    BY <2>3, <2>4 DEF Owned
  <2>8. \A t, u \in Sessions :
            at'[t] = "waiting" /\ at'[u] = "waiting" /\ asked'[t] = asked'[u] => t = u
    BY <2>2, <2>4, <2>5 DEF Owned
  <2> QED
    BY <2>6, <2>7, <2>8 DEF Owned
<1> QED
  BY <1>1, <1>2

LEMMA CompleteOwned ==
    ASSUME ServerInv, ServerInv', Owned, Complete
    PROVE  Owned'
<1> DEFINE n == Head(posted).cb
<1>1. PICK s \in Sessions :
          at[s] = "waiting" /\ asked[s] = n /\ at' = [at EXCEPT ![s] = "writing"]
  BY DEF Complete
<1>2. \A id : InEngine(posted', current', queue', id)
                  <=> InEngine(posted, current, queue, id) /\ id # n
  BY RunPostedWaits DEF Complete, ServerInv, OrderInv
<1>3. UNCHANGED <<asked, submitted>>
  BY DEF Complete, RunPosted
<1> HIDE DEF n
<1>4. at'[s] = "writing" /\ \A t \in Sessions \ {s} : at'[t] = at[t]
  BY <1>1 DEF ServerInv, SessionInv, SessionTypes
<1>5. \A id \in 1 .. submitted :
          InEngine(posted', current', queue', id)
              => \E t \in Sessions : at'[t] = "waiting" /\ asked[t] = id
  <2> SUFFICES ASSUME NEW id \in 1 .. submitted, InEngine(posted', current', queue', id)
               PROVE  \E t \in Sessions : at'[t] = "waiting" /\ asked[t] = id
    OBVIOUS
  <2>1. PICK t \in Sessions : at[t] = "waiting" /\ asked[t] = id
    BY <1>2 DEF Owned
  <2>2. t # s
    BY <1>1, <1>2, <2>1
  <2> QED
    BY <1>4, <2>1, <2>2
<1>6. \A t \in Sessions : at'[t] = "waiting" => InEngine(posted', current', queue', asked[t])
  <2> SUFFICES ASSUME NEW t \in Sessions, at'[t] = "waiting"
               PROVE  InEngine(posted', current', queue', asked[t])
    OBVIOUS
  <2>1. t # s /\ at[t] = "waiting"
    BY <1>4
  <2>2. asked[t] # n /\ InEngine(posted, current, queue, asked[t])
    BY <1>1, <2>1 DEF Owned
  <2> QED
    BY <1>2, <2>2
<1>7. \A t, u \in Sessions :
          at'[t] = "waiting" /\ at'[u] = "waiting" /\ asked[t] = asked[u] => t = u
  BY <1>4 DEF Owned
<1> QED
  BY <1>3, <1>5, <1>6, <1>7 DEF Owned

LEMMA EndsOwned ==
    ASSUME ProcessEnds, Owned, ServerInv
    PROVE  Owned'
<1>1. \A s \in Sessions : at'[s] # "waiting"
  BY DEF ProcessEnds, HangUpAll
<1>2. posted' = <<>> /\ queue' = <<>> /\ current' = NoItem
  BY DEF ProcessEnds, FinalSaved, Crash, Gone
<1>3. \A id : ~InEngine(posted', current', queue', id)
  BY <1>2 DEF InEngine, Holds, NoItem, Numbered
<1> QED
  BY <1>1, <1>3 DEF Owned

LEMMA OwnedStep ==
    ASSUME ServerInv, ServerInv', Owned, [ServerNext]_serverVars
    PROVE  Owned'
<1>1. CASE DatabaseStep
  <2>1. UNCHANGED <<at, asked, submitted>>
    BY <1>1 DEF DatabaseStep, sessions, SaveTimer, NotifyOne, WorkerStep, CheckQueue,
                ProcessRequest, ProcessSave, WorkerSaved, SaveHistory, Stop, Destroy,
                FinalSave, network
  <2> QED
    BY <1>1, <2>1, WorkerKeepsWaiting, IdleOwned DEF ServerInv, OrderInv
<1>2. CASE ProcessStarts \/ UNCHANGED serverVars
  <2>1. UNCHANGED <<at, asked, submitted, posted, current, queue>>
    BY <1>2 DEF ProcessStarts, Start, serverVars, sessions, vars, network, threads
  <2> QED
    BY <2>1, IdleOwned
<1> QED
  BY <1>1, <1>2, SessionOwned, CompleteOwned, EndsOwned DEF ServerNext

\* Every request in the database engine is waited for by exactly one session,
\* and no session waits for an answer that cannot come: sessions neither die
\* waiting nor are overtaken, whatever clients send and whenever they hang up.
THEOREM RequestsStayOwned == ServerSpec => []RequestsOwned
<1>1. ServerInit => Owned
  BY DEF ServerInit, DbInit, Owned, InEngine, Holds, NoItem, Numbered
<1>2. ServerInv /\ ServerInv' /\ Owned /\ [ServerNext]_serverVars => Owned'
  BY OwnedStep
<1>3. ServerInv /\ Owned => RequestsOwned
  BY WaitingHolds DEF ServerInv, OrderInv, Owned, RequestsOwned
<1> QED
  BY <1>1, <1>2, <1>3, ServerInvariance, PTL DEF ServerSpec

=============================================================================
