---------------------------- MODULE ClientProofs ----------------------------
(***************************************************************************)
(* The terminal's end of a connection, for every number of requests: every *)
(* handler is called exactly once, and, as long as a packet goes out in    *)
(* one piece, with the reply to its own request.                           *)
(*                                                                         *)
(* Two inductive invariants.  OnceInv counts: a handler moves from the     *)
(* posted functions to _pending to the calls made.  MatchInv lines _pending *)
(* up with what is on its way to and from the server: the replies not read *)
(* yet, the packet being served, the packets on the wire and the writes    *)
(* that wait, in this order.                                               *)
(***************************************************************************)
EXTENDS Client, Integers, TLAPS, SequenceTheorems, FiniteSetTheorems

\* What a server says is a member of Texts, whatever these are.
Answers(Texts) == [to : Nat, says : Texts \cup {"nothing"}]
Events(Texts) ==
    [kind : {"call"}, id : Nat, ok : BOOLEAN, reply : Answers(Texts)] \cup {Lost, Refused}

ClientTypes(Texts) ==
    /\ ClientTypeOK
    /\ events \in Seq(Events(Texts))
    /\ outbox \in Seq(Answers(Texts))

\* A client, with as many requests as it likes, and a server that may say any
\* of the Texts.
Serves(Texts) == Take \/ ServerCloses \/ \E says \in Texts : ServerAnswers(says)
ClientActs(Texts) == SendRequest \/ OnDisconnect \/ IoStep \/ Serves(Texts)

AnyText == {"any"}

LEMMA ClientNextActs == ClientNext => ClientActs(AnyText)
BY DEF ClientNext, ClientActs, ServerStep, Serves, AnyText

LEMMA ClientInitTypes ==
    ASSUME NEW Texts
    PROVE ClientInit => ClientTypes(Texts)
<1> SUFFICES ASSUME ClientInit PROVE ClientTypes(Texts)
  OBVIOUS
<1>1. \A S : <<>> \in Seq(S)
  BY EmptySeq
<1>2. got \in 0 .. Len(outbox)
  BY DEF ClientInit
<1>3. ClientTypeOK
  BY <1>1, <1>2 DEF ClientInit, ClientTypeOK
<1> QED
  BY <1>1, <1>3 DEF ClientInit, ClientTypes

\* Numbers given out stay numbers given out.
LEMMA MoreIds ==
    ASSUME made \in Nat, made' = made + 1
    PROVE  /\ made' \in Nat
           /\ \A s \in Seq(Ids) : s \in Seq(1 .. made')
           /\ \A s \in Seq([id : Ids, left : 1 .. 2]) : s \in Seq([id : 1 .. made', left : 1 .. 2])
           /\ \A s \in Seq([of : Ids, part : 1 .. 2]) : s \in Seq([of : 1 .. made', part : 1 .. 2])
<1>1. Ids \subseteq 1 .. made'
  BY DEF Ids
<1>2. [id : Ids, left : 1 .. 2] \subseteq [id : 1 .. made', left : 1 .. 2]
  BY <1>1
<1>3. [of : Ids, part : 1 .. 2] \subseteq [of : 1 .. made', part : 1 .. 2]
  BY <1>1
<1>4. \A s \in Seq(Ids) : s \in Seq(1 .. made')
  BY <1>1, SeqMonotonic
<1>5. \A s \in Seq([id : Ids, left : 1 .. 2]) : s \in Seq([id : 1 .. made', left : 1 .. 2])
  BY <1>2, SeqMonotonic
<1>6. \A s \in Seq([of : Ids, part : 1 .. 2]) : s \in Seq([of : 1 .. made', part : 1 .. 2])
  BY <1>3, SeqMonotonic
<1>7. made' \in Nat
  OBVIOUS
<1> QED
  BY <1>4, <1>5, <1>6, <1>7, Zenon

LEMMA SendRequestTypes ==
    ASSUME NEW Texts, ClientTypes(Texts), SendRequest
    PROVE  ClientTypes(Texts)'
<1>1. made \in Nat /\ made' = made + 1
  BY DEF ClientTypes, ClientTypeOK, SendRequest
<1>2. posts \in Seq(1 .. made') /\ made' \in 1 .. made'
  BY <1>1, MoreIds DEF ClientTypes, ClientTypeOK
<1>3. posts' \in Seq(1 .. made')
  BY <1>2, AppendProperties DEF SendRequest
<1>4. /\ pending' \in Seq(1 .. made')
      /\ writes' \in Seq([id : 1 .. made', left : 1 .. 2])
      /\ stream' \in Seq([of : 1 .. made', part : 1 .. 2])
  BY <1>1, MoreIds DEF ClientTypes, ClientTypeOK, SendRequest, server
<1>5. serving' \in {<<>>} \cup {<<k>> : k \in (1 .. made') \cup {0}}
  BY <1>1 DEF ClientTypes, ClientTypeOK, SendRequest, server, Ids
<1> QED
  BY <1>1, <1>3, <1>4, <1>5 DEF ClientTypes, ClientTypeOK, SendRequest, server, Ids

LEMMA EventTypes ==
    ASSUME NEW Texts
    PROVE  /\ Lost \in Events(Texts) /\ Refused \in Events(Texts)
           /\ \A id \in Nat : Failed(id) \in Events(Texts)
           /\ \A id \in Nat, r \in Answers(Texts) : Called(id, TRUE, r) \in Events(Texts)
BY DEF Events, Failed, Called, Answers

LEMMA EventAppended ==
    ASSUME NEW Texts, ClientTypes(Texts), NEW e \in Events(Texts)
    PROVE  Append(events, e) \in Seq(Events(Texts))
BY AppendProperties DEF ClientTypes

LEMMA NoticeTypes ==
    ASSUME NEW Texts
    PROVE  Notice \in Seq(Events(Texts))
<1> DEFINE E == Events(Texts)
<1>1. Lost \in E
  BY EventTypes
<1> HIDE DEF E
<1>2. Notice \in Seq(E)
  BY <1>1 DEF Notice
<1> QED
  BY <1>2 DEF E

LEMMA FailPendingTypes ==
    ASSUME NEW Texts, pending \in Seq(Ids), made \in Nat
    PROVE  FailPending \in Seq(Events(Texts)) /\ Len(FailPending) = Len(pending)
<1>1. \A k \in 1 .. Len(pending) : pending[k] \in Nat
  BY ElementOfSeq DEF Ids
<1>2. Len(pending) \in Nat
  BY LenProperties
<1> DEFINE E == Events(Texts)
<1>3. \A k \in 1 .. Len(pending) : Failed(pending[k]) \in E
  BY <1>1, EventTypes
<1> HIDE DEF E
<1>4. FailPending \in Seq(E) /\ Len(FailPending) = Len(pending)
  BY <1>2, <1>3 DEF FailPending
<1> QED
  BY <1>4 DEF E

LEMMA TerminalTypes ==
    ASSUME NEW Texts, ClientTypes(Texts), OnDisconnect \/ Connect \/ RunPost
    PROVE  ClientTypes(Texts)'
<1> USE DEF ClientTypes, ClientTypeOK, Ids
<1>1. CASE OnDisconnect
  BY <1>1 DEF OnDisconnect, server
<1>2. CASE Connect
  <2>1. events' \in Seq(Events(Texts))
    BY <1>2, EventTypes, EventAppended DEF Connect
  <2> QED
    <3>1. UNCHANGED <<made, posts, pending, hook, writes, got, server>> /\ ~connected
      BY <1>2 DEF Connect
    <3>2. \/ link' = "up" /\ connected' = TRUE
          \/ link' = "refused" /\ connected' = connected
      BY <1>2 DEF Connect
    <3>3. /\ link' \in {"connecting", "refused", "up", "lost"}
          /\ connected' \in BOOLEAN /\ (connected' => link' = "up")
      <4>1. CASE link' = "up" /\ connected' = TRUE
        BY <4>1
      <4>2. CASE link' = "refused" /\ connected' = connected
        <5>1. connected' = FALSE
          BY <3>1, <4>2
        <5> QED
          BY <4>2, <5>1
      <4> QED
        BY <3>2, <4>1, <4>2
    <3> QED
      BY <2>1, <3>1, <3>3 DEF server
<1>3. CASE RunPost
  <2>1. Head(posts) \in Ids /\ Tail(posts) \in Seq(Ids) /\ Head(posts) \in Nat
    <3>1. posts # <<>>
      BY <1>3 DEF RunPost
    <3>2. Head(posts) \in Ids /\ Tail(posts) \in Seq(Ids)
      BY <3>1, HeadTailProperties
    <3> QED
      BY <3>2
  <2>2. [id |-> Head(posts), left |-> 2] \in [id : Ids, left : 1 .. 2]
    BY <2>1
  <2>3. CASE connected
    <3>1. pending' = Append(pending, Head(posts))
      BY <1>3, <2>3 DEF RunPost
    <3>2. writes' = Append(writes, [id |-> Head(posts), left |-> 2])
      BY <1>3, <2>3 DEF RunPost
    <3>3. pending' \in Seq(Ids)
      BY <2>1, <3>1, AppendProperties
    <3>4. writes' \in Seq([id : Ids, left : 1 .. 2])
      BY <2>2, <3>2, AppendProperties
    <3> QED
      BY <1>3, <2>1, <2>3, <3>3, <3>4 DEF RunPost, server
  <2>4. CASE ~connected
    <3>1. events' \in Seq(Events(Texts))
      BY <1>3, <2>1, <2>4, EventTypes, EventAppended DEF RunPost
    <3> QED
      BY <1>3, <2>1, <2>4, <3>1 DEF RunPost, server
  <2> QED
    BY <2>3, <2>4
<1> QED
  BY <1>1, <1>2, <1>3

\* What one async_write hands to the socket.
LEMMA ChunksTypes ==
    ASSUME NEW w \in [id : Ids, left : 1 .. 2], NEW n \in 1 .. w.left
    PROVE  /\ Chunks(w, n) \in Seq([of : Ids, part : 1 .. 2])
           /\ Len(Chunks(w, n)) = n
           /\ \A k \in 1 .. n : Chunks(w, n)[k] = [of |-> w.id, part |-> 2 - w.left + k]
<1>1. /\ n \in Nat
      /\ \A k \in 1 .. n :
             [of |-> w.id, part |-> 2 - w.left + k] \in [of : Ids, part : 1 .. 2]
  OBVIOUS
<1> QED
  BY <1>1 DEF Chunks

LEMMA WriteTypes ==
    ASSUME NEW Texts, ClientTypes(Texts), Write \/ WriteFails
    PROVE  ClientTypes(Texts)'
<1> USE DEF ClientTypes, ClientTypeOK, Ids
<1>1. writes # <<>>
  BY DEF Write, WriteFails
<1>2. Head(writes) \in [id : Ids, left : 1 .. 2] /\ Tail(writes) \in Seq([id : Ids, left : 1 .. 2])
  BY <1>1, HeadTailProperties
<1>3. CASE Write
  <2> DEFINE w == Head(writes)
  <2>1. PICK n \in 1 .. w.left :
            /\ stream' = IF open THEN stream \o Chunks(w, n) ELSE stream
            /\ writes' = IF n = w.left THEN Tail(writes)
                         ELSE Append(Tail(writes), [w EXCEPT !.left = @ - n])
    BY <1>3 DEF Write
  <2>2. stream' \in Seq([of : Ids, part : 1 .. 2])
    BY <1>2, <2>1, ChunksTypes, ConcatProperties
  <2>3. n # w.left => [w EXCEPT !.left = @ - n] \in [id : Ids, left : 1 .. 2]
    <3>1. w = [id |-> w.id, left |-> w.left] /\ w.id \in Ids /\ w.left \in 1 .. 2
      BY <1>2
    <3> HIDE DEF w
    <3>2. n # w.left => w.left - n \in 1 .. 2
      BY <3>1
    <3> QED
      BY <3>1, <3>2
  <2>4. writes' \in Seq([id : Ids, left : 1 .. 2])
    BY <1>2, <2>1, <2>3, AppendProperties
  <2> QED
    BY <1>3, <2>2, <2>4 DEF Write
<1>4. CASE WriteFails
  <2>1. events' \in Seq(Events(Texts))
    BY <1>4, NoticeTypes, ConcatProperties DEF WriteFails
  <2> QED
    BY <1>2, <1>4, <2>1 DEF WriteFails, Moved, server
<1> QED
  BY <1>3, <1>4

LEMMA ReceiveTypes ==
    ASSUME NEW Texts, ClientTypes(Texts), Receive \/ ReceiveFails
    PROVE  ClientTypes(Texts)'
<1> USE DEF ClientTypes, ClientTypeOK, Ids
<1>1. CASE Receive
  <2>1. got' \in 0 .. Len(outbox) /\ outbox[got'] \in Answers(Texts)
    BY <1>1, ElementOfSeq, LenProperties DEF Receive
  <2>2. CASE pending = <<>>
    BY <1>1, <2>1, <2>2 DEF Receive, server
  <2>3. CASE pending # <<>>
    <3>1. Head(pending) \in Nat /\ Tail(pending) \in Seq(Ids)
      BY <2>3, HeadTailProperties
    <3>2. Called(Head(pending), TRUE, outbox[got']) \in Events(Texts)
      BY <2>1, <3>1, EventTypes
    <3>3. events' \in Seq(Events(Texts))
      BY <1>1, <2>3, <3>2, EventAppended DEF Receive, NextHandler
    <3> QED
      BY <1>1, <2>1, <2>3, <3>1, <3>3 DEF Receive, server, Popped
  <2> QED
    BY <2>2, <2>3
<1>2. CASE ReceiveFails
  <2>1. events \o Notice \in Seq(Events(Texts))
    BY NoticeTypes, ConcatProperties
  <2>2. events' \in Seq(Events(Texts))
    BY <1>2, <2>1, FailPendingTypes, ConcatProperties DEF ReceiveFails
  <2> QED
    BY <1>2, <2>2, EmptySeq DEF ReceiveFails, Moved, server
<1> QED
  BY <1>1, <1>2

LEMMA ServerTypes ==
    ASSUME NEW Texts, ClientTypes(Texts), Serves(Texts)
    PROVE  ClientTypes(Texts)'
<1> USE DEF ClientTypes, ClientTypeOK, Ids
<1>1. CASE Take
  <2>1. \A k \in 1 .. Len(stream) : stream[k] \in [of : Ids, part : 1 .. 2]
    BY ElementOfSeq
  <2>2. Len(stream) \in Nat /\ Len(stream) >= 2
    BY <1>1, LenProperties DEF Take
  <2>3. Framed(stream[1], stream[2]) \in Ids \cup {0}
    BY <2>1, <2>2 DEF Framed
  <2>4. SubSeq(stream, 3, Len(stream)) \in Seq([of : Ids, part : 1 .. 2])
    BY <2>1, <2>2, SubSeqProperties
  <2> QED
    BY <1>1, <2>3, <2>4 DEF Take, io
<1>2. CASE \E says \in Texts : ServerAnswers(says)
  <2> PICK says \in Texts : ServerAnswers(says)
    BY <1>2
  <2>1. serving[1] \in Nat
    BY DEF ServerAnswers
  <2>2. outbox' \in Seq(Answers(Texts)) /\ Len(outbox') = Len(outbox) + 1
    BY <2>1, AppendProperties DEF ServerAnswers, Answers
  <2>3. Len(outbox) \in Nat
    BY LenProperties
  <2> QED
    BY <2>2, <2>3 DEF ServerAnswers, io
<1>3. CASE ServerCloses
  BY <1>3, EmptySeq DEF ServerCloses, io
<1> QED
  BY <1>1, <1>2, <1>3 DEF Serves

LEMMA ClientStepTypes ==
    ASSUME NEW Texts, ClientTypes(Texts), [ClientActs(Texts)]_clientVars
    PROVE  ClientTypes(Texts)'
<1>1. CASE UNCHANGED clientVars
  BY <1>1 DEF clientVars, io, server, ClientTypes, ClientTypeOK, Ids
<1> QED
  BY <1>1, SendRequestTypes, TerminalTypes, WriteTypes, ReceiveTypes, ServerTypes
     DEF ClientActs, IoStep

\* However the pages, the io thread and the server interleave, partial writes
\* and disconnections included, what the client holds stays well-formed.
THEOREM ClientTypeCorrect == ClientSpec => []ClientTypes(AnyText)
<1>1. ClientInit => ClientTypes(AnyText)
  BY ClientInitTypes
<1>2. ClientTypes(AnyText) /\ [ClientNext]_clientVars => ClientTypes(AnyText)'
  BY ClientStepTypes, ClientNextActs
<1> QED
  BY <1>1, <1>2, PTL DEF ClientSpec

-----------------------------------------------------------------------------
(* Counting handlers.                                                      *)

Count(s, id) == Cardinality(Places(s, id))

\* Whose handler each event calls; 0 for the events that call none.
CallIds(s) == [k \in 1 .. Len(s) |-> IF s[k].kind = "call" THEN s[k].id ELSE 0]

Total(id) == Count(posts, id) + Count(pending, id) + Count(CallIds(events), id)

OnceInv(Texts) ==
    /\ ClientTypes(Texts)
    /\ \A id \in Nat \ {0} : Total(id) = IF id <= made THEN 1 ELSE 0

LEMMA PlacesFinite ==
    ASSUME NEW S, NEW s \in Seq(S), NEW id
    PROVE  IsFiniteSet(Places(s, id)) /\ Count(s, id) \in Nat
<1>1. Len(s) \in Nat /\ DOMAIN s = 1 .. Len(s)
  BY LenProperties
<1>2. Places(s, id) \subseteq 1 .. Len(s)
  BY <1>1 DEF Places
<1>3. IsFiniteSet(1 .. Len(s))
  BY <1>1, FS_Interval
<1>4. IsFiniteSet(Places(s, id))
  BY <1>2, <1>3, FS_Subset
<1> QED
  BY <1>4, FS_CardinalityType DEF Count

LEMMA CountEmpty ==
    ASSUME NEW id
    PROVE  Count(<<>>, id) = 0
<1>1. Places(<<>>, id) = {}
  BY DEF Places
<1> QED
  BY <1>1, FS_EmptySet DEF Count

LEMMA CountAppend ==
    ASSUME NEW S, NEW s \in Seq(S), NEW x \in S, NEW id
    PROVE  Count(Append(s, x), id) = Count(s, id) + (IF x = id THEN 1 ELSE 0)
<1> DEFINE l == Append(s, x)
<1>1. /\ Len(s) \in Nat /\ DOMAIN s = 1 .. Len(s) /\ DOMAIN l = 1 .. Len(s) + 1
      /\ \A k \in 1 .. Len(s) : l[k] = s[k]
      /\ l[Len(s) + 1] = x
  BY AppendProperties, LenProperties
<1> HIDE DEF l
<1>2. DOMAIN l = (DOMAIN s) \cup {Len(s) + 1} /\ Len(s) + 1 \notin DOMAIN s
  BY <1>1
<1>3. Places(l, id) = IF x = id THEN Places(s, id) \cup {Len(s) + 1} ELSE Places(s, id)
  BY <1>1, <1>2 DEF Places
<1>4. Len(s) + 1 \notin Places(s, id)
  BY <1>2 DEF Places
<1>5. IsFiniteSet(Places(s, id)) /\ Count(s, id) \in Nat
  BY PlacesFinite
<1>6. Cardinality(Places(s, id) \cup {Len(s) + 1}) = Cardinality(Places(s, id)) + 1
  BY <1>4, <1>5, FS_AddElement
<1> QED
  BY <1>3, <1>5, <1>6 DEF Count, l

LEMMA CountTail ==
    ASSUME NEW S, NEW s \in Seq(S), s # <<>>, NEW id
    PROVE  Count(s, id) = Count(Tail(s), id) + (IF Head(s) = id THEN 1 ELSE 0)
<1> DEFINE t == Tail(s)
           up == [k \in Places(t, id) |-> k + 1]
           moved == {k + 1 : k \in Places(t, id)}
<1>1. /\ t \in Seq(S) /\ Len(s) \in Nat /\ Len(t) = Len(s) - 1 /\ Len(t) \in Nat
      /\ DOMAIN s = 1 .. Len(s) /\ DOMAIN t = 1 .. Len(t)
      /\ \A k \in 1 .. Len(t) : t[k] = s[k + 1]
      /\ Head(s) = s[1]
  BY HeadTailProperties, LenProperties
<1> HIDE DEF t
<1>2. \A k \in Places(t, id) : k \in 1 .. Len(t)
  BY <1>1 DEF Places
<1>3. up \in Bijection(Places(t, id), moved)
  BY <1>2 DEF Bijection, Injection, Surjection, IsInjective
<1>4. IsFiniteSet(Places(t, id)) /\ Count(t, id) \in Nat
  BY <1>1, PlacesFinite
<1>5. IsFiniteSet(moved) /\ Cardinality(moved) = Count(t, id)
  BY <1>3, <1>4, FS_Bijection DEF Count, ExistsBijection
<1>6. 1 \notin moved
  BY <1>2
<1>7. Places(s, id) = IF Head(s) = id THEN moved \cup {1} ELSE moved
  <2>1. \A k \in Places(s, id) : k = 1 \/ k - 1 \in Places(t, id)
    BY <1>1 DEF Places
  <2>2. \A k \in Places(t, id) : k + 1 \in Places(s, id)
    BY <1>1 DEF Places
  <2>3. 1 \in Places(s, id) <=> Head(s) = id
    BY <1>1 DEF Places
  <2>4. \A k \in Places(s, id) : k \in Nat
    BY <1>1 DEF Places
  <2>5. \A k \in Places(s, id) : k # 1 => k \in moved
    BY <2>1, <2>4
  <2>6. \A k \in moved : k \in Places(s, id)
    BY <2>2
  <2> QED
    BY <2>3, <2>5, <2>6
<1>8. Cardinality(moved \cup {1}) = Cardinality(moved) + 1
  BY <1>5, <1>6, FS_AddElement
<1> HIDE DEF moved
<1> QED
  BY <1>4, <1>5, <1>7, <1>8 DEF Count, t

LEMMA CallIdsTypes ==
    ASSUME NEW Texts, NEW s \in Seq(Events(Texts))
    PROVE  CallIds(s) \in Seq(Nat) /\ Len(CallIds(s)) = Len(s)
<1>1. Len(s) \in Nat /\ \A k \in 1 .. Len(s) : s[k] \in Events(Texts)
  BY ElementOfSeq, LenProperties
<1>2. \A k \in 1 .. Len(s) : (IF s[k].kind = "call" THEN s[k].id ELSE 0) \in Nat
  BY <1>1 DEF Events, Lost, Refused
<1> QED
  BY <1>1, <1>2 DEF CallIds

LEMMA CallIdsAppend ==
    ASSUME NEW Texts, NEW s \in Seq(Events(Texts)), NEW e \in Events(Texts)
    PROVE  CallIds(Append(s, e)) = Append(CallIds(s), IF e.kind = "call" THEN e.id ELSE 0)
<1> DEFINE x == IF e.kind = "call" THEN e.id ELSE 0
           l == Append(s, e)
<1>1. x \in Nat
  BY DEF Events, Lost, Refused
<1>2. /\ l \in Seq(Events(Texts)) /\ Len(l) = Len(s) + 1 /\ Len(s) \in Nat
      /\ \A k \in 1 .. Len(s) : l[k] = s[k]
      /\ l[Len(s) + 1] = e
  BY AppendProperties, LenProperties
<1> HIDE DEF x, l
<1>3. /\ CallIds(l) \in Seq(Nat) /\ Len(CallIds(l)) = Len(s) + 1
      /\ CallIds(s) \in Seq(Nat) /\ Len(CallIds(s)) = Len(s)
  BY <1>2, CallIdsTypes
<1>4. /\ Append(CallIds(s), x) \in Seq(Nat) /\ Len(Append(CallIds(s), x)) = Len(s) + 1
      /\ \A k \in 1 .. Len(s) : Append(CallIds(s), x)[k] = CallIds(s)[k]
      /\ Append(CallIds(s), x)[Len(s) + 1] = x
  BY <1>1, <1>3, AppendProperties
<1>5. \A k \in 1 .. Len(s) : CallIds(l)[k] = CallIds(s)[k]
  BY <1>2 DEF CallIds
<1>6. CallIds(l)[Len(s) + 1] = x
  BY <1>2 DEF CallIds, x
<1>7. \A k \in 1 .. Len(CallIds(l)) : CallIds(l)[k] = Append(CallIds(s), x)[k]
  BY <1>2, <1>3, <1>4, <1>5, <1>6
<1> QED
  BY <1>3, <1>4, <1>7, SeqEqual DEF x, l

\* One more event calls the handler it names, if it calls one.
LEMMA CountEvent ==
    ASSUME NEW Texts, NEW s \in Seq(Events(Texts)), NEW e \in Events(Texts), NEW id \in Nat \ {0}
    PROVE  Count(CallIds(Append(s, e)), id)
               = Count(CallIds(s), id) + (IF e.kind = "call" /\ e.id = id THEN 1 ELSE 0)
<1> DEFINE x == IF e.kind = "call" THEN e.id ELSE 0
<1>1. x \in Nat /\ (x = id <=> e.kind = "call" /\ e.id = id)
  BY DEF Events, Lost, Refused
<1>2. CallIds(s) \in Seq(Nat)
  BY CallIdsTypes
<1>3. CallIds(Append(s, e)) = Append(CallIds(s), x)
  BY CallIdsAppend
<1> HIDE DEF x
<1>4. Count(Append(CallIds(s), x), id) = Count(CallIds(s), id) + (IF x = id THEN 1 ELSE 0)
  BY <1>1, <1>2, CountAppend
<1> QED
  BY <1>1, <1>3, <1>4

LEMMA CountConcat ==
    ASSUME NEW S, NEW s \in Seq(S), NEW t \in Seq(S), NEW id
    PROVE  Count(s \o t, id) = Count(s, id) + Count(t, id)
<1> DEFINE l == s \o t
           n == Len(s)
           up == [k \in Places(t, id) |-> n + k]
           moved == {n + k : k \in Places(t, id)}
<1>1. /\ l \in Seq(S) /\ n \in Nat /\ Len(t) \in Nat
      /\ DOMAIN s = 1 .. n /\ DOMAIN t = 1 .. Len(t) /\ DOMAIN l = 1 .. n + Len(t)
      /\ \A k \in 1 .. n : l[k] = s[k]
      /\ \A k \in 1 .. Len(t) : l[n + k] = t[k]
  BY ConcatProperties, LenProperties
<1> HIDE DEF l, n
<1>2. \A k \in Places(t, id) : k \in 1 .. Len(t)
  BY <1>1 DEF Places
<1>3. up \in Bijection(Places(t, id), moved)
  BY <1>1, <1>2 DEF Bijection, Injection, Surjection, IsInjective
<1>4. /\ IsFiniteSet(Places(t, id)) /\ Count(t, id) \in Nat
      /\ IsFiniteSet(Places(s, id)) /\ Count(s, id) \in Nat
  BY PlacesFinite
<1>5. IsFiniteSet(moved) /\ Cardinality(moved) = Count(t, id)
  BY <1>3, <1>4, FS_Bijection DEF Count, ExistsBijection
<1>6. Places(s, id) \cap moved = {}
  BY <1>1, <1>2 DEF Places
<1>7. Places(l, id) = Places(s, id) \cup moved
  <2>1. \A k \in Places(l, id) : k \in Places(s, id) \/ k - n \in Places(t, id)
    <3> SUFFICES ASSUME NEW k \in Places(l, id), k \notin 1 .. n
                 PROVE  k - n \in Places(t, id)
      BY <1>1 DEF Places
    <3>1. k \in 1 .. n + Len(t) /\ l[k] = id
      BY <1>1 DEF Places
    <3>2. k - n \in 1 .. Len(t) /\ n + (k - n) = k
      BY <1>1, <3>1
    <3>3. l[n + (k - n)] = t[k - n]
      BY <1>1, <3>2
    <3> QED
      BY <1>1, <3>1, <3>2, <3>3 DEF Places
  <2>2. \A k \in Places(l, id) : k \in Places(s, id) \/ k \in moved
    <3>1. \A k \in Places(l, id) : k \in Nat
      BY <1>1 DEF Places
    <3> QED
      BY <1>1, <2>1, <3>1
  <2>3. \A k \in Places(s, id) : k \in Places(l, id)
    BY <1>1 DEF Places
  <2>4. \A k \in moved : k \in Places(l, id)
    BY <1>1 DEF Places
  <2> QED
    BY <2>2, <2>3, <2>4
<1> HIDE DEF moved
<1>8. Cardinality(Places(s, id) \cup moved) = Cardinality(Places(s, id)) + Cardinality(moved)
  <2>1. Cardinality(Places(s, id) \cup moved)
            = Cardinality(Places(s, id)) + Cardinality(moved)
                  - Cardinality(Places(s, id) \cap moved)
    BY <1>4, <1>5, FS_Union
  <2>2. Cardinality(Places(s, id) \cap moved) = 0
    BY <1>6, FS_EmptySet
  <2>3. Cardinality(Places(s, id)) \in Nat /\ Cardinality(moved) \in Nat
    BY <1>4, <1>5 DEF Count
  <2> QED
    BY <2>1, <2>2, <2>3
<1> QED
  BY <1>5, <1>7, <1>8 DEF Count, l

LEMMA CallIdsConcat ==
    ASSUME NEW Texts, NEW s \in Seq(Events(Texts)), NEW t \in Seq(Events(Texts))
    PROVE  CallIds(s \o t) = CallIds(s) \o CallIds(t)
<1> DEFINE l == s \o t
<1>1. /\ l \in Seq(Events(Texts)) /\ Len(l) = Len(s) + Len(t) /\ Len(s) \in Nat /\ Len(t) \in Nat
      /\ \A k \in 1 .. Len(l) : l[k] = IF k <= Len(s) THEN s[k] ELSE t[k - Len(s)]
  BY ConcatProperties, LenProperties
<1> HIDE DEF l
<1>2. /\ CallIds(l) \in Seq(Nat) /\ Len(CallIds(l)) = Len(l)
      /\ CallIds(s) \in Seq(Nat) /\ Len(CallIds(s)) = Len(s)
      /\ CallIds(t) \in Seq(Nat) /\ Len(CallIds(t)) = Len(t)
  BY <1>1, CallIdsTypes
<1>3. /\ CallIds(s) \o CallIds(t) \in Seq(Nat) /\ Len(CallIds(s) \o CallIds(t)) = Len(l)
      /\ \A k \in 1 .. Len(l) :
             (CallIds(s) \o CallIds(t))[k]
                 = IF k <= Len(s) THEN CallIds(s)[k] ELSE CallIds(t)[k - Len(s)]
  <2> DEFINE a == CallIds(s)
             b == CallIds(t)
  <2>1. /\ a \in Seq(Nat) /\ b \in Seq(Nat)
        /\ Len(a) = Len(s) /\ Len(b) = Len(t) /\ Len(l) = Len(a) + Len(b)
    BY <1>1, <1>2
  <2> HIDE DEF a, b
  <2>2. /\ a \o b \in Seq(Nat) /\ Len(a \o b) = Len(a) + Len(b)
        /\ \A k \in 1 .. Len(a) + Len(b) :
               (a \o b)[k] = IF k <= Len(a) THEN a[k] ELSE b[k - Len(a)]
    BY <2>1, ConcatProperties
  <2> QED
    BY <2>1, <2>2 DEF a, b
<1>4. \A k \in 1 .. Len(l) :
          CallIds(l)[k] = IF k <= Len(s) THEN CallIds(s)[k] ELSE CallIds(t)[k - Len(s)]
  <2> SUFFICES ASSUME NEW k \in 1 .. Len(l)
               PROVE  CallIds(l)[k]
                          = IF k <= Len(s) THEN CallIds(s)[k] ELSE CallIds(t)[k - Len(s)]
    OBVIOUS
  <2>1. CASE k <= Len(s)
    BY <1>1, <2>1 DEF CallIds
  <2>2. CASE ~ (k <= Len(s))
    <3>1. k - Len(s) \in 1 .. Len(t)
      BY <1>1, <2>2
    <3> QED
      BY <1>1, <2>2, <3>1 DEF CallIds
  <2> QED
    BY <2>1, <2>2
<1>5. \A k \in 1 .. Len(CallIds(l)) : CallIds(l)[k] = (CallIds(s) \o CallIds(t))[k]
  BY <1>2, <1>3, <1>4
<1> QED
  BY <1>2, <1>3, <1>5, SeqEqual DEF l

\* A disconnection calls no handler by itself.
LEMMA NoticeCounts ==
    ASSUME NEW Texts, ClientTypes(Texts), NEW id \in Nat \ {0}
    PROVE  /\ events \o Notice \in Seq(Events(Texts))
           /\ Count(CallIds(events \o Notice), id) = Count(CallIds(events), id)
<1>1. events \in Seq(Events(Texts)) /\ events \o Notice \in Seq(Events(Texts))
  BY NoticeTypes, ConcatProperties DEF ClientTypes
<1>2. CASE Notice = <<>>
  BY <1>1, <1>2, ConcatEmptySeq
<1>3. CASE Notice = <<Lost>>
  <2>1. events \o Notice = Append(events, Lost)
    BY <1>1, <1>3, EventTypes, AppendIsConcat
  <2>2. Count(CallIds(events), id) \in Nat
    BY <1>1, CallIdsTypes, PlacesFinite
  <2>3. Lost.kind # "call"
    BY DEF Lost
  <2> QED
    BY <1>1, <2>1, <2>2, <2>3, EventTypes, CountEvent
<1> QED
  BY <1>1, <1>2, <1>3 DEF Notice

\* A disconnection fails each handler in _pending as often as it is there.
LEMMA FailPendingCounts ==
    ASSUME NEW Texts, ClientTypes(Texts)
    PROVE  CallIds(FailPending) = pending
<1>1. /\ pending \in Seq(Ids) /\ made \in Nat /\ Len(pending) \in Nat
      /\ FailPending \in Seq(Events(Texts)) /\ Len(FailPending) = Len(pending)
  BY FailPendingTypes, LenProperties DEF ClientTypes, ClientTypeOK
<1>2. pending \in Seq(Nat)
  BY <1>1, SeqMonotonic DEF Ids
<1>3. CallIds(FailPending) \in Seq(Nat) /\ Len(CallIds(FailPending)) = Len(pending)
  BY <1>1, CallIdsTypes
<1>4. \A k \in 1 .. Len(pending) : CallIds(FailPending)[k] = pending[k]
  BY <1>1 DEF CallIds, FailPending, Failed, Called
<1> QED
  BY <1>2, <1>3, <1>4, SeqEqual

LEMMA OnceInit ==
    ASSUME NEW Texts
    PROVE ClientInit => OnceInv(Texts)
<1> SUFFICES ASSUME ClientInit PROVE OnceInv(Texts)
  OBVIOUS
<1>1. CallIds(events) = <<>> /\ posts = <<>> /\ pending = <<>> /\ made = 0
  BY DEF ClientInit, CallIds
<1>2. \A id : Total(id) = 0
  BY <1>1, CountEmpty DEF Total
<1> QED
  BY <1>1, <1>2, ClientInitTypes DEF OnceInv

LEMMA Counted ==
    ASSUME NEW Texts, ClientTypes(Texts), NEW id
    PROVE  /\ posts \in Seq(Nat) /\ pending \in Seq(Nat) /\ CallIds(events) \in Seq(Nat)
           /\ Count(posts, id) \in Nat /\ Count(pending, id) \in Nat
           /\ Count(CallIds(events), id) \in Nat
<1>1. posts \in Seq(Nat) /\ pending \in Seq(Nat) /\ CallIds(events) \in Seq(Nat)
  BY SeqMonotonic, CallIdsTypes DEF ClientTypes, ClientTypeOK, Ids
<1> QED
  BY <1>1, PlacesFinite

\* From the posted functions to _pending or, without a connection, to a call.
LEMMA RunPostTotal ==
    ASSUME NEW Texts, ClientTypes(Texts), RunPost, NEW id \in Nat \ {0}
    PROVE  Total(id)' = Total(id)
<1>1. /\ posts \in Seq(Nat) /\ pending \in Seq(Nat) /\ CallIds(events) \in Seq(Nat)
      /\ Count(posts, id) \in Nat /\ Count(pending, id) \in Nat
      /\ Count(CallIds(events), id) \in Nat
  BY Counted
<1>2. Head(posts) \in Nat /\ Tail(posts) \in Seq(Nat) /\ posts' = Tail(posts)
  BY <1>1, HeadTailProperties DEF RunPost
<1>3. /\ Count(posts, id) = Count(posts', id) + (IF Head(posts) = id THEN 1 ELSE 0)
      /\ Count(posts', id) \in Nat
  BY <1>1, <1>2, CountTail, PlacesFinite DEF RunPost
<1>4. CASE connected
  <2>1. pending' = Append(pending, Head(posts)) /\ events' = events
    BY <1>4 DEF RunPost
  <2>2. Count(pending', id) = Count(pending, id) + (IF Head(posts) = id THEN 1 ELSE 0)
    BY <1>1, <1>2, <2>1, CountAppend
  <2> QED
    BY <1>1, <1>3, <2>1, <2>2 DEF Total
<1>5. CASE ~connected
  <2> DEFINE e == Failed(Head(posts))
  <2>1. events' = Append(events, e) /\ pending' = pending
    BY <1>5 DEF RunPost
  <2>2. e \in Events(Texts) /\ e.kind = "call" /\ e.id = Head(posts)
    BY <1>2, EventTypes DEF Failed, Called
  <2> HIDE DEF e
  <2>3. Count(CallIds(events'), id)
            = Count(CallIds(events), id) + (IF Head(posts) = id THEN 1 ELSE 0)
    BY <2>1, <2>2, CountEvent DEF ClientTypes
  <2> QED
    BY <1>1, <1>3, <2>1, <2>3 DEF Total
<1> QED
  BY <1>4, <1>5

\* From _pending to a call, by a reply or all of them by a disconnection.
LEMMA ReceiveTotal ==
    ASSUME NEW Texts, ClientTypes(Texts), Receive \/ ReceiveFails, NEW id \in Nat \ {0}
    PROVE  Total(id)' = Total(id)
<1>1. /\ posts \in Seq(Nat) /\ pending \in Seq(Nat) /\ CallIds(events) \in Seq(Nat)
      /\ Count(posts, id) \in Nat /\ Count(pending, id) \in Nat
      /\ Count(CallIds(events), id) \in Nat
  BY Counted
<1>2. CASE Receive /\ pending = <<>>
  BY <1>2 DEF Receive, Total
<1>3. CASE Receive /\ pending # <<>>
  <2> DEFINE e == Called(Head(pending), TRUE, outbox[got'])
  <2>1. /\ events' = Append(events, e) /\ pending' = Tail(pending) /\ posts' = posts
        /\ got' \in 1 .. Len(outbox)
    <3>1. Len(outbox) \in Nat /\ got \in 0 .. Len(outbox)
      BY LenProperties DEF ClientTypes, ClientTypeOK
    <3>2. got' = got + 1 /\ got < Len(outbox)
      BY <1>3 DEF Receive
    <3>3. got' \in 1 .. Len(outbox)
      BY <3>1, <3>2
    <3> QED
      BY <1>3, <3>3 DEF Receive, NextHandler, Popped
  <2>2. Head(pending) \in Nat /\ Tail(pending) \in Seq(Nat)
    BY <1>1, <1>3, HeadTailProperties
  <2>3. outbox[got'] \in Answers(Texts)
    BY <2>1, ElementOfSeq DEF ClientTypes
  <2>4. e \in Events(Texts) /\ e.kind = "call" /\ e.id = Head(pending)
    BY <2>2, <2>3, EventTypes DEF Called
  <2> HIDE DEF e
  <2>5. Count(CallIds(events'), id)
            = Count(CallIds(events), id) + (IF Head(pending) = id THEN 1 ELSE 0)
    BY <2>1, <2>4, CountEvent DEF ClientTypes
  <2>6. /\ Count(pending, id) = Count(pending', id) + (IF Head(pending) = id THEN 1 ELSE 0)
        /\ Count(pending', id) \in Nat
    BY <1>1, <1>3, <2>1, <2>2, CountTail, PlacesFinite
  <2> QED
    BY <1>1, <2>1, <2>5, <2>6 DEF Total
<1>4. CASE ReceiveFails
  <2>1. /\ events' = (events \o Notice) \o FailPending /\ pending' = <<>> /\ posts' = posts
    BY <1>4 DEF ReceiveFails
  <2>2. events \o Notice \in Seq(Events(Texts)) /\ FailPending \in Seq(Events(Texts))
    BY NoticeCounts, FailPendingTypes DEF ClientTypes, ClientTypeOK
  <2>3. CallIds(events') = CallIds(events \o Notice) \o pending
    BY <2>1, <2>2, CallIdsConcat, FailPendingCounts
  <2>4. Count(CallIds(events'), id) = Count(CallIds(events), id) + Count(pending, id)
    <3>1. CallIds(events \o Notice) \in Seq(Nat)
      BY <2>2, CallIdsTypes
    <3>2. Count(CallIds(events'), id) = Count(CallIds(events \o Notice), id) + Count(pending, id)
      BY <1>1, <2>3, <3>1, CountConcat
    <3> QED
      BY <3>2, NoticeCounts
  <2> QED
    BY <1>1, <2>1, <2>4, CountEmpty DEF Total
<1> QED
  BY <1>2, <1>3, <1>4

LEMMA OthersTotal ==
    ASSUME NEW Texts, ClientTypes(Texts), NEW id \in Nat \ {0},
           OnDisconnect \/ Connect \/ Write \/ WriteFails \/ Serves(Texts) \/ UNCHANGED clientVars
    PROVE  Total(id)' = Total(id)
<1>1. UNCHANGED <<posts, pending>>
  BY DEF OnDisconnect, Connect, Write, WriteFails, Serves, Take, ServerAnswers,
         ServerCloses, clientVars, io
<1>2. CASE UNCHANGED events
  BY <1>1, <1>2 DEF Total
<1>3. CASE events' = events \o Notice
  <2>1. Count(CallIds(events'), id) = Count(CallIds(events), id)
    BY <1>3, NoticeCounts
  <2> QED
    BY <1>1, <2>1 DEF Total
<1>4. CASE events' = Append(events, Refused)
  <2>1. Count(CallIds(events), id) \in Nat
    BY Counted
  <2>2. Refused.kind # "call"
    BY DEF Refused
  <2>3. events \in Seq(Events(Texts)) /\ Refused \in Events(Texts)
    BY EventTypes DEF ClientTypes
  <2>4. Count(CallIds(events'), id) = Count(CallIds(events), id)
    BY <1>4, <2>1, <2>2, <2>3, CountEvent
  <2> QED
    BY <1>1, <2>4 DEF Total
<1> QED
  BY <1>2, <1>3, <1>4 DEF OnDisconnect, Connect, Write, WriteFails, Serves, Take,
                          ServerAnswers, ServerCloses, clientVars, io

LEMMA OnceStep ==
    ASSUME NEW Texts, OnceInv(Texts), [ClientActs(Texts)]_clientVars
    PROVE  OnceInv(Texts)'
<1>1. ClientTypes(Texts)' /\ ClientTypes(Texts)
  BY ClientStepTypes DEF OnceInv
<1>2. CASE SendRequest
  <2>1. made \in Nat /\ made' = made + 1 /\ posts' = Append(posts, made')
    BY <1>1, <1>2 DEF SendRequest, ClientTypes, ClientTypeOK
  <2>2. UNCHANGED <<pending, events>>
    BY <1>2 DEF SendRequest
  <2>3. ASSUME NEW id \in Nat \ {0}
        PROVE  Total(id)' = IF id <= made' THEN 1 ELSE 0
    <3>1. /\ posts \in Seq(Nat) /\ Count(posts, id) \in Nat /\ Count(pending, id) \in Nat
          /\ Count(CallIds(events), id) \in Nat
      BY <1>1, Counted
    <3>2. Count(posts', id) = Count(posts, id) + (IF made' = id THEN 1 ELSE 0)
      BY <2>1, <3>1, CountAppend
    <3>3. Total(id)' = Total(id) + (IF made' = id THEN 1 ELSE 0)
      BY <2>2, <3>1, <3>2 DEF Total
    <3> QED
      BY <2>1, <3>3 DEF OnceInv
  <2> QED
    BY <1>1, <2>3 DEF OnceInv
<1>3. CASE ~SendRequest
  <2>1. made' = made
    BY <1>3 DEF ClientActs, OnDisconnect, IoStep, Connect, RunPost, Write, WriteFails, Receive,
                ReceiveFails, Serves, Take, ServerAnswers, ServerCloses, clientVars
  <2>2. \A id \in Nat \ {0} : Total(id)' = Total(id)
    BY <1>1, <1>3, RunPostTotal, ReceiveTotal, OthersTotal DEF ClientActs, IoStep
  <2> QED
    BY <1>1, <2>1, <2>2 DEF OnceInv
<1> QED
  BY <1>2, <1>3

LEMMA OnceCalled ==
    ASSUME NEW Texts
    PROVE OnceInv(Texts) => CalledOnce
<1> SUFFICES ASSUME OnceInv(Texts), NEW id \in 1 .. made
             PROVE  Cardinality(Places(posts, id)) + Cardinality(Places(pending, id))
                        + Cardinality(Calls(id)) = 1
  BY DEF CalledOnce
<1>1. made \in Nat /\ events \in Seq(Events(Texts))
  BY DEF OnceInv, ClientTypes, ClientTypeOK
<1>2. Calls(id) = Places(CallIds(events), id)
  <2>1. DOMAIN events = 1 .. Len(events) /\ DOMAIN CallIds(events) = 1 .. Len(events)
    BY <1>1, LenProperties DEF CallIds
  <2> QED
    BY <1>1, <2>1 DEF Calls, Places, CallIds
<1>3. Total(id) = 1
  BY <1>1 DEF OnceInv
<1> QED
  BY <1>2, <1>3 DEF Total, Count

\* No handler is lost, none is called twice and none is both called and still
\* waiting, whatever the order of replies, failed writes and disconnections.
THEOREM HandlersCalledOnce == ClientSpec => []CalledOnce
<1>1. ClientInit => OnceInv(AnyText)
  BY OnceInit
<1>2. OnceInv(AnyText) /\ [ClientNext]_clientVars => OnceInv(AnyText)'
  BY OnceStep, ClientNextActs
<1>3. OnceInv(AnyText) => CalledOnce
  BY OnceCalled
<1> QED
  BY <1>1, <1>2, <1>3, PTL DEF ClientSpec

-----------------------------------------------------------------------------
(* Replies and handlers, line by line.                                     *)

Unread == Len(outbox) - got

\* The oldest handlers are those of the replies not read yet.
UnreadFirst ==
    \A k \in 1 .. Unread : k <= Len(pending) /\ pending[k] = outbox[got + k].to

\* After them comes the packet being served, then those on the wire, each a
\* header and a payload, then the writes that wait; n packets are on the wire.
LinedUp(n) ==
    LET before == Unread + Len(serving)
    IN  /\ Len(stream) = 2 * n
        /\ Len(pending) = before + n + Len(writes)
        /\ serving # <<>> => serving[1] = pending[before]
        /\ \A k \in 1 .. n :
               /\ stream[2 * k - 1] = [of |-> pending[before + k], part |-> 1]
               /\ stream[2 * k] = [of |-> pending[before + k], part |-> 2]
        /\ \A k \in 1 .. Len(writes) :
               writes[k] = [id |-> pending[before + n + k], left |-> 2]

Matched(e) == e.kind = "call" => e.reply.to = e.id

MatchInv(Texts) ==
    /\ ClientTypes(Texts)
    /\ \A k \in 1 .. Len(events) : Matched(events[k])
    /\ link \in {"connecting", "up"} => UnreadFirst
    /\ link \in {"connecting", "up"} /\ open => \E n \in 0 .. Len(stream) : LinedUp(n)

LEMMA Lengths ==
    ASSUME NEW Texts, ClientTypes(Texts)
    PROVE  /\ Len(outbox) \in Nat /\ got \in 0 .. Len(outbox) /\ Unread \in Nat
           /\ Len(pending) \in Nat /\ Len(writes) \in Nat /\ Len(stream) \in Nat
           /\ Len(events) \in Nat /\ Len(serving) \in {0, 1}
           /\ Len(serving) = 0 <=> serving = <<>>
<1>1. /\ Len(outbox) \in Nat /\ Len(pending) \in Nat /\ Len(writes) \in Nat
      /\ Len(stream) \in Nat /\ Len(events) \in Nat
  BY LenProperties DEF ClientTypes, ClientTypeOK
<1>2. got \in 0 .. Len(outbox) /\ serving \in {<<>>} \cup {<<k>> : k \in Ids \cup {0}}
  BY DEF ClientTypes, ClientTypeOK
<1>3. Len(serving) \in {0, 1} /\ (Len(serving) = 0 <=> serving = <<>>)
  BY <1>2
<1>4. Unread \in Nat
  BY <1>1, <1>2 DEF Unread
<1> QED
  BY <1>1, <1>2, <1>3, <1>4

LEMMA FirstAndRest ==
    ASSUME NEW S, NEW s \in Seq(S), s # <<>>
    PROVE  /\ Head(s) \in S /\ Head(s) = s[1] /\ Tail(s) \in Seq(S)
           /\ Len(s) \in Nat \ {0} /\ Len(Tail(s)) = Len(s) - 1
           /\ \A k \in 1 .. Len(s) - 1 : Tail(s)[k] = s[k + 1]
<1>1. /\ Head(s) \in S /\ Tail(s) \in Seq(S) /\ Len(Tail(s)) = Len(s) - 1
      /\ \A k \in 1 .. Len(Tail(s)) : Tail(s)[k] = s[k + 1]
  BY HeadTailProperties
<1>2. Len(s) \in Nat /\ Len(Tail(s)) \in Nat
  BY <1>1, LenProperties
<1>3. Head(s) = s[1]
  OBVIOUS
<1> QED
  BY <1>1, <1>2, <1>3

LEMMA EventMatched ==
    ASSUME NEW Texts, NEW s \in Seq(Events(Texts)), \A k \in 1 .. Len(s) : Matched(s[k]),
           NEW e \in Events(Texts), Matched(e)
    PROVE  \A k \in 1 .. Len(Append(s, e)) : Matched(Append(s, e)[k])
<1>1. /\ Len(s) \in Nat /\ Len(Append(s, e)) = Len(s) + 1
      /\ \A k \in 1 .. Len(s) : Append(s, e)[k] = s[k]
      /\ Append(s, e)[Len(s) + 1] = e
  BY AppendProperties, LenProperties
<1>2. \A k \in 1 .. Len(s) + 1 : k \in 1 .. Len(s) \/ k = Len(s) + 1
  BY <1>1
<1> QED
  BY <1>1, <1>2

LEMMA EventsMatched ==
    ASSUME NEW Texts, NEW s \in Seq(Events(Texts)), \A k \in 1 .. Len(s) : Matched(s[k]),
           NEW t \in Seq(Events(Texts)), \A k \in 1 .. Len(t) : Matched(t[k])
    PROVE  \A k \in 1 .. Len(s \o t) : Matched((s \o t)[k])
<1> DEFINE l == s \o t
<1>1. /\ Len(s) \in Nat /\ Len(t) \in Nat /\ Len(l) = Len(s) + Len(t)
      /\ \A k \in 1 .. Len(l) : l[k] = IF k <= Len(s) THEN s[k] ELSE t[k - Len(s)]
  BY ConcatProperties, LenProperties
<1> HIDE DEF l
<1>2. \A k \in 1 .. Len(l) : k \in 1 .. Len(s) \/ (~ (k <= Len(s)) /\ k - Len(s) \in 1 .. Len(t))
  BY <1>1
<1>3. \A k \in 1 .. Len(l) : Matched(l[k])
  BY <1>1, <1>2
<1> QED
  BY <1>3 DEF l

LEMMA NoticeMatched ==
    ASSUME NEW Texts, MatchInv(Texts)
    PROVE  /\ events \o Notice \in Seq(Events(Texts))
           /\ \A k \in 1 .. Len(events \o Notice) : Matched((events \o Notice)[k])
<1>1. Notice \in Seq(Events(Texts)) /\ events \in Seq(Events(Texts))
  BY NoticeTypes DEF MatchInv, ClientTypes
<1>2. \A k \in 1 .. Len(Notice) : Matched(Notice[k])
  BY DEF Notice, Lost, Matched
<1> QED
  BY <1>1, <1>2, EventsMatched, ConcatProperties DEF MatchInv

LEMMA MatchInit ==
    ASSUME NEW Texts
    PROVE ClientInit => MatchInv(Texts)
<1> SUFFICES ASSUME ClientInit PROVE MatchInv(Texts)
  OBVIOUS
<1>1. /\ events = <<>> /\ outbox = <<>> /\ pending = <<>> /\ writes = <<>> /\ serving = <<>>
      /\ stream = <<>> /\ got = 0
  BY DEF ClientInit
<1>2. UnreadFirst /\ LinedUp(0) /\ 0 \in 0 .. Len(stream)
  BY <1>1 DEF UnreadFirst, LinedUp, Unread
<1> QED
  BY <1>1, <1>2, ClientInitTypes DEF MatchInv

\* What the io thread and the server leave alone stays lined up.
LEMMA KeepsMatch ==
    ASSUME NEW Texts, MatchInv(Texts), ClientTypes(Texts)',
           UNCHANGED <<pending, writes, got, outbox, serving, stream, open>>,
           link' \in {"connecting", "up"} => link \in {"connecting", "up"},
           \A k \in 1 .. Len(events') : Matched(events'[k])
    PROVE  MatchInv(Texts)'
<1>1. UnreadFirst => UnreadFirst'
  BY DEF UnreadFirst, Unread
<1>2. \A n : LinedUp(n) => LinedUp(n)'
  BY DEF LinedUp, Unread
<1> QED
  BY <1>1, <1>2 DEF MatchInv

LEMMA TerminalMatch ==
    ASSUME NEW Texts, MatchInv(Texts), ClientTypes(Texts)',
           SendRequest \/ OnDisconnect \/ Connect \/ UNCHANGED clientVars
    PROVE  MatchInv(Texts)'
<1>1. /\ UNCHANGED <<pending, writes, got, outbox, serving, stream, open>>
      /\ link' \in {"connecting", "up"} => link \in {"connecting", "up"}
  BY DEF SendRequest, OnDisconnect, Connect, clientVars, server, io
<1>2. events' = events \/ events' = Append(events, Refused)
  BY DEF SendRequest, OnDisconnect, Connect, clientVars, server, io
<1>3. \A k \in 1 .. Len(events') : Matched(events'[k])
  <2>1. Matched(Refused)
    BY DEF Matched, Refused
  <2>2. CASE events' = events
    BY <2>2 DEF MatchInv
  <2>3. CASE events' = Append(events, Refused)
    BY <2>1, <2>3, EventTypes, EventMatched DEF MatchInv, ClientTypes
  <2> QED
    BY <1>2, <2>2, <2>3
<1> QED
  BY <1>1, <1>3, KeepsMatch

LEMMA RunPostMatch ==
    ASSUME NEW Texts, MatchInv(Texts), ClientTypes(Texts)', RunPost
    PROVE  MatchInv(Texts)'
<1> USE DEF MatchInv
<1>1. Head(posts) \in Ids /\ Head(posts) \in Nat
  <2>1. posts \in Seq(Ids) /\ posts # <<>> /\ made \in Nat
    BY DEF RunPost, ClientTypes, ClientTypeOK
  <2> QED
    BY <2>1, HeadTailProperties DEF Ids
<1>2. UNCHANGED <<link, got, outbox, serving, stream, open>>
  BY DEF RunPost, server
<1>3. CASE ~connected
  <2> DEFINE e == Failed(Head(posts))
  <2>1. e \in Events(Texts) /\ Matched(e)
    BY <1>1, EventTypes DEF Matched, Failed, Called
  <2> HIDE DEF e
  <2>2. events' = Append(events, e) /\ UNCHANGED <<pending, writes>>
    BY <1>3 DEF RunPost, e
  <2>3. \A k \in 1 .. Len(events') : Matched(events'[k])
    BY <2>1, <2>2, EventMatched DEF ClientTypes
  <2> QED
    BY <1>2, <2>2, <2>3, KeepsMatch
<1>4. CASE connected
  <2> DEFINE id == Head(posts)
             x == [id |-> id, left |-> 2]
  <2>1. pending' = Append(pending, id) /\ writes' = Append(writes, x) /\ events' = events
    BY <1>4 DEF RunPost
  <2>2. x \in [id : Ids, left : 1 .. 2]
    BY <1>1
  <2>3. /\ Len(pending') = Len(pending) + 1
        /\ \A k \in 1 .. Len(pending) : pending'[k] = pending[k]
        /\ pending'[Len(pending) + 1] = id
    BY <1>1, <2>1, AppendProperties DEF ClientTypes, ClientTypeOK
  <2> HIDE DEF x
  <2>4. /\ Len(writes') = Len(writes) + 1
        /\ \A k \in 1 .. Len(writes) : writes'[k] = writes[k]
        /\ writes'[Len(writes) + 1] = x
    BY <2>1, <2>2, AppendProperties DEF ClientTypes, ClientTypeOK
  <2> HIDE DEF id
  <2>5. UnreadFirst => UnreadFirst'
    <3> SUFFICES ASSUME UnreadFirst, NEW k \in 1 .. Unread
                 PROVE  k <= Len(pending') /\ pending'[k] = outbox[got + k].to
      BY <1>2 DEF UnreadFirst, Unread
    <3>1. k <= Len(pending) /\ pending[k] = outbox[got + k].to
      BY DEF UnreadFirst
    <3>2. k \in 1 .. Len(pending)
      BY <3>1, Lengths
    <3> QED
      BY <2>3, <3>1, <3>2, Lengths
  <2>6. ASSUME NEW n \in 0 .. Len(stream), LinedUp(n)
        PROVE  LinedUp(n)'
    <3> DEFINE before == Unread + Len(serving)
    <3>1. /\ Unread' = Unread /\ before \in Nat /\ n \in Nat
          /\ Len(pending) \in Nat /\ Len(writes) \in Nat
      BY <1>2, Lengths DEF Unread
    <3>2. /\ Len(stream) = 2 * n
          /\ Len(pending) = before + n + Len(writes)
          /\ serving # <<>> => serving[1] = pending[before]
          /\ \A k \in 1 .. n :
                 /\ stream[2 * k - 1] = [of |-> pending[before + k], part |-> 1]
                 /\ stream[2 * k] = [of |-> pending[before + k], part |-> 2]
          /\ \A k \in 1 .. Len(writes) :
                 writes[k] = [id |-> pending[before + n + k], left |-> 2]
      BY <2>6 DEF LinedUp
    <3>3. serving # <<>> => before \in 1 .. Len(pending)
      BY <3>1, <3>2, Lengths
    <3> HIDE DEF before
    <3>4. serving # <<>> => serving[1] = pending'[before]
      BY <2>3, <3>2, <3>3
    <3>5. \A k \in 1 .. n : pending'[before + k] = pending[before + k]
      BY <2>3, <3>1, <3>2
    <3>6. \A k \in 1 .. Len(writes') :
              writes'[k] = [id |-> pending'[before + n + k], left |-> 2]
      <4>1. \A k \in 1 .. Len(writes) : pending'[before + n + k] = pending[before + n + k]
        BY <2>3, <3>1, <3>2
      <4>2. pending'[before + n + Len(writes')] = id
        BY <2>3, <2>4, <3>1, <3>2
      <4>3. \A k \in 1 .. Len(writes') : k \in 1 .. Len(writes) \/ k = Len(writes')
        BY <2>4, <3>1
      <4> QED
        BY <2>4, <3>2, <4>1, <4>2, <4>3 DEF x
    <3>7. Len(pending') = before + n + Len(writes')
      BY <2>3, <2>4, <3>1, <3>2
    <3> QED
      BY <1>2, <3>1, <3>2, <3>4, <3>5, <3>6, <3>7 DEF LinedUp, before
  <2> QED
    BY <1>2, <2>1, <2>5, <2>6
<1> QED
  BY <1>3, <1>4

\* A packet that goes out in one piece joins the end of those on the wire.
LEMMA WriteMatch ==
    ASSUME NEW Texts, MatchInv(Texts), ClientTypes(Texts)', ~PartialWrites, Write
    PROVE  MatchInv(Texts)'
<1> USE DEF MatchInv
<1>1. UNCHANGED <<link, got, outbox, serving, pending, events, open>>
      /\ writes # <<>> /\ link = "up"
  BY DEF Write
<1>2. UnreadFirst'
  BY <1>1 DEF UnreadFirst, Unread
<1>3. ASSUME open
      PROVE  \E n \in 0 .. Len(stream') : LinedUp(n)'
  <2>1. PICK n \in 0 .. Len(stream) : LinedUp(n)
    BY <1>1, <1>3
  <2> DEFINE before == Unread + Len(serving)
             w == Head(writes)
             id == pending[before + n + 1]
  <2>2. /\ Unread' = Unread /\ before \in Nat /\ n \in Nat
        /\ Len(pending) \in Nat /\ Len(writes) \in Nat
    BY <1>1, Lengths DEF Unread
  <2>3. /\ Len(stream) = 2 * n
        /\ Len(pending) = before + n + Len(writes)
        /\ serving # <<>> => serving[1] = pending[before]
        /\ \A k \in 1 .. n :
               /\ stream[2 * k - 1] = [of |-> pending[before + k], part |-> 1]
               /\ stream[2 * k] = [of |-> pending[before + k], part |-> 2]
        /\ \A k \in 1 .. Len(writes) :
               writes[k] = [id |-> pending[before + n + k], left |-> 2]
    BY <2>1 DEF LinedUp
  <2>4. /\ w \in [id : Ids, left : 1 .. 2] /\ w = writes[1] /\ Len(writes) \in Nat \ {0}
        /\ Len(Tail(writes)) = Len(writes) - 1
        /\ \A k \in 1 .. Len(writes) - 1 : Tail(writes)[k] = writes[k + 1]
    <3>1. writes \in Seq([id : Ids, left : 1 .. 2])
      BY DEF ClientTypes, ClientTypeOK
    <3> HIDE DEF MatchInv
    <3> QED
      BY <1>1, <3>1, FirstAndRest
  <2> HIDE DEF before
  <2>5. w = [id |-> id, left |-> 2]
    BY <2>3, <2>4
  <2>6. /\ stream' = stream \o Chunks(w, 2)
        /\ writes' = Tail(writes)
    <3>1. w.left = 2
      BY <2>5
    <3> QED
      BY <1>3, <3>1 DEF Write
  <2>7. /\ Chunks(w, 2) \in Seq([of : Ids, part : 1 .. 2]) /\ Len(Chunks(w, 2)) = 2
        /\ Chunks(w, 2)[1] = [of |-> id, part |-> 1]
        /\ Chunks(w, 2)[2] = [of |-> id, part |-> 2]
    <3> HIDE DEF w, id
    <3>1. 2 \in 1 .. w.left /\ w.left = 2 /\ w.id = id
      BY <2>5
    <3>2. /\ Chunks(w, 2) \in Seq([of : Ids, part : 1 .. 2]) /\ Len(Chunks(w, 2)) = 2
          /\ \A k \in 1 .. 2 : Chunks(w, 2)[k] = [of |-> w.id, part |-> 2 - w.left + k]
      BY <2>4, <3>1, ChunksTypes
    <3> QED
      BY <3>1, <3>2
  <2> HIDE DEF w, id
  <2>8. /\ Len(stream') = Len(stream) + 2
        /\ \A k \in 1 .. Len(stream) : stream'[k] = stream[k]
        /\ stream'[Len(stream) + 1] = [of |-> id, part |-> 1]
        /\ stream'[Len(stream) + 2] = [of |-> id, part |-> 2]
    <3> DEFINE c == Chunks(w, 2)
               l == stream \o c
    <3>1. /\ stream \in Seq([of : Ids, part : 1 .. 2]) /\ c \in Seq([of : Ids, part : 1 .. 2])
          /\ Len(c) = 2 /\ Len(stream) \in Nat
      BY <2>7, Lengths DEF ClientTypes, ClientTypeOK
    <3> HIDE DEF c
    <3>2. /\ Len(l) = Len(stream) + Len(c)
          /\ \A k \in 1 .. Len(stream) + Len(c) :
                 l[k] = IF k <= Len(stream) THEN stream[k] ELSE c[k - Len(stream)]
      BY <3>1, ConcatProperties
    <3>3. l[Len(stream) + 1] = c[1] /\ l[Len(stream) + 2] = c[2]
      BY <3>1, <3>2
    <3> QED
      BY <2>6, <2>7, <3>1, <3>2, <3>3 DEF c
  <2>9. \A k \in 1 .. n + 1 :
            /\ stream'[2 * k - 1] = [of |-> pending[before + k], part |-> 1]
            /\ stream'[2 * k] = [of |-> pending[before + k], part |-> 2]
    <3> SUFFICES ASSUME NEW k \in 1 .. n + 1
                 PROVE  /\ stream'[2 * k - 1] = [of |-> pending[before + k], part |-> 1]
                        /\ stream'[2 * k] = [of |-> pending[before + k], part |-> 2]
      OBVIOUS
    <3>1. CASE k \in 1 .. n
      <4>1. 2 * k - 1 \in 1 .. Len(stream) /\ 2 * k \in 1 .. Len(stream)
        BY <2>2, <2>3, <3>1
      <4> QED
        BY <2>3, <2>8, <3>1, <4>1
    <3>2. CASE k = n + 1
      <4>1. /\ 2 * k - 1 = Len(stream) + 1 /\ 2 * k = Len(stream) + 2
            /\ before + k = before + n + 1
        BY <2>2, <2>3, <3>2
      <4> QED
        BY <2>8, <4>1 DEF id
    <3> QED
      BY <2>2, <3>1, <3>2
  <2>10. \A k \in 1 .. Len(writes') :
             writes'[k] = [id |-> pending[before + (n + 1) + k], left |-> 2]
    <3> SUFFICES ASSUME NEW k \in 1 .. Len(writes')
                 PROVE  writes'[k] = [id |-> pending[before + (n + 1) + k], left |-> 2]
      OBVIOUS
    <3>1. /\ k \in 1 .. Len(writes) - 1 /\ k + 1 \in 1 .. Len(writes)
          /\ before + (n + 1) + k = before + n + (k + 1)
      BY <2>2, <2>4, <2>6
    <3> QED
      BY <2>3, <2>4, <2>6, <3>1
  <2>11. Len(pending) = before + (n + 1) + Len(writes') /\ Len(stream') = 2 * (n + 1)
    BY <2>2, <2>3, <2>4, <2>6, <2>8
  <2>12. LinedUp(n + 1)'
    BY <1>1, <2>2, <2>3, <2>9, <2>10, <2>11 DEF LinedUp, before
  <2>13. n + 1 \in 0 .. Len(stream')
    BY <2>2, <2>11
  <2> QED
    BY <2>12, <2>13
<1> QED
  BY <1>1, <1>2, <1>3

LEMMA WriteFailsMatch ==
    ASSUME NEW Texts, MatchInv(Texts), ClientTypes(Texts)', WriteFails
    PROVE  MatchInv(Texts)'
<1>1. UNCHANGED <<link, got, outbox, pending, open>> /\ ~open /\ events' = events \o Notice
  BY DEF WriteFails, server
<1>2. UnreadFirst => UnreadFirst'
  BY <1>1 DEF UnreadFirst, Unread
<1> QED
  BY <1>1, <1>2, NoticeMatched DEF MatchInv

\* A reply is the one the oldest handler waits for.
LEMMA ReceiveMatch ==
    ASSUME NEW Texts, MatchInv(Texts), ClientTypes(Texts)', Receive
    PROVE  MatchInv(Texts)'
<1> USE DEF MatchInv
<1>1. /\ UNCHANGED <<link, outbox, serving, stream, writes, open>>
      /\ link = "up" /\ got' = got + 1 /\ got < Len(outbox)
  BY DEF Receive, server
<1>2. /\ Len(outbox) \in Nat /\ got \in 0 .. Len(outbox) /\ Unread \in Nat \ {0}
      /\ Unread' = Unread - 1
  <2>1. Len(outbox) \in Nat /\ got \in 0 .. Len(outbox)
    BY Lengths
  <2> QED
    BY <1>1, <2>1 DEF Unread
<1>3. \A k \in 1 .. Unread : k <= Len(pending) /\ pending[k] = outbox[got + k].to
  BY <1>1 DEF UnreadFirst
<1>4. 1 <= Len(pending) /\ pending[1] = outbox[got'].to
  BY <1>1, <1>2, <1>3
<1>5. pending \in Seq(Ids) /\ pending # <<>> /\ made \in Nat
  BY <1>4 DEF ClientTypes, ClientTypeOK
<1>6. /\ Head(pending) \in Ids /\ Head(pending) = pending[1]
      /\ Len(pending) \in Nat \ {0} /\ Len(Tail(pending)) = Len(pending) - 1
      /\ \A k \in 1 .. Len(pending) - 1 : Tail(pending)[k] = pending[k + 1]
  BY <1>5, FirstAndRest
<1> DEFINE e == Called(Head(pending), TRUE, outbox[got'])
<1>7. events' = Append(events, e) /\ pending' = Tail(pending)
  BY <1>5 DEF Receive, NextHandler, Popped
<1>8. e \in Events(Texts) /\ Matched(e)
  <2>1. outbox[got'] \in Answers(Texts)
    BY <1>1, <1>2, ElementOfSeq DEF ClientTypes
  <2>2. Head(pending) \in Nat
    BY <1>5, <1>6 DEF Ids
  <2>3. e \in Events(Texts)
    BY <2>1, <2>2, EventTypes
  <2> QED
    BY <1>4, <1>6, <2>3 DEF Matched, Called
<1> HIDE DEF e
<1>9. \A k \in 1 .. Len(events') : Matched(events'[k])
  BY <1>7, <1>8, EventMatched DEF ClientTypes
<1>10. UnreadFirst'
  <2> SUFFICES ASSUME NEW k \in 1 .. Unread'
               PROVE  k <= Len(pending') /\ pending'[k] = outbox[got' + k].to
    BY <1>1 DEF UnreadFirst
  <2>1. k + 1 \in 1 .. Unread /\ k \in Nat \ {0} /\ got' + k = got + (k + 1)
    BY <1>1, <1>2
  <2>2. k + 1 <= Len(pending) /\ pending[k + 1] = outbox[got + (k + 1)].to
    BY <1>3, <2>1
  <2>3. k \in 1 .. Len(pending) - 1
    BY <1>6, <2>1, <2>2
  <2> QED
    BY <1>6, <1>7, <2>1, <2>2, <2>3
<1>11. ASSUME NEW n \in 0 .. Len(stream), LinedUp(n)
       PROVE  LinedUp(n)'
  <2> DEFINE before == Unread + Len(serving)
             after == Unread' + Len(serving)
  <2>1. /\ before \in Nat /\ before = after + 1 /\ after \in Nat /\ n \in Nat
        /\ Len(writes) \in Nat /\ Len(serving) \in Nat
        /\ (serving # <<>> => after \in Nat \ {0})
    BY <1>2, Lengths
  <2>2. /\ Len(stream) = 2 * n
        /\ Len(pending) = before + n + Len(writes)
        /\ serving # <<>> => serving[1] = pending[before]
        /\ \A k \in 1 .. n :
               /\ stream[2 * k - 1] = [of |-> pending[before + k], part |-> 1]
               /\ stream[2 * k] = [of |-> pending[before + k], part |-> 2]
        /\ \A k \in 1 .. Len(writes) :
               writes[k] = [id |-> pending[before + n + k], left |-> 2]
    BY <1>11 DEF LinedUp
  <2> HIDE DEF before, after
  <2>3. Len(pending') = after + n + Len(writes)
    BY <1>6, <1>7, <2>1, <2>2
  <2>4. serving # <<>> => serving[1] = pending'[after]
    <3>1. serving # <<>> => after \in 1 .. Len(pending) - 1
      BY <1>6, <2>1, <2>2
    <3> QED
      BY <1>6, <1>7, <2>1, <2>2, <3>1
  <2>5. \A k \in 1 .. n : pending'[after + k] = pending[before + k]
    <3> SUFFICES ASSUME NEW k \in 1 .. n PROVE pending'[after + k] = pending[before + k]
      OBVIOUS
    <3>1. after + k \in 1 .. Len(pending) - 1 /\ after + k + 1 = before + k
      BY <2>1, <2>2
    <3> QED
      BY <1>6, <1>7, <3>1
  <2>6. \A k \in 1 .. Len(writes) : pending'[after + n + k] = pending[before + n + k]
    <3> SUFFICES ASSUME NEW k \in 1 .. Len(writes)
                 PROVE  pending'[after + n + k] = pending[before + n + k]
      OBVIOUS
    <3>1. after + n + k \in 1 .. Len(pending) - 1 /\ after + n + k + 1 = before + n + k
      BY <2>1, <2>2
    <3> QED
      BY <1>6, <1>7, <3>1
  <2> QED
    BY <1>1, <2>2, <2>3, <2>4, <2>5, <2>6 DEF LinedUp, after
<1> QED
  BY <1>1, <1>9, <1>10, <1>11

LEMMA ReceiveFailsMatch ==
    ASSUME NEW Texts, MatchInv(Texts), ClientTypes(Texts)', ReceiveFails
    PROVE  MatchInv(Texts)'
<1>1. link' = "lost" /\ events' = (events \o Notice) \o FailPending
  BY DEF ReceiveFails
<1>2. ClientTypes(Texts) /\ FailPending \in Seq(Events(Texts)) /\ Len(FailPending) = Len(pending)
  BY FailPendingTypes DEF MatchInv, ClientTypes, ClientTypeOK
<1>3. \A k \in 1 .. Len(FailPending) : Matched(FailPending[k])
  BY <1>2 DEF FailPending, Failed, Called, Matched
<1>4. \A k \in 1 .. Len(events') : Matched(events'[k])
  BY <1>1, <1>2, <1>3, NoticeMatched, EventsMatched
<1> QED
  BY <1>1, <1>4 DEF MatchInv

\* The stream without its first packet.
LEMMA PacketTaken ==
    ASSUME NEW S, NEW s \in Seq(S), Len(s) >= 2
    PROVE  LET t == SubSeq(s, 3, Len(s))
           IN  /\ Len(t) = Len(s) - 2
               /\ \A k \in 1 .. Len(s) - 2 : t[k] = s[k + 2]
<1> DEFINE t == SubSeq(s, 3, Len(s))
<1>1. Len(s) \in Nat /\ \A k \in 1 .. Len(s) : s[k] \in S
  BY ElementOfSeq, LenProperties
<1>2. /\ Len(t) = IF 3 <= Len(s) THEN Len(s) - 3 + 1 ELSE 0
      /\ \A k \in 1 .. Len(s) - 3 + 1 : t[k] = s[3 + k - 1]
  BY <1>1, SubSeqProperties
<1> HIDE DEF t
<1>3. Len(t) = Len(s) - 2
  <2>1. PICK n \in Nat : n = Len(s) /\ n >= 2
    BY <1>1
  <2>2. CASE 3 <= n
    <3>1. Len(t) = n - 3 + 1
      BY <1>2, <2>1, <2>2
    <3> QED
      BY <2>1, <3>1
  <2>3. CASE ~ (3 <= n)
    <3>1. Len(t) = 0
      BY <1>2, <2>1, <2>3
    <3>2. n = 2
      BY <2>1, <2>3
    <3> QED
      BY <2>1, <3>1, <3>2
  <2> QED
    BY <2>2, <2>3
<1>4. ASSUME NEW k \in 1 .. Len(s) - 2 PROVE t[k] = s[k + 2]
  <2>1. k \in 1 .. Len(s) - 3 + 1 /\ 3 + k - 1 = k + 2
    BY <1>1
  <2> QED
    BY <1>2, <2>1
<1> QED
  BY <1>3, <1>4 DEF t

\* A header and the payload of the same request make that request.
LEMMA TakeMatch ==
    ASSUME NEW Texts, MatchInv(Texts), ClientTypes(Texts)', Take
    PROVE  MatchInv(Texts)'
<1> USE DEF MatchInv
<1>1. /\ UNCHANGED <<link, got, outbox, pending, writes, events, open>> /\ open
      /\ serving = <<>> /\ Len(stream) >= 2
      /\ serving' = <<Framed(stream[1], stream[2])>>
      /\ stream' = SubSeq(stream, 3, Len(stream))
  BY DEF Take, io
<1>2. UnreadFirst => UnreadFirst'
  BY <1>1 DEF UnreadFirst, Unread
<1>3. ASSUME NEW n \in 0 .. Len(stream), LinedUp(n)
      PROVE  n - 1 \in 0 .. Len(stream') /\ LinedUp(n - 1)'
  <2>1. /\ Unread' = Unread /\ Unread \in Nat /\ Len(serving) = 0 /\ Len(serving') = 1
        /\ Len(stream) \in Nat /\ Len(writes) \in Nat /\ n \in Nat
    BY <1>1, Lengths DEF Unread
  <2>2. /\ Len(stream) = 2 * n
        /\ Len(pending) = Unread + n + Len(writes)
        /\ \A k \in 1 .. n :
               /\ stream[2 * k - 1] = [of |-> pending[Unread + k], part |-> 1]
               /\ stream[2 * k] = [of |-> pending[Unread + k], part |-> 2]
        /\ \A k \in 1 .. Len(writes) :
               writes[k] = [id |-> pending[Unread + n + k], left |-> 2]
    <3>1. Unread + Len(serving) = Unread
      BY <2>1
    <3> QED
      BY <1>3, <3>1 DEF LinedUp
  <2>3. n \in Nat \ {0}
    BY <1>1, <2>1, <2>2
  <2>4. /\ Len(stream') = 2 * (n - 1)
        /\ \A k \in 1 .. 2 * (n - 1) : stream'[k] = stream[k + 2]
    <3>1. /\ Len(stream') = Len(stream) - 2
          /\ \A k \in 1 .. Len(stream) - 2 : stream'[k] = stream[k + 2]
      <4>1. stream \in Seq([of : Ids, part : 1 .. 2])
        BY DEF ClientTypes, ClientTypeOK
      <4> HIDE DEF MatchInv
      <4> QED
        BY <1>1, <4>1, PacketTaken
    <3> QED
      BY <2>1, <2>2, <2>3, <3>1
  <2>5. serving'[1] = pending[Unread + 1]
    <3>1. /\ stream[1] = [of |-> pending[Unread + 1], part |-> 1]
          /\ stream[2] = [of |-> pending[Unread + 1], part |-> 2]
      <4>1. 1 \in 1 .. n /\ 2 * 1 - 1 = 1 /\ 2 * 1 = 2
        BY <2>3
      <4> QED
        BY <2>2, <4>1
    <3>2. serving'[1] = Framed(stream[1], stream[2])
      BY <1>1
    <3> QED
      BY <3>1, <3>2 DEF Framed
  <2>6. ASSUME NEW k \in 1 .. n - 1
        PROVE  /\ stream'[2 * k - 1] = [of |-> pending[(Unread + 1) + k], part |-> 1]
               /\ stream'[2 * k] = [of |-> pending[(Unread + 1) + k], part |-> 2]
    <3>1. /\ 2 * k - 1 \in 1 .. 2 * (n - 1) /\ 2 * k \in 1 .. 2 * (n - 1)
          /\ 2 * k - 1 + 2 = 2 * (k + 1) - 1 /\ 2 * k + 2 = 2 * (k + 1)
          /\ k + 1 \in 1 .. n /\ (Unread + 1) + k = Unread + (k + 1)
      BY <2>1, <2>3
    <3> QED
      BY <2>2, <2>4, <3>1
  <2>7. ASSUME NEW k \in 1 .. Len(writes)
        PROVE  writes[k] = [id |-> pending[(Unread + 1) + (n - 1) + k], left |-> 2]
    <3>1. (Unread + 1) + (n - 1) + k = Unread + n + k
      BY <2>1, <2>3
    <3> QED
      BY <2>2, <3>1
  <2>8. Len(pending) = (Unread + 1) + (n - 1) + Len(writes)
    BY <2>1, <2>2, <2>3
  <2>9. Unread' + Len(serving') = Unread + 1 /\ n - 1 \in 0 .. Len(stream')
    BY <2>1, <2>3, <2>4
  <2>10. LinedUp(n - 1)'
    BY <1>1, <2>4, <2>5, <2>6, <2>7, <2>8, <2>9 DEF LinedUp
  <2> QED
    BY <2>9, <2>10
<1> QED
  BY <1>1, <1>2, <1>3

LEMMA AnswerMatch ==
    ASSUME NEW Texts, MatchInv(Texts), ClientTypes(Texts)', NEW says \in Texts, ServerAnswers(says)
    PROVE  MatchInv(Texts)'
<1> USE DEF MatchInv
<1> DEFINE r == [to |-> serving[1], says |-> says]
<1>1. /\ UNCHANGED <<link, got, pending, writes, events, stream, open>> /\ open
      /\ serving # <<>> /\ serving' = <<>> /\ outbox' = Append(outbox, r)
  BY DEF ServerAnswers, io
<1>2. /\ Len(outbox) \in Nat /\ got \in 0 .. Len(outbox) /\ Unread \in Nat
      /\ Len(serving) = 1 /\ Len(serving') = 0 /\ Len(pending) \in Nat /\ Len(writes) \in Nat
  BY <1>1, Lengths
<1>3. /\ Len(outbox') = Len(outbox) + 1 /\ outbox'[Len(outbox) + 1] = r
      /\ \A k \in 1 .. Len(outbox) : outbox'[k] = outbox[k]
  <2>1. r \in Answers(Texts)
    BY <1>1 DEF ClientTypes, ClientTypeOK, Answers, Ids
  <2> HIDE DEF r
  <2> QED
    BY <1>1, <2>1, AppendProperties DEF ClientTypes
<1> HIDE DEF r
<1>4. Unread' = Unread + 1
  BY <1>1, <1>2, <1>3 DEF Unread
<1>5. ASSUME link \in {"connecting", "up"}
      PROVE  UnreadFirst' /\ \E n \in 0 .. Len(stream) : LinedUp(n)'
  <2>1. PICK n \in 0 .. Len(stream) : LinedUp(n)
    BY <1>1, <1>5
  <2>2. /\ Len(stream) = 2 * n
        /\ Len(pending) = (Unread + 1) + n + Len(writes)
        /\ serving[1] = pending[Unread + 1]
        /\ \A k \in 1 .. n :
               /\ stream[2 * k - 1] = [of |-> pending[(Unread + 1) + k], part |-> 1]
               /\ stream[2 * k] = [of |-> pending[(Unread + 1) + k], part |-> 2]
        /\ \A k \in 1 .. Len(writes) :
               writes[k] = [id |-> pending[(Unread + 1) + n + k], left |-> 2]
    BY <1>1, <1>2, <2>1 DEF LinedUp
  <2>3. LinedUp(n)'
    <3>1. Unread' + Len(serving') = Unread + 1
      BY <1>2, <1>4
    <3> QED
      BY <1>1, <2>2, <3>1 DEF LinedUp
  <2>4. UnreadFirst'
    <3> SUFFICES ASSUME NEW k \in 1 .. Unread'
                 PROVE  k <= Len(pending) /\ pending[k] = outbox'[got + k].to
      BY <1>1 DEF UnreadFirst
    <3>1. CASE k \in 1 .. Unread
      <4>1. k <= Len(pending) /\ pending[k] = outbox[got + k].to
        BY <1>5, <3>1 DEF UnreadFirst
      <4>2. got + k \in 1 .. Len(outbox)
        BY <1>2, <3>1 DEF Unread
      <4> QED
        BY <1>3, <4>1, <4>2
    <3>2. CASE k = Unread + 1
      <4>1. got + k = Len(outbox) + 1
        BY <1>2, <3>2 DEF Unread
      <4>2. n \in Nat
        OBVIOUS
      <4>3. k <= Len(pending)
        BY <1>2, <2>2, <3>2, <4>2
      <4> QED
        BY <1>3, <2>2, <3>2, <4>1, <4>3 DEF r
    <3> QED
      BY <1>2, <1>4, <3>1, <3>2
  <2> QED
    BY <2>3, <2>4
<1> QED
  BY <1>1, <1>5

LEMMA ServerMatch ==
    ASSUME NEW Texts, MatchInv(Texts), ClientTypes(Texts)', Serves(Texts)
    PROVE  MatchInv(Texts)'
<1>1. CASE ServerCloses
  <2>1. UNCHANGED <<link, got, outbox, pending, events>> /\ ~open'
    BY <1>1 DEF ServerCloses, io
  <2>2. UnreadFirst => UnreadFirst'
    BY <2>1 DEF UnreadFirst, Unread
  <2> QED
    BY <2>1, <2>2 DEF MatchInv
<1> QED
  BY <1>1, TakeMatch, AnswerMatch DEF Serves

LEMMA MatchStep ==
    ASSUME NEW Texts, ~PartialWrites, MatchInv(Texts), [ClientActs(Texts)]_clientVars
    PROVE  MatchInv(Texts)'
<1>1. ClientTypes(Texts)'
  BY ClientStepTypes DEF MatchInv
<1> QED
  BY <1>1, TerminalMatch, RunPostMatch, WriteMatch, WriteFailsMatch, ReceiveMatch,
     ReceiveFailsMatch, ServerMatch DEF ClientActs, IoStep

LEMMA RepliesMatched ==
    ASSUME NEW Texts, MatchInv(Texts)
    PROVE  RepliesMatch
<1>1. DOMAIN events = 1 .. Len(events)
  BY LenProperties DEF MatchInv, ClientTypes
<1> QED
  BY <1>1 DEF MatchInv, RepliesMatch, Matched

\* As long as a packet goes out in one piece, a reply is handed to the page
\* that asked for it, although no reply says whom it is for.
THEOREM HandlersGetTheirReply == ~PartialWrites => (ClientSpec => []RepliesMatch)
<1> SUFFICES ASSUME ~PartialWrites PROVE ClientSpec => []RepliesMatch
  OBVIOUS
<1>1. ClientInit => MatchInv(AnyText)
  BY MatchInit
<1>2. MatchInv(AnyText) /\ [ClientNext]_clientVars => MatchInv(AnyText)'
  BY MatchStep, ClientNextActs
<1>3. MatchInv(AnyText) => RepliesMatch
  BY RepliesMatched
<1> QED
  BY <1>1, <1>2, <1>3, PTL DEF ClientSpec

-----------------------------------------------------------------------------
(* The server the client talks to is one that Service allows, packets that *)
(* partial writes mixed up included.                                       *)

PacketsOf(s) == [k \in 1 .. Len(s) \div 2 |-> <<Framed(s[2 * k - 1], s[2 * k])>>]

LEMMA Halves ==
    ASSUME NEW n \in Nat
    PROVE  /\ n \div 2 \in Nat /\ 2 * (n \div 2) <= n /\ n < 2 * (n \div 2) + 2
           /\ (n + 2) \div 2 = n \div 2 + 1
           /\ (n + 1) \div 2 \in {n \div 2, n \div 2 + 1}
OBVIOUS

LEMMA PacketsShape ==
    ASSUME NEW s, Len(s) \in Nat
    PROVE  /\ Len(s) \div 2 \in Nat
           /\ PacketsOf(s) \in Seq({PacketsOf(s)[k] : k \in 1 .. Len(s) \div 2})
           /\ Len(PacketsOf(s)) = Len(s) \div 2
           /\ \A k \in 1 .. Len(s) \div 2 :
                  PacketsOf(s)[k] = <<Framed(s[2 * k - 1], s[2 * k])>>
<1>1. Len(s) \div 2 \in Nat
  BY Halves
<1> QED
  BY <1>1 DEF PacketsOf

\* At most one packet is completed by at most two chunks.
LEMMA PacketsGrow ==
    ASSUME NEW S, NEW s \in Seq(S), NEW c \in Seq(S), Len(c) \in 1 .. 2
    PROVE  LET p == PacketsOf(s)
               q == PacketsOf(s \o c)
           IN  q = p \/ (Len(q) = Len(p) + 1 /\ SubSeq(q, 1, Len(p)) = p)
<1> DEFINE l == s \o c
           p == PacketsOf(s)
           q == PacketsOf(l)
           n == Len(s) \div 2
           m == Len(l) \div 2
           T == {q[k] : k \in 1 .. m}
<1>1. /\ Len(s) \in Nat /\ Len(l) = Len(s) + Len(c) /\ Len(l) \in Nat
      /\ \A k \in 1 .. Len(s) : l[k] = s[k]
  BY ConcatProperties, LenProperties
<1> HIDE DEF l
<1>2. n \in Nat /\ 2 * n <= Len(s) /\ m \in {n, n + 1}
  <2>1. Len(l) = Len(s) + 1 \/ Len(l) = Len(s) + 2
    <3>1. Len(c) = 1 \/ Len(c) = 2
      OBVIOUS
    <3> QED
      BY <1>1, <3>1
  <2> QED
    BY <1>1, <2>1, Halves
<1>3. /\ Len(p) = n /\ p \in Seq({p[k] : k \in 1 .. n})
      /\ \A k \in 1 .. n : p[k] = <<Framed(s[2 * k - 1], s[2 * k])>>
      /\ Len(q) = m /\ q \in Seq(T)
      /\ \A k \in 1 .. m : q[k] = <<Framed(l[2 * k - 1], l[2 * k])>>
  BY <1>1, PacketsShape
<1> HIDE DEF p, q, m, n
<1>4. ASSUME NEW k \in 1 .. n PROVE q[k] = p[k] /\ p[k] \in T
  <2>1. 2 * k - 1 \in 1 .. Len(s) /\ 2 * k \in 1 .. Len(s) /\ k \in 1 .. m
    BY <1>1, <1>2
  <2>2. q[k] = p[k]
    BY <1>1, <1>3, <2>1
  <2> QED
    BY <2>1, <2>2
<1>5. p \in Seq(T)
  BY <1>3, <1>4, SeqMonotonic
<1> HIDE DEF T
<1>6. CASE m = n
  <2>1. q = p
    BY <1>3, <1>4, <1>5, <1>6, SeqEqual
  <2> QED
    BY <2>1 DEF l, p, q
<1>7. CASE m = n + 1
  <2> DEFINE a == SubSeq(q, 1, n)
  <2>1. \A k \in 1 .. n : q[k] \in T
    BY <1>4
  <2>2. /\ a \in Seq(T) /\ Len(a) = IF 1 <= n THEN n - 1 + 1 ELSE 0
        /\ \A k \in 1 .. n - 1 + 1 : a[k] = q[1 + k - 1]
    BY <1>2, <2>1, SubSeqProperties
  <2> HIDE DEF a
  <2>3. Len(a) = n
    BY <1>2, <2>2
  <2>4. ASSUME NEW k \in 1 .. n PROVE a[k] = p[k]
    <3>1. k \in 1 .. n - 1 + 1 /\ 1 + k - 1 = k
      BY <1>2
    <3> QED
      BY <1>4, <2>2, <3>1
  <2>5. a = p
    BY <1>3, <1>5, <2>2, <2>3, <2>4, SeqEqual
  <2> QED
    BY <1>3, <1>7, <2>5 DEF a, l, p, q
<1> QED
  BY <1>2, <1>6, <1>7

LEMMA PacketsTaken ==
    ASSUME NEW S, NEW s \in Seq(S), Len(s) >= 2
    PROVE  LET p == PacketsOf(s)
           IN  /\ p # <<>> /\ Head(p) = <<Framed(s[1], s[2])>>
               /\ PacketsOf(SubSeq(s, 3, Len(s))) = Tail(p)
<1> DEFINE t == SubSeq(s, 3, Len(s))
           p == PacketsOf(s)
           q == PacketsOf(t)
           n == Len(t) \div 2
           m == Len(s) \div 2
           T == {p[k] : k \in 1 .. m}
<1>1. /\ Len(t) = Len(s) - 2
      /\ \A k \in 1 .. Len(s) - 2 : t[k] = s[k + 2]
  BY PacketTaken
<1> HIDE DEF t
<1>2. Len(s) \in Nat /\ Len(t) \in Nat /\ Len(s) = Len(t) + 2
  BY <1>1, LenProperties
<1>3. n \in Nat /\ 2 * n <= Len(t) /\ m = n + 1
  BY <1>2, Halves
<1>4. /\ Len(p) = m /\ p \in Seq(T)
      /\ \A k \in 1 .. m : p[k] = <<Framed(s[2 * k - 1], s[2 * k])>>
      /\ Len(q) = n /\ q \in Seq({q[k] : k \in 1 .. n})
      /\ \A k \in 1 .. n : q[k] = <<Framed(t[2 * k - 1], t[2 * k])>>
  BY <1>2, PacketsShape
<1> HIDE DEF p, q, n, m
<1>5. ASSUME NEW k \in 1 .. n PROVE q[k] = p[k + 1] /\ q[k] \in T
  <2>1. /\ 2 * k - 1 \in 1 .. Len(s) - 2 /\ 2 * k \in 1 .. Len(s) - 2
        /\ 2 * k - 1 + 2 = 2 * (k + 1) - 1 /\ 2 * k + 2 = 2 * (k + 1)
        /\ k + 1 \in 1 .. m
    BY <1>2, <1>3
  <2>2. t[2 * k - 1] = s[2 * (k + 1) - 1] /\ t[2 * k] = s[2 * (k + 1)]
    BY <1>1, <2>1
  <2>3. q[k] = p[k + 1]
    BY <1>4, <2>1, <2>2
  <2> QED
    BY <2>1, <2>3
<1>6. q \in Seq(T)
  BY <1>4, <1>5, SeqMonotonic
<1>7. p # <<>> /\ Head(p) = <<Framed(s[1], s[2])>>
  <2>1. p # <<>>
    BY <1>3, <1>4
  <2>2. 1 \in 1 .. m /\ 2 * 1 - 1 = 1 /\ 2 * 1 = 2
    BY <1>3
  <2>3. Head(p) = p[1]
    BY <1>4, <2>1, FirstAndRest
  <2> QED
    BY <1>4, <2>1, <2>2, <2>3
<1> HIDE DEF T
<1>8. /\ Tail(p) \in Seq(T) /\ Len(Tail(p)) = Len(p) - 1
      /\ \A k \in 1 .. Len(p) - 1 : Tail(p)[k] = p[k + 1]
  BY <1>4, <1>7, FirstAndRest
<1>9. q = Tail(p)
  <2>1. Len(q) = Len(Tail(p)) /\ Len(p) - 1 = n
    BY <1>3, <1>4, <1>8
  <2>2. \A k \in 1 .. Len(q) : q[k] = Tail(p)[k]
    BY <1>4, <1>5, <1>8, <2>1
  <2> QED
    BY <1>6, <1>8, <2>1, <2>2, SeqEqual
<1> QED
  BY <1>7, <1>9 DEF p, q, t

LEMMA Inbox ==
    /\ UNCHANGED stream => UNCHANGED PacketsOf(stream)
    /\ stream = <<>> => PacketsOf(stream) = <<>>
    /\ stream' = <<>> => PacketsOf(stream)' = <<>>
BY DEF PacketsOf

LEMMA ServiceInit == ClientInit => Conn!Init
BY Inbox DEF ClientInit, Conn!Init, PacketsOf

LEMMA ServiceStep ==
    ASSUME NEW Texts, ClientTypes(Texts), [ClientActs(Texts)]_clientVars
    PROVE  [Conn!Next]_(Conn!connection)
<1>1. CASE UNCHANGED server
  BY <1>1 DEF Conn!connection, server
<1>2. CASE Write
  <2>1. UNCHANGED <<serving, outbox, open>>
    BY <1>2 DEF Write
  <2>2. CASE ~open
    <3>1. UNCHANGED stream
      BY <1>2, <2>2 DEF Write
    <3> QED
      BY <2>1, <3>1 DEF Conn!connection
  <2>3. CASE open
    <3>1. Head(writes) \in [id : Ids, left : 1 .. 2]
      BY <1>2, FirstAndRest DEF Write, ClientTypes, ClientTypeOK
    <3>2. PICK n \in 1 .. Head(writes).left : stream' = stream \o Chunks(Head(writes), n)
      BY <1>2, <2>3 DEF Write
    <3> DEFINE c == Chunks(Head(writes), n)
               p == PacketsOf(stream)
               q == PacketsOf(stream \o c)
    <3>3. c \in Seq([of : Ids, part : 1 .. 2]) /\ Len(c) \in 1 .. 2
      <4>1. n \in 1 .. 2
        BY <3>1
      <4> QED
        BY <3>1, <4>1, ChunksTypes
    <3>4. stream \in Seq([of : Ids, part : 1 .. 2])
      BY DEF ClientTypes, ClientTypeOK
    <3> HIDE DEF c
    <3>5. q = p \/ (Len(q) = Len(p) + 1 /\ SubSeq(q, 1, Len(p)) = p)
      BY <3>3, <3>4, PacketsGrow
    <3>6. q = PacketsOf(stream)'
      BY <3>2 DEF c, PacketsOf
    <3> QED
      BY <2>1, <2>3, <3>5, <3>6 DEF Conn!connection, Conn!Next, Conn!Arrive, PacketsOf
  <2> QED
    BY <2>2, <2>3
<1>3. CASE Take
  <2>1. stream \in Seq([of : Ids, part : 1 .. 2])
    BY DEF ClientTypes, ClientTypeOK
  <2>2. /\ PacketsOf(stream) # <<>>
        /\ Head(PacketsOf(stream)) = serving'
        /\ PacketsOf(stream)' = Tail(PacketsOf(stream))
    BY <1>3, <2>1, PacketsTaken DEF Take
  <2> QED
    BY <1>3, <2>2 DEF Take, Conn!Next, Conn!Take, PacketsOf
<1>4. ASSUME NEW says \in Texts, ServerAnswers(says)
      PROVE  [Conn!Next]_(Conn!connection)
  <2> DEFINE r == [to |-> serving[1], says |-> says]
  <2>1. r \in Answers(Texts)
    BY <1>4 DEF ServerAnswers, ClientTypes, ClientTypeOK, Answers, Ids
  <2>2. outbox' = Append(outbox, r) /\ open /\ serving # <<>> /\ serving' = <<>>
        /\ UNCHANGED <<stream, open>>
    BY <1>4 DEF ServerAnswers
  <2>3. r.to = serving[1]
    OBVIOUS
  <2> HIDE DEF r
  <2>4. /\ Len(outbox') = Len(outbox) + 1 /\ SubSeq(outbox', 1, Len(outbox)) = outbox
        /\ outbox'[Len(outbox')] = r
    BY <2>1, <2>2, AppendProperties, LenProperties DEF ClientTypes
  <2> QED
    BY <2>2, <2>3, <2>4 DEF Conn!Next, Conn!Answer
<1>5. CASE ServerCloses
  BY <1>5, Inbox DEF ServerCloses, Conn!Next, Conn!Close, PacketsOf
<1>6. CASE SendRequest \/ OnDisconnect \/ Connect \/ RunPost \/ WriteFails \/ Receive
           \/ ReceiveFails \/ UNCHANGED clientVars
  BY <1>1, <1>6 DEF SendRequest, OnDisconnect, Connect, RunPost, WriteFails, Receive,
                    ReceiveFails, clientVars, server
<1> QED
  BY <1>2, <1>3, <1>4, <1>5, <1>6 DEF ClientActs, IoStep, Serves

\* The server that the results above suppose is one Service allows: it takes
\* packets in order, one at a time, and answers each by a reply of its own.
THEOREM ServerAllowed == ClientSpec => ServerIsService
<1>1. ClientTypes(AnyText) /\ [ClientNext]_clientVars => [Conn!Next]_(Conn!connection)
  BY ServiceStep, ClientNextActs
<1> QED
  BY ClientTypeCorrect, ServiceInit, <1>1, PTL DEF ClientSpec, ServerIsService, Conn!Spec

=============================================================================
