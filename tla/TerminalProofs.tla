--------------------------- MODULE TerminalProofs ---------------------------
(***************************************************************************)
(* The pages on top of the client, for every set of users, every number of *)
(* requests and every way the network can fail, and a user who waits for   *)
(* the answers the screen shows are awaited (Patient).                     *)
(*                                                                         *)
(* A reply handler reads who is logged in when it runs, so what matters is *)
(* which requests may still be answered, and when.  LineInv says how they  *)
(* stand in line: events not yet run, then _pending, then the posted       *)
(* functions.  PagesInv says that while a reply is awaited that the        *)
(* settings or the history page will put under the name of the user, no    *)
(* request that could change that name is ahead of it.                     *)
(***************************************************************************)
EXTENDS Payments, Integers, TLAPS

-----------------------------------------------------------------------------
(* Sequences of anything.                                                  *)

IsSeq(s) == s \in Seq({s[k] : k \in DOMAIN s})

LEMMA SeqFacts ==
    ASSUME NEW s, IsSeq(s)
    PROVE  Len(s) \in Nat /\ DOMAIN s = 1 .. Len(s)
BY DEF IsSeq

LEMMA AnySeq ==
    ASSUME NEW S, NEW s \in Seq(S)
    PROVE  IsSeq(s)
<1>1. Len(s) \in Nat /\ DOMAIN s = 1 .. Len(s) /\ s = [k \in 1 .. Len(s) |-> s[k]]
  OBVIOUS
<1> QED
  BY <1>1 DEF IsSeq

LEMMA SeqAppend ==
    ASSUME NEW s, NEW e, IsSeq(s)
    PROVE  /\ IsSeq(Append(s, e)) /\ Len(Append(s, e)) = Len(s) + 1
           /\ \A k \in 1 .. Len(s) : Append(s, e)[k] = s[k]
           /\ Append(s, e)[Len(s) + 1] = e
<1> DEFINE S == {s[k] : k \in DOMAIN s} \cup {e}
<1>1. s \in Seq(S)
  BY DEF IsSeq
<1>2. Append(s, e) \in Seq(S)
  BY <1>1
<1>3. IsSeq(Append(s, e))
  BY <1>2, AnySeq
<1> QED
  BY <1>1, <1>3

LEMMA SeqTail ==
    ASSUME NEW s, IsSeq(s), s # <<>>
    PROVE  /\ IsSeq(Tail(s)) /\ Len(Tail(s)) = Len(s) - 1 /\ Len(s) > 0
           /\ Head(s) = s[1]
           /\ \A k \in 1 .. Len(Tail(s)) : Tail(s)[k] = s[k + 1]
<1> DEFINE S == {s[k] : k \in DOMAIN s}
<1>1. s \in Seq(S)
  BY DEF IsSeq
<1> HIDE DEF S
<1>2. Tail(s) \in Seq(S)
  BY <1>1
<1>3. IsSeq(Tail(s))
  BY <1>2, AnySeq
<1> QED
  BY <1>1, <1>3

LEMMA SeqConcat ==
    ASSUME NEW s, NEW t, IsSeq(s), IsSeq(t)
    PROVE  /\ IsSeq(s \o t) /\ Len(s \o t) = Len(s) + Len(t)
           /\ \A k \in 1 .. Len(s) : (s \o t)[k] = s[k]
           /\ \A k \in 1 .. Len(t) : (s \o t)[Len(s) + k] = t[k]
<1> DEFINE S == {s[k] : k \in DOMAIN s} \cup {t[k] : k \in DOMAIN t}
<1>1. s \in Seq(S) /\ t \in Seq(S)
  BY DEF IsSeq
<1> HIDE DEF S
<1>2. s \o t \in Seq(S)
  BY <1>1
<1>3. IsSeq(s \o t)
  BY <1>2, AnySeq
<1> QED
  BY <1>1, <1>3

-----------------------------------------------------------------------------
(* The line of handlers: calls made, then _pending, then posts.            *)

IsIn(id, s) == \E k \in 1 .. Len(s) : s[k] = id
IsCall(e) == events[e].kind = "call"
Rising(s) == \A i, j \in 1 .. Len(s) : i < j => s[i] < s[j]

LineTypes ==
    /\ made \in Nat /\ Len(asked) = made /\ seen \in 0 .. Len(events)
    /\ IsSeq(asked) /\ IsSeq(events) /\ IsSeq(posts) /\ IsSeq(pending)
    /\ \A k \in 1 .. Len(posts) : posts[k] \in 1 .. made
    /\ \A k \in 1 .. Len(pending) : pending[k] \in 1 .. made
    /\ \A e \in 1 .. Len(events) : IsCall(e) => events[e].id \in 1 .. made

\* Those who wait, wait in the order of their requests.
InLine ==
    /\ Rising(posts) /\ Rising(pending)
    /\ \A i \in 1 .. Len(pending), j \in 1 .. Len(posts) : pending[i] < posts[j]

\* Whoever was called waits no more and is not called again, and a reply was
\* given to the oldest: who is called or waits after it is younger.
CalledInTurn ==
    /\ \A e \in 1 .. Len(events) :
          IsCall(e) => ~IsIn(events[e].id, posts) /\ ~IsIn(events[e].id, pending)
    /\ \A d, e \in 1 .. Len(events) :
          d < e /\ IsCall(d) /\ IsCall(e)
             => events[d].id # events[e].id /\ (events[d].ok => events[d].id < events[e].id)
    /\ \A e \in 1 .. Len(events) : IsCall(e) /\ events[e].ok =>
          /\ \A k \in 1 .. Len(pending) : events[e].id < pending[k]
          /\ \A k \in 1 .. Len(posts) : events[e].id < posts[k]

\* Nothing that is posted from now on will be sent.
Off == ~connected /\ link # "connecting"

LostMeansOff == \A e \in 1 .. Len(events) : events[e].kind = "lost" => Off

LineInv == LineTypes /\ InLine /\ CalledInTurn /\ LostMeansOff

Awaited(id) ==
    \/ IsIn(id, posts) \/ IsIn(id, pending)
    \/ \E e \in seen + 1 .. Len(events) : IsCall(e) /\ events[e].id = id

MaySucceed(id) ==
    \/ IsIn(id, posts) /\ ~Off
    \/ IsIn(id, pending)
    \/ \E e \in seen + 1 .. Len(events) : IsCall(e) /\ events[e].id = id /\ events[e].ok

\* Nobody joins the line, at most one moves up, and nothing comes back.
Settles ==
    /\ \A id : Awaited(id)' => Awaited(id)
    /\ \A id : MaySucceed(id)' => MaySucceed(id)
    /\ Off => Off'
    /\ Len(events) <= Len(events') /\ \A e \in 1 .. Len(events) : events'[e] = events[e]

\* The steps of the io thread and the server that move nobody.
LEMMA StillLine ==
    ASSUME LineInv, UNCHANGED <<asked, seen, made, posts, pending, events>>, Off => Off'
    PROVE  LineInv' /\ Settles
<1>1. LineTypes'
  BY DEF LineInv, LineTypes, IsCall
<1>2. InLine' /\ CalledInTurn' /\ LostMeansOff'
  BY DEF LineInv, InLine, CalledInTurn, LostMeansOff, IsCall
<1>3. Settles
  <2>1. Len(events) \in Nat
    BY SeqFacts DEF LineInv, LineTypes
  <2> QED
    BY <2>1 DEF Settles, Awaited, MaySucceed, IsCall
<1> QED
  BY <1>1, <1>2, <1>3 DEF LineInv

LEMMA ConnectLine ==
    ASSUME LineInv, Connect, UNCHANGED <<asked, seen>>
    PROVE  LineInv' /\ Settles
<1>1. CASE link' = "up" /\ connected' = TRUE /\ UNCHANGED events
  BY <1>1, StillLine DEF Connect, Off
<1>2. CASE link' = "refused" /\ events' = Append(events, Refused) /\ UNCHANGED connected
  <2>1. /\ IsSeq(events') /\ Len(events') = Len(events) + 1 /\ Len(events) \in Nat
        /\ \A k \in 1 .. Len(events) : events'[k] = events[k]
        /\ events'[Len(events) + 1].kind = "refused"
    BY <1>2, SeqAppend, SeqFacts DEF LineInv, LineTypes, Refused
  <2>2. UNCHANGED <<made, posts, pending, connected>> /\ link = "connecting"
    BY <1>2 DEF Connect
  <2>3. \A e \in 1 .. Len(events') : IsCall(e)' => e \in 1 .. Len(events) /\ IsCall(e)
    BY <2>1 DEF IsCall
  <2>4. LineTypes'
    BY <2>1, <2>2, <2>3 DEF LineInv, LineTypes
  <2>5. InLine'
    BY <2>2 DEF LineInv, InLine
  <2>6. CalledInTurn'
    BY <2>1, <2>2, <2>3 DEF LineInv, CalledInTurn
  <2>7. LostMeansOff'
    BY <2>1, <2>2 DEF LineInv, LostMeansOff, Off
  <2>8. Settles
    <3>1. seen \in Nat
      BY DEF LineInv, LineTypes
    <3>2. ~Off
      BY <2>2 DEF Off
    <3> QED
      BY <2>1, <2>2, <2>3, <3>1, <3>2 DEF Settles, Awaited, MaySucceed
  <2> QED
    BY <2>4, <2>5, <2>6, <2>7, <2>8 DEF LineInv
<1> QED
  BY <1>1, <1>2 DEF Connect

LEMMA RunPostLine ==
    ASSUME LineInv, RunPost, UNCHANGED <<asked, seen>>
    PROVE  LineInv' /\ Settles
<1> DEFINE id == Head(posts)
<1>1. /\ IsSeq(posts') /\ Len(posts) > 0 /\ Len(posts') = Len(posts) - 1 /\ id = posts[1]
      /\ \A k \in 1 .. Len(posts') : posts'[k] = posts[k + 1]
      /\ Len(posts) \in Nat /\ Len(events) \in Nat /\ Len(pending) \in Nat /\ seen \in Nat
  BY SeqTail, SeqFacts DEF RunPost, LineInv, LineTypes
<1>2. UNCHANGED <<made, connected, link>>
  BY DEF RunPost
<1>3. id \in 1 .. made /\ made \in Nat
  BY <1>1 DEF LineInv, LineTypes
<1> HIDE DEF id
<1>4. \A k \in 1 .. Len(posts') : posts'[k] \in 1 .. made /\ id < posts'[k]
  <2>1. \A k \in 1 .. Len(posts') : k + 1 \in 1 .. Len(posts) /\ 1 < k + 1
    BY <1>1
  <2>2. 1 \in 1 .. Len(posts)
    BY <1>1
  <2> QED
    BY <1>1, <2>1, <2>2 DEF LineInv, LineTypes, InLine, Rising
<1>5. Rising(posts')
  <2>1. \A i, j \in 1 .. Len(posts') : i < j =>
            i + 1 \in 1 .. Len(posts) /\ j + 1 \in 1 .. Len(posts) /\ i + 1 < j + 1
    BY <1>1
  <2> QED
    BY <1>1, <2>1 DEF LineInv, InLine, Rising
<1>6. \A x : IsIn(x, posts') => IsIn(x, posts) /\ (x # id)
  <2>1. \A k \in 1 .. Len(posts') : k + 1 \in 1 .. Len(posts)
    BY <1>1
  <2>2. \A k \in 1 .. Len(posts') : posts'[k] # id
    BY <1>4, <1>3
  <2> QED
    BY <1>1, <2>1, <2>2 DEF IsIn
<1>7. IsIn(id, posts) /\ ~IsIn(id, pending)
  <2>1. \A k \in 1 .. Len(pending) : pending[k] < id /\ pending[k] \in 1 .. made
    BY <1>1 DEF LineInv, LineTypes, InLine
  <2> QED
    BY <1>1, <1>3, <2>1 DEF IsIn
<1>8. CASE connected
  <2>1. /\ IsSeq(pending') /\ Len(pending') = Len(pending) + 1
        /\ \A k \in 1 .. Len(pending) : pending'[k] = pending[k]
        /\ pending'[Len(pending) + 1] = id
    <3>1. pending' = Append(pending, id)
      BY <1>8 DEF RunPost, id
    <3> QED
      BY <3>1, SeqAppend DEF LineInv, LineTypes
  <2>2. UNCHANGED events
    BY <1>8 DEF RunPost
  <2>3. \A k \in 1 .. Len(pending') : k \in 1 .. Len(pending) \/ pending'[k] = id
    BY <1>1, <2>1
  <2>4. \A x : IsIn(x, pending') => IsIn(x, pending) \/ x = id
    BY <2>1, <2>3 DEF IsIn
  <2>5. LineTypes'
    BY <1>1, <1>2, <1>3, <1>4, <2>1, <2>2, <2>3 DEF LineInv, LineTypes, IsCall
  <2>6. InLine'
    <3>1. \A k \in 1 .. Len(pending) : pending[k] < id
      BY <1>1 DEF LineInv, InLine
    <3>2. Rising(pending')
      <4>1. \A i, j \in 1 .. Len(pending') : i < j => i \in 1 .. Len(pending)
        BY <1>1, <2>1
      <4> QED
        BY <2>1, <2>3, <3>1, <4>1 DEF LineInv, InLine, Rising
    <3>3. \A i \in 1 .. Len(pending), j \in 1 .. Len(posts') : pending[i] < posts'[j]
      <4>1. \A j \in 1 .. Len(posts') : j + 1 \in 1 .. Len(posts)
        BY <1>1
      <4> QED
        BY <1>1, <4>1 DEF LineInv, InLine
    <3> QED
      BY <1>4, <1>5, <2>1, <2>3, <3>2, <3>3 DEF InLine
  <2>7. CalledInTurn'
    <3>1. \A e \in 1 .. Len(events) :
             IsCall(e) => ~IsIn(events[e].id, posts') /\ ~IsIn(events[e].id, pending')
      BY <1>6, <1>7, <2>4 DEF LineInv, CalledInTurn
    <3>2. \A e \in 1 .. Len(events) : IsCall(e) /\ events[e].ok =>
              \A k \in 1 .. Len(pending') : events[e].id < pending'[k]
      <4>1. 1 \in 1 .. Len(posts)
        BY <1>1
      <4> QED
        BY <1>1, <2>1, <2>3, <4>1 DEF LineInv, CalledInTurn
    <3>3. \A e \in 1 .. Len(events) : IsCall(e) /\ events[e].ok =>
              \A k \in 1 .. Len(posts') : events[e].id < posts'[k]
      <4>1. \A k \in 1 .. Len(posts') : k + 1 \in 1 .. Len(posts)
        BY <1>1
      <4> QED
        BY <1>1, <4>1 DEF LineInv, CalledInTurn
    <3> QED
      BY <2>2, <3>1, <3>2, <3>3 DEF LineInv, CalledInTurn, IsCall
  <2>8. LostMeansOff'
    BY <1>2, <2>2 DEF LineInv, LostMeansOff, Off
  <2>9. Settles
    <3>1. ~Off
      BY <1>8 DEF Off
    <3> QED
      BY <1>1, <1>2, <1>6, <1>7, <2>2, <2>4, <3>1 DEF Settles, Awaited, MaySucceed, Off, IsCall
  <2> QED
    BY <2>5, <2>6, <2>7, <2>8, <2>9 DEF LineInv
<1>9. CASE ~connected
  <2>1. /\ IsSeq(events') /\ Len(events') = Len(events) + 1
        /\ \A k \in 1 .. Len(events) : events'[k] = events[k]
        /\ events'[Len(events) + 1] = Failed(id)
    <3>1. events' = Append(events, Failed(id))
      BY <1>9 DEF RunPost, id
    <3> QED
      BY <3>1, SeqAppend DEF LineInv, LineTypes
  <2>2. UNCHANGED pending
    BY <1>9 DEF RunPost
  <2>3. \A e \in 1 .. Len(events') : e \in 1 .. Len(events) \/ e = Len(events) + 1
    BY <1>1, <2>1
  <2>4. /\ events'[Len(events) + 1].kind = "call" /\ events'[Len(events) + 1].id = id
        /\ events'[Len(events) + 1].ok = FALSE
    BY <2>1 DEF Failed, Called
  <2>5. LineTypes'
    <3>1. \A e \in 1 .. Len(events') : IsCall(e)' => events'[e].id \in 1 .. made
      BY <1>3, <2>1, <2>3, <2>4 DEF LineInv, LineTypes, IsCall
    <3>2. seen \in 0 .. Len(events')
      BY <1>1, <2>1 DEF LineInv, LineTypes
    <3> QED
      BY <1>1, <1>2, <1>4, <2>1, <2>2, <3>1, <3>2 DEF LineInv, LineTypes
  <2>6. InLine'
    <3>1. \A i \in 1 .. Len(pending), j \in 1 .. Len(posts') : pending[i] < posts'[j]
      <4>1. \A j \in 1 .. Len(posts') : j + 1 \in 1 .. Len(posts)
        BY <1>1
      <4> QED
        BY <1>1, <4>1 DEF LineInv, InLine
    <3> QED
      BY <1>5, <2>2, <3>1 DEF LineInv, InLine
  <2>7. CalledInTurn'
    <3>1. \A e \in 1 .. Len(events') :
             IsCall(e)' => ~IsIn(events'[e].id, posts') /\ ~IsIn(events'[e].id, pending')
      BY <1>6, <1>7, <2>1, <2>2, <2>3, <2>4 DEF LineInv, CalledInTurn, IsCall
    <3>2. \A d, e \in 1 .. Len(events') :
             d < e /\ IsCall(d)' /\ IsCall(e)'
                => events'[d].id # events'[e].id
                   /\ (events'[d].ok => events'[d].id < events'[e].id)
      <4> SUFFICES ASSUME NEW d \in 1 .. Len(events'), NEW e \in 1 .. Len(events'),
                          d < e, IsCall(d)', IsCall(e)'
                   PROVE  /\ events'[d].id # events'[e].id
                          /\ events'[d].ok => events'[d].id < events'[e].id
        OBVIOUS
      <4>1. d \in 1 .. Len(events) /\ events'[d] = events[d] /\ IsCall(d)
        BY <1>1, <2>1 DEF IsCall
      <4>2. CASE e \in 1 .. Len(events)
        BY <2>1, <4>1, <4>2 DEF LineInv, CalledInTurn, IsCall
      <4>3. CASE e = Len(events) + 1
        <5>1. events[d].id # id
          BY <1>7, <4>1 DEF LineInv, CalledInTurn
        <5>2. events[d].ok => events[d].id < id
          BY <1>1, <4>1 DEF LineInv, CalledInTurn
        <5> QED
          BY <2>4, <4>1, <4>3, <5>1, <5>2
      <4> QED
        BY <2>3, <4>2, <4>3
    <3>3. \A e \in 1 .. Len(events') : IsCall(e)' /\ events'[e].ok =>
             /\ e \in 1 .. Len(events) /\ events'[e] = events[e] /\ IsCall(e)
      BY <2>1, <2>3, <2>4 DEF IsCall
    <3>4. \A j \in 1 .. Len(posts') : j + 1 \in 1 .. Len(posts)
      BY <1>1
    <3>5. \A e \in 1 .. Len(events') : IsCall(e)' /\ events'[e].ok =>
             /\ \A k \in 1 .. Len(pending) : events'[e].id < pending[k]
             /\ \A k \in 1 .. Len(posts') : events'[e].id < posts'[k]
      <4> SUFFICES ASSUME NEW e \in 1 .. Len(events'), IsCall(e)', events'[e].ok
                   PROVE  /\ \A k \in 1 .. Len(pending) : events'[e].id < pending[k]
                          /\ \A k \in 1 .. Len(posts') : events'[e].id < posts'[k]
        OBVIOUS
      <4>1. e \in 1 .. Len(events) /\ events'[e] = events[e] /\ IsCall(e) /\ events[e].ok
        BY <3>3
      <4>2. /\ \A k \in 1 .. Len(pending) : events[e].id < pending[k]
            /\ \A k \in 1 .. Len(posts) : events[e].id < posts[k]
        BY <4>1 DEF LineInv, CalledInTurn
      <4> QED
        BY <1>1, <3>4, <4>1, <4>2
    <3> QED
      BY <2>2, <3>1, <3>2, <3>5 DEF CalledInTurn
  <2>8. LostMeansOff'
    BY <1>2, <2>1, <2>3, <2>4 DEF LineInv, LostMeansOff, Off
  <2>9. Settles
    <3>1. \A x : Awaited(x)' => Awaited(x)
      BY <1>1, <1>6, <1>7, <2>1, <2>2, <2>3, <2>4 DEF Awaited, IsCall
    <3>2. \A x : MaySucceed(x)' => MaySucceed(x)
      BY <1>1, <1>2, <1>6, <1>7, <2>1, <2>2, <2>3, <2>4 DEF MaySucceed, IsCall, Off
    <3> QED
      BY <1>1, <1>2, <2>1, <3>1, <3>2 DEF Settles, Off
  <2> QED
    BY <2>5, <2>6, <2>7, <2>8, <2>9 DEF LineInv
<1> QED
  BY <1>8, <1>9

LEMMA ReceiveLine ==
    ASSUME LineInv, Receive, UNCHANGED <<asked, seen>>
    PROVE  LineInv' /\ Settles
<1>0. UNCHANGED <<made, connected, link, posts>>
  BY DEF Receive
<1>1. CASE pending = <<>>
  BY <1>0, <1>1, StillLine DEF Receive, Off
<1>2. CASE pending # <<>>
  <2> DEFINE id == Head(pending)
             reply0 == outbox[got']
  <2>1. /\ IsSeq(pending') /\ Len(pending) > 0 /\ Len(pending') = Len(pending) - 1
        /\ id = pending[1] /\ \A k \in 1 .. Len(pending') : pending'[k] = pending[k + 1]
        /\ Len(pending) \in Nat /\ Len(events) \in Nat /\ Len(posts) \in Nat
        /\ seen \in Nat /\ made \in Nat
    <3>1. pending' = Tail(pending)
      BY <1>2 DEF Receive, Popped
    <3>2. IsSeq(pending) /\ IsSeq(events) /\ IsSeq(posts) /\ seen \in Nat /\ made \in Nat
      BY DEF LineInv, LineTypes
    <3> QED
      BY <1>2, <3>1, <3>2, SeqTail, SeqFacts
  <2>2. events' = Append(events, Called(id, TRUE, reply0))
    BY <1>2 DEF Receive, NextHandler
  <2> HIDE DEF id, reply0
  <2>3. /\ IsSeq(events') /\ Len(events') = Len(events) + 1
        /\ \A k \in 1 .. Len(events) : events'[k] = events[k]
        /\ events'[Len(events) + 1] = Called(id, TRUE, reply0)
    BY <2>2, SeqAppend DEF LineInv, LineTypes
  <2>4. /\ events'[Len(events) + 1].kind = "call" /\ events'[Len(events) + 1].id = id
        /\ events'[Len(events) + 1].ok = TRUE
    BY <2>3 DEF Called
  <2>5. \A e \in 1 .. Len(events') : e \in 1 .. Len(events) \/ e = Len(events) + 1
    BY <2>1, <2>3
  <2>6. /\ 1 \in 1 .. Len(pending)
        /\ \A k \in 1 .. Len(pending') : k + 1 \in 1 .. Len(pending) /\ 1 < k + 1
    BY <2>1
  <2>7. id \in 1 .. made /\ IsIn(id, pending)
    BY <2>1, <2>6 DEF LineInv, LineTypes, IsIn
  <2>8. /\ \A k \in 1 .. Len(pending') : pending'[k] \in 1 .. made /\ id < pending'[k]
        /\ \A k \in 1 .. Len(posts) : posts[k] \in 1 .. made /\ id < posts[k]
    BY <2>1, <2>6 DEF LineInv, LineTypes, InLine, Rising
  <2>9. /\ \A x : IsIn(x, pending') => IsIn(x, pending)
        /\ ~IsIn(id, pending') /\ ~IsIn(id, posts)
    BY <2>1, <2>6, <2>7, <2>8 DEF IsIn
  <2>10. LineTypes'
    <3>1. \A e \in 1 .. Len(events') : IsCall(e)' => events'[e].id \in 1 .. made
      BY <2>3, <2>4, <2>5, <2>7 DEF LineInv, LineTypes, IsCall
    <3>2. seen \in 0 .. Len(events')
      BY <2>1, <2>3 DEF LineInv, LineTypes
    <3> QED
      BY <1>0, <2>1, <2>3, <2>8, <3>1, <3>2 DEF LineInv, LineTypes
  <2>11. InLine'
    <3>1. Rising(pending')
      <4>1. \A i, j \in 1 .. Len(pending') : i < j => i + 1 < j + 1
        BY <2>1
      <4> QED
        BY <2>1, <2>6, <4>1 DEF LineInv, InLine, Rising
    <3>2. \A i \in 1 .. Len(pending'), j \in 1 .. Len(posts) : pending'[i] < posts[j]
      BY <2>1, <2>6 DEF LineInv, InLine
    <3> QED
      BY <1>0, <3>1, <3>2 DEF LineInv, InLine
  <2>12. CalledInTurn'
    <3>1. \A e \in 1 .. Len(events') :
             IsCall(e)' => ~IsIn(events'[e].id, posts) /\ ~IsIn(events'[e].id, pending')
      <4>1. \A e \in 1 .. Len(events) :
               IsCall(e)' => ~IsIn(events'[e].id, posts) /\ ~IsIn(events'[e].id, pending')
        BY <2>3, <2>9 DEF LineInv, CalledInTurn, IsCall
      <4> QED
        BY <2>4, <2>5, <2>9, <4>1
    <3>2. \A d, e \in 1 .. Len(events') :
             d < e /\ IsCall(d)' /\ IsCall(e)'
                => events'[d].id # events'[e].id
                   /\ (events'[d].ok => events'[d].id < events'[e].id)
      <4> SUFFICES ASSUME NEW d \in 1 .. Len(events'), NEW e \in 1 .. Len(events'),
                          d < e, IsCall(d)', IsCall(e)'
                   PROVE  /\ events'[d].id # events'[e].id
                          /\ events'[d].ok => events'[d].id < events'[e].id
        OBVIOUS
      <4>1. d \in 1 .. Len(events) /\ events'[d] = events[d] /\ IsCall(d)
        BY <2>1, <2>3 DEF IsCall
      <4>2. CASE e \in 1 .. Len(events)
        BY <2>3, <4>1, <4>2 DEF LineInv, CalledInTurn, IsCall
      <4>3. CASE e = Len(events) + 1
        <5>1. events[d].id # id
          BY <2>7, <4>1 DEF LineInv, CalledInTurn
        <5>2. events[d].ok => events[d].id < id
          BY <2>1, <2>6, <4>1 DEF LineInv, CalledInTurn
        <5> QED
          BY <2>4, <4>1, <4>3, <5>1, <5>2
      <4> QED
        BY <2>5, <4>2, <4>3
    <3>3. \A e \in 1 .. Len(events') : IsCall(e)' /\ events'[e].ok =>
             /\ \A k \in 1 .. Len(pending') : events'[e].id < pending'[k]
             /\ \A k \in 1 .. Len(posts) : events'[e].id < posts[k]
      <4> SUFFICES ASSUME NEW e \in 1 .. Len(events'), IsCall(e)', events'[e].ok
                   PROVE  /\ \A k \in 1 .. Len(pending') : events'[e].id < pending'[k]
                          /\ \A k \in 1 .. Len(posts) : events'[e].id < posts[k]
        OBVIOUS
      <4>1. CASE e = Len(events) + 1
        BY <2>4, <2>8, <4>1
      <4>2. CASE e \in 1 .. Len(events)
        <5>1. events'[e] = events[e] /\ IsCall(e) /\ events[e].ok
          BY <2>3, <4>2 DEF IsCall
        <5>2. /\ \A k \in 1 .. Len(pending) : events[e].id < pending[k]
              /\ \A k \in 1 .. Len(posts) : events[e].id < posts[k]
          BY <4>2, <5>1 DEF LineInv, CalledInTurn
        <5> QED
          BY <2>1, <2>6, <5>1, <5>2
      <4> QED
        BY <2>5, <4>1, <4>2
    <3> QED
      BY <1>0, <3>1, <3>2, <3>3 DEF CalledInTurn
  <2>13. LostMeansOff'
    BY <1>0, <2>3, <2>4, <2>5 DEF LineInv, LostMeansOff, Off
  <2>14. Settles
    <3>1. \A e \in seen + 1 .. Len(events') :
             \/ e \in seen + 1 .. Len(events) /\ events'[e] = events[e]
             \/ events'[e].id = id
      <4>1. \A e \in seen + 1 .. Len(events') : e \in 1 .. Len(events')
        BY <2>1, <2>3
      <4>2. \A e \in seen + 1 .. Len(events') :
               e \in 1 .. Len(events) => e \in seen + 1 .. Len(events)
        BY <2>1, <2>3
      <4> QED
        BY <2>3, <2>4, <2>5, <4>1, <4>2
    <3>2. \A x : Awaited(x)' => Awaited(x)
      BY <1>0, <2>7, <2>9, <3>1 DEF Awaited, IsCall
    <3>3. \A x : MaySucceed(x)' => MaySucceed(x)
      BY <1>0, <2>7, <2>9, <3>1 DEF MaySucceed, IsCall, Off
    <3> QED
      BY <1>0, <2>1, <2>3, <3>2, <3>3 DEF Settles, Off
  <2> QED
    BY <2>10, <2>11, <2>12, <2>13, <2>14 DEF LineInv
<1> QED
  BY <1>1, <1>2

\* What the disconnect handler tells, and nothing else, is put at the end.
LEMMA WriteFailsLine ==
    ASSUME LineInv, WriteFails, UNCHANGED <<asked, seen>>
    PROVE  LineInv' /\ Settles
<1>1. /\ UNCHANGED <<made, link, posts, pending>> /\ Off'
      /\ IsSeq(Notice) /\ Len(Notice) \in Nat
      /\ \A k \in 1 .. Len(Notice) : Notice[k].kind = "lost"
  <2>1. Notice = <<Lost>> \/ Notice = <<>>
    BY DEF Notice
  <2>2. IsSeq(<<Lost>>) /\ IsSeq(<<>>)
    <3>1. <<Lost>> \in Seq({Lost}) /\ <<>> \in Seq({Lost})
      OBVIOUS
    <3> QED
      BY <3>1, AnySeq
  <2>3. Lost.kind = "lost" /\ <<Lost>>[1] = Lost /\ Len(<<Lost>>) = 1 /\ Len(<<>>) = 0
    BY DEF Lost
  <2>4. UNCHANGED <<made, link, posts, pending>> /\ Off'
    BY DEF WriteFails, Off
  <2> QED
    BY <2>1, <2>2, <2>3, <2>4
<1>2. /\ IsSeq(events') /\ Len(events) \in Nat /\ Len(events') = Len(events) + Len(Notice)
      /\ \A k \in 1 .. Len(events) : events'[k] = events[k]
      /\ \A k \in 1 .. Len(Notice) : events'[Len(events) + k] = Notice[k]
  BY <1>1, SeqConcat, SeqFacts DEF WriteFails, LineInv, LineTypes
<1>3. \A e \in 1 .. Len(events') : IsCall(e)' => e \in 1 .. Len(events) /\ IsCall(e)
  <2> SUFFICES ASSUME NEW e \in 1 .. Len(events'), ~(e \in 1 .. Len(events))
               PROVE  ~IsCall(e)'
    BY <1>2 DEF IsCall
  <2>1. e - Len(events) \in 1 .. Len(Notice) /\ e = Len(events) + (e - Len(events))
    BY <1>1, <1>2
  <2>2. events'[e].kind = "lost"
    BY <1>1, <1>2, <2>1
  <2> QED
    BY <2>2 DEF IsCall
<1>4. LineTypes'
  BY <1>1, <1>2, <1>3 DEF LineInv, LineTypes
<1>5. InLine'
  BY <1>1 DEF LineInv, InLine
<1>6. CalledInTurn'
  <2>1. CalledInTurn /\ posts' = posts /\ pending' = pending
    BY <1>1 DEF LineInv
  <2>2. \A e \in 1 .. Len(events') :
            IsCall(e)' => e \in 1 .. Len(events) /\ IsCall(e) /\ events'[e] = events[e]
    BY <1>2, <1>3
  <2>3. \A e \in 1 .. Len(events') :
            IsCall(e)' => ~IsIn(events'[e].id, posts') /\ ~IsIn(events'[e].id, pending')
    BY <2>1, <2>2 DEF CalledInTurn
  <2>4. \A d, e \in 1 .. Len(events') :
            d < e /\ IsCall(d)' /\ IsCall(e)'
               => events'[d].id # events'[e].id
                  /\ (events'[d].ok => events'[d].id < events'[e].id)
    BY <2>1, <2>2 DEF CalledInTurn
  <2>5. \A e \in 1 .. Len(events') : IsCall(e)' /\ events'[e].ok =>
            /\ \A k \in 1 .. Len(pending') : events'[e].id < pending'[k]
            /\ \A k \in 1 .. Len(posts') : events'[e].id < posts'[k]
    BY <2>1, <2>2 DEF CalledInTurn
  <2> QED
    BY <2>3, <2>4, <2>5 DEF CalledInTurn
<1>7. LostMeansOff'
  BY <1>1 DEF LostMeansOff
<1>8. Settles
  <2>1. seen \in Nat
    BY DEF LineInv, LineTypes
  <2> QED
    BY <1>1, <1>2, <1>3, <2>1 DEF Settles, Awaited, MaySucceed
<1> QED
  BY <1>4, <1>5, <1>6, <1>7, <1>8 DEF LineInv

\* Everybody in _pending is told at once that there will be no reply.
LEMMA ReceiveFailsLine ==
    ASSUME LineInv, ReceiveFails, UNCHANGED <<asked, seen>>
    PROVE  LineInv' /\ Settles
<1> DEFINE n == Len(events) + Len(Notice)
<1>1. UNCHANGED <<made, posts>> /\ Off' /\ pending' = <<>> /\ Len(pending') = 0
  BY DEF ReceiveFails, Off
<1>2. /\ IsSeq(Notice) /\ Len(Notice) \in Nat
      /\ \A k \in 1 .. Len(Notice) : Notice[k].kind = "lost"
  <2>1. Notice = <<Lost>> \/ Notice = <<>>
    BY DEF Notice
  <2>2. IsSeq(<<Lost>>) /\ IsSeq(<<>>)
    <3>1. <<Lost>> \in Seq({Lost}) /\ <<>> \in Seq({Lost})
      OBVIOUS
    <3> QED
      BY <3>1, AnySeq
  <2>3. Lost.kind = "lost" /\ <<Lost>>[1] = Lost /\ Len(<<Lost>>) = 1 /\ Len(<<>>) = 0
    BY DEF Lost
  <2> QED
    BY <2>1, <2>2, <2>3
<1>3. /\ Len(events) \in Nat /\ Len(posts) \in Nat /\ Len(pending) \in Nat
      /\ seen \in Nat /\ made \in Nat
  BY SeqFacts DEF LineInv, LineTypes
<1>4. /\ IsSeq(FailPending) /\ Len(FailPending) = Len(pending)
      /\ \A k \in 1 .. Len(pending) : FailPending[k] = Failed(pending[k])
  <2> DEFINE S == {Failed(pending[k]) : k \in 1 .. Len(pending)}
  <2>1. FailPending \in Seq(S) /\ Len(FailPending) = Len(pending)
    BY <1>3 DEF FailPending
  <2> QED
    BY <2>1, AnySeq DEF FailPending
<1>5. /\ IsSeq(events') /\ Len(events') = n + Len(pending)
      /\ \A k \in 1 .. Len(events) : events'[k] = events[k]
      /\ \A k \in 1 .. Len(Notice) : events'[Len(events) + k] = Notice[k]
      /\ \A k \in 1 .. Len(pending) : events'[n + k] = Failed(pending[k])
  <2> DEFINE told1 == events \o Notice
  <2>1. /\ IsSeq(told1) /\ Len(told1) = n
        /\ \A k \in 1 .. Len(events) : told1[k] = events[k]
        /\ \A k \in 1 .. Len(Notice) : told1[Len(events) + k] = Notice[k]
    BY <1>2, SeqConcat DEF LineInv, LineTypes
  <2>2. events' = told1 \o FailPending
    BY DEF ReceiveFails
  <2> HIDE DEF told1
  <2>3. /\ IsSeq(events') /\ Len(events') = n + Len(pending)
        /\ \A k \in 1 .. n : events'[k] = told1[k]
        /\ \A k \in 1 .. Len(pending) : events'[n + k] = FailPending[k]
    <3>1. /\ IsSeq(told1 \o FailPending)
          /\ Len(told1 \o FailPending) = Len(told1) + Len(FailPending)
          /\ \A k \in 1 .. Len(told1) : (told1 \o FailPending)[k] = told1[k]
          /\ \A k \in 1 .. Len(FailPending) :
                (told1 \o FailPending)[Len(told1) + k] = FailPending[k]
      <4>1. IsSeq(told1) /\ IsSeq(FailPending)
        BY <1>4, <2>1
      <4> QED
        BY <4>1, SeqConcat
    <3> QED
      BY <1>4, <2>1, <2>2, <3>1
  <2>4. /\ \A k \in 1 .. Len(events) : k \in 1 .. n
        /\ \A k \in 1 .. Len(Notice) : Len(events) + k \in 1 .. n
    BY <1>2, <1>3
  <2> QED
    BY <1>4, <2>1, <2>3, <2>4
<1> HIDE DEF n
<1>6. n \in Nat /\ Len(events) <= n
  BY <1>2, <1>3 DEF n
\* What is new is the notice or the end of a handler that was pending.
<1>7. \A e \in 1 .. Len(events') : IsCall(e)' =>
         \/ e \in 1 .. Len(events) /\ events'[e] = events[e] /\ IsCall(e)
         \/ \E k \in 1 .. Len(pending) : /\ e = n + k /\ events'[e].id = pending[k]
                                         /\ events'[e].ok = FALSE
  <2> SUFFICES ASSUME NEW e \in 1 .. Len(events'), IsCall(e)', ~(e \in 1 .. Len(events))
               PROVE  \E k \in 1 .. Len(pending) : /\ e = n + k /\ events'[e].id = pending[k]
                                                   /\ events'[e].ok = FALSE
    BY <1>5 DEF IsCall
  <2>1. ~(e \in Len(events) + 1 .. n)
    <3> SUFFICES ASSUME e \in Len(events) + 1 .. n PROVE FALSE
      OBVIOUS
    <3>1. e - Len(events) \in 1 .. Len(Notice) /\ e = Len(events) + (e - Len(events))
      BY <1>2, <1>3 DEF n
    <3>2. events'[e].kind = "lost"
      BY <1>2, <1>5, <3>1
    <3> QED
      BY <3>2 DEF IsCall
  <2>2. e - n \in 1 .. Len(pending) /\ e = n + (e - n)
    BY <1>3, <1>5, <1>6, <2>1
  <2>3. events'[e] = Failed(pending[e - n])
    BY <1>5, <2>2
  <2>4. events'[e].id = pending[e - n] /\ events'[e].ok = FALSE
    BY <2>3 DEF Failed, Called
  <2> QED
    BY <2>2, <2>4
<1>8. LineTypes'
  <2>1. \A e \in 1 .. Len(events') : IsCall(e)' => events'[e].id \in 1 .. made
    BY <1>7 DEF LineInv, LineTypes
  <2>2. seen \in 0 .. Len(events')
    BY <1>3, <1>5, <1>6 DEF LineInv, LineTypes
  <2>3. IsSeq(pending') /\ \A k \in 1 .. Len(pending') : FALSE
    <3>1. <<>> \in Seq({1})
      OBVIOUS
    <3>2. IsSeq(pending')
      BY <1>1, <3>1, AnySeq
    <3> QED
      BY <1>1, <3>2
  <2> QED
    BY <1>1, <1>5, <2>1, <2>2, <2>3 DEF LineInv, LineTypes
<1>9. InLine'
  <2>1. \A k \in 1 .. Len(pending') : FALSE
    BY <1>1
  <2> QED
    BY <1>1, <2>1 DEF LineInv, InLine, Rising
<1>10. CalledInTurn'
  <2>0. \A x : ~IsIn(x, pending')
    BY <1>1 DEF IsIn
  <2>1. \A e \in 1 .. Len(events') :
           IsCall(e)' => ~IsIn(events'[e].id, posts) /\ ~IsIn(events'[e].id, pending')
    <3> SUFFICES ASSUME NEW e \in 1 .. Len(events'), IsCall(e)'
                 PROVE  ~IsIn(events'[e].id, posts)
      BY <2>0
    <3>1. CASE e \in 1 .. Len(events) /\ events'[e] = events[e] /\ IsCall(e)
      BY <3>1 DEF LineInv, CalledInTurn
    <3>2. CASE \E k \in 1 .. Len(pending) : events'[e].id = pending[k]
      <4>1. PICK k \in 1 .. Len(pending) : events'[e].id = pending[k]
        BY <3>2
      <4>2. \A j \in 1 .. Len(posts) : pending[k] < posts[j] /\ posts[j] \in 1 .. made
        BY <4>1 DEF LineInv, LineTypes, InLine
      <4>3. pending[k] \in 1 .. made
        BY <4>1 DEF LineInv, LineTypes
      <4> QED
        BY <1>3, <4>1, <4>2, <4>3 DEF IsIn
    <3> QED
      BY <1>7, <3>1, <3>2
  <2>2. \A d, e \in 1 .. Len(events') :
           d < e /\ IsCall(d)' /\ IsCall(e)'
              => events'[d].id # events'[e].id
                 /\ (events'[d].ok => events'[d].id < events'[e].id)
    <3> SUFFICES ASSUME NEW d \in 1 .. Len(events'), NEW e \in 1 .. Len(events'),
                        d < e, IsCall(d)', IsCall(e)'
                 PROVE  /\ events'[d].id # events'[e].id
                        /\ events'[d].ok => events'[d].id < events'[e].id
      OBVIOUS
    <3>1. CASE e \in 1 .. Len(events) /\ events'[e] = events[e] /\ IsCall(e)
      <4>1. d \in 1 .. Len(events)
        BY <1>3, <3>1
      <4>2. events'[d] = events[d] /\ IsCall(d)
        BY <1>5, <4>1 DEF IsCall
      <4> QED
        BY <3>1, <4>1, <4>2 DEF LineInv, CalledInTurn
    <3>2. CASE \E k \in 1 .. Len(pending) : e = n + k /\ events'[e].id = pending[k]
      <4>1. PICK k \in 1 .. Len(pending) : e = n + k /\ events'[e].id = pending[k]
        BY <3>2
      <4>2. CASE d \in 1 .. Len(events) /\ events'[d] = events[d] /\ IsCall(d)
        <5>1. events[d].id # pending[k]
          BY <4>1, <4>2 DEF LineInv, CalledInTurn, IsIn
        <5>2. events[d].ok => events[d].id < pending[k]
          BY <4>1, <4>2 DEF LineInv, CalledInTurn
        <5> QED
          BY <4>1, <4>2, <5>1, <5>2
      <4>3. CASE \E j \in 1 .. Len(pending) : /\ d = n + j /\ events'[d].id = pending[j]
                                              /\ events'[d].ok = FALSE
        <5>1. PICK j \in 1 .. Len(pending) : /\ d = n + j /\ events'[d].id = pending[j]
                                             /\ events'[d].ok = FALSE
          BY <4>3
        <5>2. j < k
          BY <1>3, <1>6, <4>1, <5>1
        <5>3. pending[j] < pending[k] /\ pending[j] \in 1 .. made /\ pending[k] \in 1 .. made
          BY <4>1, <5>1, <5>2 DEF LineInv, LineTypes, InLine, Rising
        <5> QED
          BY <1>3, <4>1, <5>1, <5>3
      <4> QED
        BY <1>7, <4>2, <4>3
    <3> QED
      BY <1>7, <3>1, <3>2
  <2>3. \A e \in 1 .. Len(events') : IsCall(e)' /\ events'[e].ok =>
           \A k \in 1 .. Len(posts) : events'[e].id < posts[k]
    <3> SUFFICES ASSUME NEW e \in 1 .. Len(events'), IsCall(e)', events'[e].ok
                 PROVE  \A k \in 1 .. Len(posts) : events'[e].id < posts[k]
      OBVIOUS
    <3>1. e \in 1 .. Len(events) /\ events'[e] = events[e] /\ IsCall(e)
      BY <1>7
    <3> QED
      BY <3>1 DEF LineInv, CalledInTurn
  <2>4. \A k \in 1 .. Len(pending') : FALSE
    BY <1>1
  <2> QED
    BY <1>1, <2>1, <2>2, <2>3, <2>4 DEF CalledInTurn
<1>11. LostMeansOff'
  BY <1>1 DEF LostMeansOff
<1>12. Settles
  <2>1. \A x : ~IsIn(x, pending')
    BY <1>1 DEF IsIn
  <2>2. \A e \in seen + 1 .. Len(events') : e \in 1 .. Len(events')
    BY <1>3
  <2>3. \A e \in seen + 1 .. Len(events') :
           e \in 1 .. Len(events) => e \in seen + 1 .. Len(events)
    BY <1>3
  <2>4. \A e \in seen + 1 .. Len(events') : IsCall(e)' =>
           \/ e \in seen + 1 .. Len(events) /\ events'[e] = events[e] /\ IsCall(e)
           \/ IsIn(events'[e].id, pending) /\ events'[e].ok = FALSE
    <3> SUFFICES ASSUME NEW e \in seen + 1 .. Len(events'), IsCall(e)'
                 PROVE  \/ e \in seen + 1 .. Len(events) /\ events'[e] = events[e] /\ IsCall(e)
                        \/ IsIn(events'[e].id, pending) /\ events'[e].ok = FALSE
      OBVIOUS
    <3> QED
      BY <1>7, <2>2, <2>3 DEF IsIn
  <2>5. \A x : Awaited(x)' => Awaited(x)
    BY <1>1, <2>1, <2>4 DEF Awaited
  <2>6. \A x : MaySucceed(x)' => MaySucceed(x)
    BY <1>1, <2>1, <2>4 DEF MaySucceed
  <2> QED
    BY <1>1, <1>3, <1>5, <1>6, <2>5, <2>6 DEF Settles
<1> QED
  BY <1>8, <1>9, <1>10, <1>11, <1>12 DEF LineInv

LEMMA NetworkLine ==
    ASSUME LineInv, UNCHANGED <<asked, seen>>,
           \/ OnDisconnect \/ IoStep \/ Take \/ ServerCloses
           \/ \E says : ServerAnswers(says)
    PROVE  LineInv' /\ Settles
<1>1. CASE \/ OnDisconnect \/ Write \/ Take \/ ServerCloses
           \/ \E says : ServerAnswers(says)
  <2>1. UNCHANGED <<made, link, connected, posts, pending, events>>
    BY <1>1 DEF OnDisconnect, Write, Take, ServerCloses, ServerAnswers, io
  <2> QED
    BY <2>1, StillLine DEF Off
<1> QED
  BY <1>1, ConnectLine, RunPostLine, ReceiveLine, WriteFailsLine, ReceiveFailsLine DEF IoStep

\* What is done for other sessions moves nobody.
LEMMA OthersLine ==
    ASSUME LineInv, ServedElsewhere
    PROVE  LineInv' /\ Settles /\ UNCHANGED <<ui, clientVars>>
<1>1. UNCHANGED <<ui, clientVars>>
  BY DEF ServedElsewhere
<1>2. UNCHANGED <<asked, seen, made, link, connected, posts, pending, events>>
  BY <1>1 DEF ui, clientVars, io, server
<1> QED
  BY <1>1, <1>2, StillLine DEF Off

-----------------------------------------------------------------------------
(* The FTXUI thread: it runs an event or not, and asks for something or    *)
(* not.                                                                    *)

MayRun == \/ seen' = seen
          \/ seen < Len(events) /\ seen' = seen + 1
MayAsk == AskNothing \/ \E r : Ask(r)

\* A request that has just been made is the last in line.
LEMMA AskLine ==
    ASSUME LineInv, NEW r, Ask(r)
    PROVE  /\ made' = made + 1 /\ UNCHANGED <<link, connected, pending, events>>
           /\ IsSeq(asked') /\ Len(asked') = made' /\ asked'[made'] = r
           /\ \A id \in 1 .. made : asked'[id] = asked[id]
           /\ IsSeq(posts') /\ InLine' /\ CalledInTurn'
           /\ \A k \in 1 .. Len(posts') : posts'[k] \in 1 .. made'
           /\ \A x : IsIn(x, posts') <=> IsIn(x, posts) \/ x = made'
<1>1. made' = made + 1 /\ UNCHANGED <<link, connected, pending, events>>
  BY DEF Ask, SendRequest
<1>2. posts' = Append(posts, made') /\ asked' = Append(asked, r)
  BY DEF Ask, SendRequest
<1>3. made \in Nat /\ Len(asked) = made /\ IsSeq(asked) /\ IsSeq(posts) /\ Len(posts) \in Nat
  BY SeqFacts DEF LineInv, LineTypes
<1>4. /\ IsSeq(asked') /\ Len(asked') = made' /\ asked'[made'] = r
      /\ \A id \in 1 .. made : asked'[id] = asked[id]
  BY <1>1, <1>2, <1>3, SeqAppend
<1>5. /\ IsSeq(posts') /\ Len(posts') = Len(posts) + 1 /\ posts'[Len(posts) + 1] = made'
      /\ \A k \in 1 .. Len(posts) : posts'[k] = posts[k]
  BY <1>2, <1>3, SeqAppend
<1>6. \A k \in 1 .. Len(posts') : k \in 1 .. Len(posts) \/ k = Len(posts) + 1
  BY <1>3, <1>5
<1>7. \A k \in 1 .. Len(posts) : posts[k] \in 1 .. made /\ posts[k] < made'
  BY <1>1, <1>3 DEF LineInv, LineTypes
<1>8. \A k \in 1 .. Len(posts') : posts'[k] \in 1 .. made'
  BY <1>1, <1>3, <1>5, <1>6, <1>7
<1>9. \A x : IsIn(x, posts') <=> IsIn(x, posts) \/ x = made'
  <2>1. Len(posts) + 1 \in 1 .. Len(posts')
    BY <1>3, <1>5
  <2>2. \A k \in 1 .. Len(posts) : k \in 1 .. Len(posts')
    BY <1>3, <1>5
  <2> QED
    BY <1>5, <1>6, <2>1, <2>2 DEF IsIn
<1>10. InLine'
  <2>1. Rising(posts')
    <3>1. \A i, j \in 1 .. Len(posts') : i < j => i \in 1 .. Len(posts)
      BY <1>3, <1>5
    <3> QED
      BY <1>5, <1>6, <1>7, <3>1 DEF LineInv, InLine, Rising
  <2>2. \A k \in 1 .. Len(pending) : pending[k] < made'
    BY <1>1, <1>3 DEF LineInv, LineTypes
  <2> QED
    BY <1>1, <1>5, <1>6, <2>1, <2>2 DEF LineInv, InLine
<1>11. CalledInTurn'
  <2>1. \A e \in 1 .. Len(events) :
           IsCall(e) => events[e].id \in 1 .. made /\ events[e].id < made' /\ events[e].id # made'
    BY <1>1, <1>3 DEF LineInv, LineTypes
  <2>2. \A e \in 1 .. Len(events) : IsCall(e)' <=> IsCall(e)
    BY <1>1 DEF IsCall
  <2>3. \A e \in 1 .. Len(events) :
           IsCall(e) => ~IsIn(events[e].id, posts') /\ ~IsIn(events[e].id, pending)
    BY <1>9, <2>1 DEF LineInv, CalledInTurn
  <2>4. \A e \in 1 .. Len(events) : IsCall(e) /\ events[e].ok =>
           \A k \in 1 .. Len(posts') : events[e].id < posts'[k]
    BY <1>5, <1>6, <2>1 DEF LineInv, CalledInTurn
  <2> QED
    BY <1>1, <2>2, <2>3, <2>4 DEF LineInv, CalledInTurn
<1> QED
  BY <1>1, <1>4, <1>5, <1>8, <1>9, <1>10, <1>11

LEMMA UiLine ==
    ASSUME LineInv, MayRun, MayAsk
    PROVE  /\ LineInv' /\ events' = events /\ Off' = Off /\ made' \in {made, made + 1}
           /\ \A id \in 1 .. made : /\ asked'[id] = asked[id]
                                    /\ Awaited(id)' => Awaited(id)
                                    /\ MaySucceed(id)' => MaySucceed(id)
           /\ \A x : x = made + 1 /\ MaySucceed(x)' => ~Off
<1>1. /\ made \in Nat /\ Len(events) \in Nat /\ seen \in 0 .. Len(events)
      /\ seen' \in 0 .. Len(events)
  BY SeqFacts DEF LineInv, LineTypes, MayRun
<1>2. \A e \in seen' + 1 .. Len(events) : e \in seen + 1 .. Len(events) /\ e \in 1 .. Len(events)
  <2>1. CASE seen' = seen
    BY <1>1, <2>1
  <2>2. CASE seen' = seen + 1
    BY <1>1, <2>2
  <2> QED
    BY <2>1, <2>2 DEF MayRun
<1>3. \A e \in 1 .. Len(events) : IsCall(e) => events[e].id \in 1 .. made
  BY DEF LineInv, LineTypes
<1>4. CASE AskNothing
  <2>1. UNCHANGED <<asked, made, link, connected, posts, pending, events>>
    BY <1>4 DEF AskNothing, clientVars, io
  <2>2. LineInv'
    BY <1>1, <2>1 DEF LineInv, LineTypes, InLine, CalledInTurn, LostMeansOff, Off, IsCall
  <2>3. \A id : (Awaited(id)' => Awaited(id)) /\ (MaySucceed(id)' => MaySucceed(id))
    BY <1>2, <2>1 DEF Awaited, MaySucceed, Off, IsCall
  <2>4. \A x : x = made + 1 => ~MaySucceed(x)
    <3>1. ~IsIn(made + 1, posts) /\ ~IsIn(made + 1, pending)
      BY <1>1 DEF LineInv, LineTypes, IsIn
    <3>2. \A e \in seen + 1 .. Len(events) : e \in 1 .. Len(events)
      BY <1>1
    <3> QED
      BY <1>1, <1>3, <3>1, <3>2 DEF MaySucceed
  <2> QED
    BY <2>1, <2>2, <2>3, <2>4 DEF Off
<1>5. CASE \E r : Ask(r)
  <2>1. PICK r : Ask(r)
    BY <1>5
  <2>2. /\ made' = made + 1 /\ UNCHANGED <<link, connected, pending, events>>
        /\ IsSeq(asked') /\ Len(asked') = made' /\ asked'[made'] = r
        /\ \A id \in 1 .. made : asked'[id] = asked[id]
        /\ IsSeq(posts') /\ InLine' /\ CalledInTurn'
        /\ \A k \in 1 .. Len(posts') : posts'[k] \in 1 .. made'
        /\ \A x : IsIn(x, posts') <=> IsIn(x, posts) \/ x = made'
    BY <2>1, AskLine
  <2>3. LineTypes'
    <3>1. \A k \in 1 .. made : k \in 1 .. made'
      BY <1>1, <2>2
    <3> QED
      BY <1>1, <1>3, <2>2, <3>1 DEF LineInv, LineTypes, IsCall
  <2>4. LostMeansOff'
    BY <2>2 DEF LineInv, LostMeansOff, Off
  <2>5. \A id \in 1 .. made : id # made'
    BY <1>1, <2>2
  <2>6. \A id \in 1 .. made :
           (Awaited(id)' => Awaited(id)) /\ (MaySucceed(id)' => MaySucceed(id))
    BY <1>2, <2>2, <2>5 DEF Awaited, MaySucceed, Off, IsCall
  <2>7. \A x : x = made + 1 /\ MaySucceed(x)' => ~Off
    <3>1. ~IsIn(made', pending)
      BY <1>1, <2>2 DEF LineInv, LineTypes, IsIn
    <3>2. \A e \in seen' + 1 .. Len(events) : IsCall(e)' => events[e].id # made'
      BY <1>2, <1>3, <2>2, <2>5 DEF IsCall
    <3> QED
      BY <2>2, <3>1, <3>2 DEF MaySucceed, Off
  <2> QED
    BY <2>2, <2>3, <2>4, <2>6, <2>7 DEF LineInv, Off
<1> QED
  BY <1>4, <1>5 DEF MayAsk

\* A handler that has run is not waited for any more, and one that was given a
\* reply was the oldest of those that are.
LEMMA RunLine ==
    ASSUME LineInv, MayAsk, seen < Len(events), seen' = seen + 1, Event.kind = "call"
    PROVE  /\ Event.id \in 1 .. made /\ Awaited(Event.id)
           /\ \A x : x = Event.id => ~Awaited(x)' /\ ~MaySucceed(x)'
           /\ Event.ok => /\ MaySucceed(Event.id)
                          /\ \A id \in 1 .. made : Awaited(id) /\ id # Event.id => Event.id < id
<1> DEFINE n == seen + 1
<1>1. /\ n \in 1 .. Len(events) /\ n \in n .. Len(events) /\ Len(events) \in Nat /\ seen \in Nat
      /\ made \in Nat
  BY SeqFacts DEF LineInv, LineTypes
<1>2. IsCall(n) /\ Event = events[n]
  BY DEF Event, IsCall
<1>3. Event.id \in 1 .. made /\ Awaited(Event.id) /\ (Event.ok => MaySucceed(Event.id))
  BY <1>1, <1>2 DEF LineInv, LineTypes, Awaited, MaySucceed
<1>4. \A e \in n + 1 .. Len(events) : e \in 1 .. Len(events) /\ n < e
  BY <1>1
<1>5. ~IsIn(Event.id, posts) /\ ~IsIn(Event.id, pending)
  BY <1>1, <1>2 DEF LineInv, CalledInTurn
<1>6. \A e \in n + 1 .. Len(events) : IsCall(e) => events[e].id # Event.id
  BY <1>1, <1>2, <1>4 DEF LineInv, CalledInTurn
<1>7. ASSUME NEW x, x = Event.id
      PROVE  ~Awaited(x)' /\ ~MaySucceed(x)'
  <2>1. UNCHANGED <<pending, events>> /\ ~IsIn(x, posts')
    <3>1. CASE AskNothing
      BY <1>5, <1>7, <3>1 DEF AskNothing, clientVars, io
    <3>2. CASE \E r : Ask(r)
      <4>1. \A id \in 1 .. made : id # made + 1
        BY <1>1
      <4> QED
        BY <1>3, <1>5, <1>7, <3>2, <4>1, AskLine
    <3> QED
      BY <3>1, <3>2 DEF MayAsk
  <2>2. seen' + 1 = n + 1
    BY <1>1
  <2>3. ~Awaited(x)'
    BY <1>5, <1>6, <1>7, <2>1, <2>2 DEF Awaited, IsCall
  <2>4. ~MaySucceed(x)'
    BY <1>5, <1>6, <1>7, <2>1, <2>2 DEF MaySucceed, IsCall
  <2> QED
    BY <2>3, <2>4
<1>8. ASSUME Event.ok, NEW id \in 1 .. made, Awaited(id), id # Event.id
      PROVE  Event.id < id
  <2>1. CASE IsIn(id, posts) \/ IsIn(id, pending)
    BY <1>1, <1>2, <1>8, <2>1 DEF LineInv, CalledInTurn, IsIn
  <2>2. CASE \E e \in n .. Len(events) : IsCall(e) /\ events[e].id = id
    <3>1. PICK e \in n .. Len(events) : IsCall(e) /\ events[e].id = id
      BY <2>2
    <3>2. e \in n + 1 .. Len(events)
      BY <1>1, <1>2, <1>8, <3>1
    <3> QED
      BY <1>1, <1>2, <1>4, <1>8, <3>1, <3>2 DEF LineInv, CalledInTurn
  <2> QED
    BY <1>8, <2>1, <2>2 DEF Awaited
<1> QED
  BY <1>3, <1>7, <1>8

-----------------------------------------------------------------------------
(* What the pages are waiting for.                                         *)

EntryPages == {"login", "signup"}

Waiting(shown) == {id \in 1 .. made : asked[id].page \in shown /\ Awaited(id)}
Hopeful == {id \in 1 .. made : asked[id].page \in EntryPages /\ MaySucceed(id)}

Spins(id) == IF asked[id].page = "login" THEN login.loading ELSE signup.loading

\* One request to log in or sign up can succeed at a time, and only for a user
\* who is at the login page.  Once the client is off, others may be made, but
\* they fail.
EntryInv ==
    /\ \A i, j \in Hopeful : i = j
    /\ Hopeful # {} => section = 0
    /\ ~Off => \A i, j \in Waiting(EntryPages) : i = j
    /\ ~Off => \A i \in Waiting(EntryPages) : section = 0 /\ Spins(i)

\* The settings page waits for one reply at a time, for the user who asked.
SettingsInv ==
    /\ \A i, j \in Waiting({"settings"}) : i = j
    /\ \A i \in Waiting({"settings"}) : settings.loading /\ asked[i].user = appUsername
    /\ Waiting({"settings"}) # {} => Hopeful = {}
    /\ section = 0 /\ ~Off => Waiting({"settings"}) = {}

\* So does the history page, but a login may follow what it waits for.
HistoryInv ==
    /\ \A i, j \in Waiting({"history"}) : i = j
    /\ \A i \in Waiting({"history"}) : history.loading /\ asked[i].user = appUsername
    /\ \A i \in Waiting({"history"}), j \in Hopeful : i < j
    /\ section = 0 => ~history.shown
    /\ HistoryOwn

PagesInv == EntryInv /\ SettingsInv /\ HistoryInv

FieldsInv ==
    /\ section \in {0, 1}
    /\ login = [n \in {"user", "password", "status", "loading"} |-> login[n]]
    /\ signup = [n \in {"user", "password", "loading"} |-> signup[n]]
    /\ settings = [n \in {"current", "new", "loading", "showLock"} |-> settings[n]]
    /\ history = [n \in {"shown", "owner", "loading"} |-> history[n]]

LEMMA FieldsStep ==
    ASSUME FieldsInv, PaymentsNext
    PROVE  FieldsInv'
<1>1. CASE UNCHANGED <<section, login, signup, settings, history>>
  BY <1>1 DEF FieldsInv
<1>2. CASE UserStep
  BY <1>2 DEF FieldsInv, UserStep, EditLogin, DoLogin, EditSignup, DoCreateAccount, DoRefresh,
              DoHistory, EditSettings, DoChangePassword, ToggleLockConfirm, DoLockAccount,
              DoLogout, Exit, LogOut, ClearedLogin, FirstTab
<1>3. CASE PostedStep
  BY <1>3 DEF FieldsInv, PostedStep, LoginReplied, SignupReplied, Refreshed, HistoryReplied,
              CurrentPasswordReplied, PasswordChanged, LockReplied, ConnectionLost,
              ConnectionRefused, LogOut, ClearedLogin, FirstTab
<1>4. CASE Execute \/ ServedElsewhere \/ Network \/ ExecutePayment
  BY <1>1, <1>4 DEF Execute, ServedElsewhere, Network, ExecutePayment, ui, pages
<1>5. CASE \/ EditDeposit \/ DoDeposit \/ EditWithdraw \/ DoWithdraw
           \/ EditTransfer \/ RequestConfirmation \/ DoTransfer
           \/ DepositReplied \/ WithdrawReplied \/ TransferReplied
  BY <1>1, <1>5 DEF EditDeposit, DoDeposit, EditWithdraw, DoWithdraw, EditTransfer,
                    RequestConfirmation, DoTransfer, DepositReplied, WithdrawReplied,
                    TransferReplied, Settled, Shell
<1> QED
  BY <1>2, <1>3, <1>4, <1>5 DEF PaymentsNext, TerminalNext

\* Nobody joins those who wait for the pages `shown` by a request of another.
LEMMA OthersAsk ==
    ASSUME LineInv, MayRun, NEW shown,
           AskNothing \/ \E r : Ask(r) /\ r.page \notin shown
    PROVE  \A some \in SUBSET shown : Waiting(some)' \subseteq Waiting(some)
<1> SUFFICES ASSUME NEW some \in SUBSET shown, NEW id \in Waiting(some)'
             PROVE  id \in Waiting(some)
  OBVIOUS
<1>1. made \in Nat
  BY DEF LineInv, LineTypes
<1>2. MayAsk
  BY DEF MayAsk
<1>3. CASE id \in 1 .. made
  BY <1>2, <1>3, UiLine DEF Waiting
<1>4. CASE id \notin 1 .. made
  <2>1. id \in 1 .. made' /\ made' \in {made, made + 1}
    BY <1>2, UiLine DEF Waiting
  <2>2. id = made + 1 /\ made' = made + 1
    BY <1>1, <1>4, <2>1
  <2>3. ~AskNothing
    BY <1>1, <2>2 DEF AskNothing, clientVars
  <2>4. PICK r : Ask(r) /\ r.page \notin shown
    BY <2>3
  <2>5. asked'[id] = r
    BY <2>2, <2>4, AskLine
  <2> QED
    BY <2>4, <2>5 DEF Waiting
<1> QED
  BY <1>3, <1>4

LEMMA OthersEnter ==
    ASSUME LineInv, MayRun, AskNothing \/ \E r : Ask(r) /\ (r.page \notin EntryPages \/ Off)
    PROVE  Hopeful' \subseteq Hopeful
<1> SUFFICES ASSUME NEW id \in Hopeful' PROVE id \in Hopeful
  OBVIOUS
<1>1. made \in Nat
  BY DEF LineInv, LineTypes
<1>2. MayAsk
  BY DEF MayAsk
<1>3. CASE id \in 1 .. made
  BY <1>2, <1>3, UiLine DEF Hopeful
<1>4. CASE id \notin 1 .. made
  <2>1. id \in 1 .. made' /\ made' \in {made, made + 1}
    BY <1>2, UiLine DEF Hopeful
  <2>2. id = made + 1 /\ made' = made + 1
    BY <1>1, <1>4, <2>1
  <2>3. ~AskNothing
    BY <1>1, <2>2 DEF AskNothing, clientVars
  <2>4. PICK r : Ask(r) /\ (r.page \notin EntryPages \/ Off)
    BY <2>3
  <2>5. asked'[id] = r
    BY <2>2, <2>4, AskLine
  <2>6. ~Off
    BY <1>2, <2>2, UiLine DEF Hopeful
  <2> QED
    BY <2>4, <2>5, <2>6 DEF Hopeful
<1> QED
  BY <1>3, <1>4

\* Old requests keep what they asked for.
LEMMA OldRequests ==
    ASSUME LineInv, MayRun, MayAsk
    PROVE  /\ Off' = Off /\ events' = events
           /\ \A shown : \A id \in Waiting(shown) : asked'[id] = asked[id]
BY UiLine DEF Waiting

LEMMA HopefulWait == Hopeful \subseteq Waiting(EntryPages)
BY DEF Hopeful, Waiting, MaySucceed, Awaited

-----------------------------------------------------------------------------
(* What keeps each part of PagesInv.                                       *)

LEMMA EntryKeeps ==
    ASSUME EntryInv, Hopeful' \subseteq Hopeful, Off => Off',
           section' = section,
           Waiting(EntryPages)' \subseteq Waiting(EntryPages),
           \A id \in Waiting(EntryPages) : asked'[id] = asked[id],
           login.loading => login'.loading, signup.loading => signup'.loading
    PROVE  EntryInv'
<1>1. \A id \in Waiting(EntryPages) : Spins(id) => Spins(id)'
  BY DEF Spins
<1> QED
  BY <1>1 DEF EntryInv

\* No request to enter is left, or they all fail.
LEMMA EntryEnds ==
    ASSUME EntryInv, Hopeful' \subseteq Hopeful,
           Off' \/ Waiting(EntryPages)' = {},
           Hopeful' = {} \/ section' = 0 \/ section' = section
    PROVE  EntryInv'
BY DEF EntryInv

LEMMA SettingsKeeps ==
    ASSUME SettingsInv, Hopeful' \subseteq Hopeful, Off => Off',
           Waiting({"settings"})' \subseteq Waiting({"settings"}),
           \A id \in Waiting({"settings"}) : asked'[id] = asked[id],
           appUsername' = appUsername, settings.loading => settings'.loading,
           section' = section \/ Off'
    PROVE  SettingsInv'
BY DEF SettingsInv

LEMMA SettingsEnds ==
    ASSUME Waiting({"settings"})' = {}
    PROVE  SettingsInv'
BY DEF SettingsInv

LEMMA HistoryKeeps ==
    ASSUME HistoryInv, Hopeful' \subseteq Hopeful,
           Waiting({"history"})' \subseteq Waiting({"history"}),
           \A id \in Waiting({"history"}) : asked'[id] = asked[id],
           appUsername' = appUsername,
           history'.loading = history.loading, history'.owner = history.owner,
           section' = section \/ section' = 0,
           history'.shown => history.shown /\ section' = section
    PROVE  HistoryInv'
<1>1. HistoryOwn'
  BY DEF HistoryInv, HistoryOwn
<1> QED
  BY <1>1 DEF HistoryInv

LEMMA HistoryEnds ==
    ASSUME Waiting({"history"})' = {}, HistoryOwn', section' = 0 => ~history'.shown
    PROVE  HistoryInv'
BY DEF HistoryInv

\* The steps of the network and the server.
LEMMA NetworkKeeps ==
    ASSUME LineInv, PagesInv, LineInv', Settles,
           UNCHANGED <<asked, section, appUsername, login, signup, settings, history>>
    PROVE  PagesInv'
<1>1. made' = made
  BY DEF LineInv, LineTypes
<1>2. /\ Hopeful' \subseteq Hopeful /\ (Off => Off')
      /\ \A shown : Waiting(shown)' \subseteq Waiting(shown)
  BY <1>1 DEF Hopeful, Waiting, Settles
<1>3. EntryInv'
  BY <1>2, EntryKeeps DEF PagesInv
<1>4. SettingsInv'
  BY <1>2, SettingsKeeps DEF PagesInv
<1>5. HistoryInv'
  BY <1>2, HistoryKeeps DEF PagesInv
<1> QED
  BY <1>3, <1>4, <1>5 DEF PagesInv

Watched == EntryPages \cup {"settings", "history"}

\* The steps of the FTXUI thread that neither ask for nor end anything that
\* matters here.
LEMMA OtherPages ==
    ASSUME LineInv, PagesInv, MayRun,
           AskNothing \/ \E r : Ask(r) /\ r.page \notin Watched,
           UNCHANGED <<section, appUsername>>,
           login'.loading = login.loading, signup'.loading = signup.loading,
           settings'.loading = settings.loading, history'.loading = history.loading,
           history'.owner = history.owner, history'.shown => history.shown
    PROVE  PagesInv'
<1>1. MayAsk
  BY DEF MayAsk
<1>2. Off' = Off /\ \A shown : \A id \in Waiting(shown) : asked'[id] = asked[id]
  BY <1>1, OldRequests
<1>3. \A some \in SUBSET Watched : Waiting(some)' \subseteq Waiting(some)
  BY OthersAsk
<1>4. /\ Waiting(EntryPages)' \subseteq Waiting(EntryPages)
      /\ Waiting({"settings"})' \subseteq Waiting({"settings"})
      /\ Waiting({"history"})' \subseteq Waiting({"history"})
  BY <1>3 DEF Watched
<1>5. Hopeful' \subseteq Hopeful
  BY OthersEnter DEF Watched
<1>6. EntryInv'
  BY <1>2, <1>4, <1>5, EntryKeeps DEF PagesInv
<1>7. SettingsInv'
  BY <1>2, <1>4, <1>5, SettingsKeeps DEF PagesInv
<1>8. HistoryInv'
  BY <1>2, <1>4, <1>5, HistoryKeeps DEF PagesInv
<1> QED
  BY <1>6, <1>7, <1>8 DEF PagesInv

-----------------------------------------------------------------------------
(* What the user does.                                                     *)

\* A request to log in or to sign up, by a user who waits for nothing there.
LEMMA EnterStep ==
    ASSUME LineInv, PagesInv, seen' = seen, NEW r, Ask(r), r.page \in EntryPages,
           section = 0, ~login.loading, ~signup.loading,
           IF r.page = "login" THEN login'.loading ELSE signup'.loading,
           UNCHANGED <<section, appUsername, settings, history>>
    PROVE  PagesInv'
<1>1. MayAsk /\ MayRun /\ made \in Nat
  BY DEF MayAsk, MayRun, LineInv, LineTypes
<1>2. Off' = Off /\ \A shown : \A id \in Waiting(shown) : asked'[id] = asked[id]
  BY <1>1, OldRequests
<1>3. \A some \in SUBSET {"settings", "history"} : Waiting(some)' \subseteq Waiting(some)
  <2>1. r.page \notin {"settings", "history"}
    BY DEF EntryPages
  <2> QED
    BY <1>1, <2>1, OthersAsk
<1>4. /\ Waiting({"settings"})' \subseteq Waiting({"settings"})
      /\ Waiting({"history"})' \subseteq Waiting({"history"})
  BY <1>3
<1>5. made' = made + 1 /\ asked'[made'] = r
  BY AskLine
<1>6. CASE Off
  <2>1. Hopeful' \subseteq Hopeful
    BY <1>1, <1>6, OthersEnter
  <2>2. EntryInv'
    BY <1>2, <1>6, <2>1, EntryEnds DEF PagesInv
  <2>3. SettingsInv'
    BY <1>2, <1>4, <2>1, SettingsKeeps DEF PagesInv
  <2>4. HistoryInv'
    BY <1>2, <1>4, <2>1, HistoryKeeps DEF PagesInv
  <2> QED
    BY <2>2, <2>3, <2>4 DEF PagesInv
<1>7. CASE ~Off
  <2>1. Waiting(EntryPages) = {} /\ Hopeful = {}
    BY <1>7, HopefulWait DEF PagesInv, EntryInv, Spins
  <2>2. Waiting(EntryPages)' \subseteq {made'} /\ Hopeful' \subseteq {made'}
    <3>1. \A id \in 1 .. made' : id \in 1 .. made \/ id = made'
      BY <1>1, <1>5
    <3>2. \A id \in 1 .. made : id \notin Waiting(EntryPages)' /\ id \notin Hopeful'
      BY <1>1, <2>1, UiLine DEF Waiting, Hopeful
    <3> QED
      BY <3>1, <3>2 DEF Waiting, Hopeful
  <2>3. EntryInv'
    <3>1. \A id : id = made' => Spins(id)'
      BY <1>5 DEF Spins
    <3> QED
      BY <2>2, <3>1 DEF EntryInv
  <2>4. SettingsInv'
    BY <1>4, <1>7, SettingsEnds DEF PagesInv, SettingsInv
  <2>5. HistoryInv'
    <3>1. \A i \in Waiting({"history"}) : i < made'
      BY <1>1, <1>5 DEF Waiting
    <3>2. HistoryOwn'
      BY DEF PagesInv, HistoryInv, HistoryOwn
    <3> QED
      BY <1>2, <1>4, <2>2, <3>1, <3>2 DEF PagesInv, HistoryInv
  <2> QED
    BY <2>3, <2>4, <2>5 DEF PagesInv
<1> QED
  BY <1>6, <1>7

\* A request of the settings page that is the only one it waits for.
LEMMA SettingsAsk ==
    ASSUME LineInv, PagesInv, MayRun, NEW r, Ask(r), r.page = "settings", r.user = appUsername,
           Hopeful = {}, section = 1 \/ Off, settings'.loading,
           \A id \in Waiting({"settings"}) : id \notin Waiting({"settings"})',
           UNCHANGED <<section, appUsername, login, signup, history>>
    PROVE  PagesInv'
<1>1. MayAsk /\ made \in Nat
  BY DEF MayAsk, LineInv, LineTypes
<1>2. /\ Off' = Off
      /\ \A shown : \A id \in Waiting(shown) : asked'[id] = asked[id]
  BY <1>1, OldRequests
<1>3. \A some \in SUBSET (EntryPages \cup {"history"}) : Waiting(some)' \subseteq Waiting(some)
  <2>1. r.page \notin EntryPages \cup {"history"}
    BY DEF EntryPages
  <2> QED
    BY <2>1, OthersAsk
<1>4. /\ Waiting(EntryPages)' \subseteq Waiting(EntryPages)
      /\ Waiting({"history"})' \subseteq Waiting({"history"})
  BY <1>3
<1>5. made' = made + 1 /\ asked'[made'] = r
  BY AskLine
<1>6. Hopeful' \subseteq Hopeful
  <2>1. r.page \notin EntryPages
    BY DEF EntryPages
  <2> QED
    BY <2>1, OthersEnter
<1>7. Waiting({"settings"})' \subseteq {made'}
  <2>1. \A id \in 1 .. made' : id \in 1 .. made \/ id = made'
    BY <1>1, <1>5
  <2>2. \A id \in 1 .. made : id \in Waiting({"settings"})' => id \in Waiting({"settings"})
    BY <1>1, UiLine DEF Waiting
  <2> QED
    BY <2>1, <2>2 DEF Waiting
<1>8. EntryInv'
  BY <1>2, <1>4, <1>6, EntryKeeps DEF PagesInv
<1>9. SettingsInv'
  <2>1. section' = 1 \/ Off'
    BY <1>2
  <2> QED
    BY <1>5, <1>6, <1>7, <2>1 DEF SettingsInv
<1>10. HistoryInv'
  BY <1>2, <1>4, <1>6, HistoryKeeps DEF PagesInv
<1> QED
  BY <1>8, <1>9, <1>10 DEF PagesInv

LEMMA HistoryAsk ==
    ASSUME LineInv, PagesInv, FieldsInv, DoHistory
    PROVE  PagesInv'
<1>1. /\ MayRun /\ MayAsk /\ made \in Nat
      /\ section = 1 /\ UNCHANGED <<section, appUsername, login, signup, settings>>
      /\ history'.shown /\ history'.loading /\ history'.owner = history.owner
  BY DEF DoHistory, MayRun, MayAsk, LineInv, LineTypes, FieldsInv
<1>2. Off' = Off /\ \A shown : \A id \in Waiting(shown) : asked'[id] = asked[id]
  BY <1>1, OldRequests
<1>3. Hopeful = {}
  BY <1>1 DEF PagesInv, EntryInv
<1>4. AskNothing \/ \E r : Ask(r) /\ r.page \notin EntryPages \cup {"settings"}
  <2>1. Request("history", "recent", appUsername, Empty).page = "history"
    BY DEF Request
  <2> QED
    BY <2>1 DEF DoHistory, EntryPages
<1>5. /\ Waiting(EntryPages)' \subseteq Waiting(EntryPages)
      /\ Waiting({"settings"})' \subseteq Waiting({"settings"})
  <2>1. \A some \in SUBSET (EntryPages \cup {"settings"}) : Waiting(some)' \subseteq Waiting(some)
    BY <1>1, <1>4, OthersAsk
  <2> QED
    BY <2>1
<1>6. Hopeful' \subseteq Hopeful
  BY <1>1, <1>4, OthersEnter
<1>7. EntryInv'
  BY <1>1, <1>2, <1>5, <1>6, EntryKeeps DEF PagesInv
<1>8. SettingsInv'
  BY <1>1, <1>2, <1>5, <1>6, SettingsKeeps DEF PagesInv
<1>9. HistoryInv'
  <2>1. HistoryOwn'
    BY <1>1 DEF HistoryOwn
  <2>2. CASE history.loading
    <3>1. AskNothing
      BY <2>2 DEF DoHistory
    <3>2. Waiting({"history"})' \subseteq Waiting({"history"})
      <4>1. \A some \in SUBSET {"history"} : Waiting(some)' \subseteq Waiting(some)
        BY <1>1, <3>1, OthersAsk
      <4> QED
        BY <4>1
    <3> QED
      BY <1>1, <1>2, <1>3, <1>6, <2>1, <3>2 DEF PagesInv, HistoryInv
  <2>3. CASE ~history.loading
    <3> DEFINE r == Request("history", "recent", appUsername, Empty)
    <3>1. Ask(r) /\ r.user = appUsername
      BY <2>3 DEF DoHistory, Request
    <3> HIDE DEF r
    <3>2. made' = made + 1 /\ asked'[made'] = r
      BY <3>1, AskLine
    <3>3. Waiting({"history"}) = {}
      BY <2>3 DEF PagesInv, HistoryInv
    <3>4. Waiting({"history"})' \subseteq {made'}
      <4>1. \A id \in 1 .. made' : id \in 1 .. made \/ id = made'
        BY <1>1, <3>2
      <4>2. \A id \in 1 .. made : id \notin Waiting({"history"})'
        BY <1>1, <3>3, UiLine DEF Waiting
      <4> QED
        BY <4>1, <4>2 DEF Waiting
    <3> QED
      BY <1>1, <1>3, <1>6, <2>1, <3>1, <3>2, <3>4 DEF HistoryInv
  <2> QED
    BY <2>2, <2>3
<1> QED
  BY <1>7, <1>8, <1>9 DEF PagesInv

LEMMA LogoutStep ==
    ASSUME LineInv, PagesInv, FieldsInv, Patient, DoLogout
    PROVE  PagesInv'
<1>1. /\ MayRun /\ MayAsk /\ AskNothing /\ section = 1 /\ section' = 0 /\ ~settings.loading
      /\ UNCHANGED <<appUsername, signup, settings>>
      /\ ~history'.shown /\ history'.loading = history.loading
      /\ history'.owner = history.owner
  BY DEF DoLogout, LogOut, FirstTab, MayPress, MayRun, MayAsk, FieldsInv
<1>2. Off' = Off /\ \A shown : \A id \in Waiting(shown) : asked'[id] = asked[id]
  BY <1>1, OldRequests
<1>3. /\ Waiting(EntryPages)' \subseteq Waiting(EntryPages)
      /\ Waiting({"settings"})' \subseteq Waiting({"settings"})
      /\ Waiting({"history"})' \subseteq Waiting({"history"})
  BY <1>1, OthersAsk
<1>4. Hopeful' \subseteq Hopeful
  BY <1>1, OthersEnter
<1>5. EntryInv'
  <2>1. Off' \/ Waiting(EntryPages)' = {}
    BY <1>1, <1>2, <1>3 DEF PagesInv, EntryInv
  <2> QED
    BY <1>1, <1>4, <2>1, EntryEnds DEF PagesInv
<1>6. SettingsInv'
  <2>1. Waiting({"settings"}) = {}
    BY <1>1 DEF PagesInv, SettingsInv
  <2> QED
    BY <1>3, <2>1, SettingsEnds
<1>7. HistoryInv'
  BY <1>1, <1>2, <1>3, <1>4, HistoryKeeps DEF PagesInv
<1> QED
  BY <1>5, <1>6, <1>7 DEF PagesInv

LEMMA UserKeeps ==
    ASSUME LineInv, PagesInv, FieldsInv, Patient, UserStep
    PROVE  PagesInv'
<1>1. CASE EditLogin \/ EditSignup \/ EditSettings \/ ToggleLockConfirm \/ Exit
  <2>1. /\ AskNothing /\ seen' = seen /\ UNCHANGED <<section, appUsername, history>>
        /\ login'.loading = login.loading /\ signup'.loading = signup.loading
        /\ settings'.loading = settings.loading
    BY <1>1 DEF EditLogin, EditSignup, EditSettings, ToggleLockConfirm, Exit, FieldsInv
  <2> QED
    BY <2>1, OtherPages DEF MayRun
<1>2. CASE DoRefresh
  <2> DEFINE r == Request("dashboard", "history", appUsername, Empty)
  <2>1. Ask(r) /\ r.page \notin Watched
    BY <1>2 DEF DoRefresh, Refresh, Request, Watched, EntryPages
  <2> HIDE DEF r
  <2>2. /\ seen' = seen /\ UNCHANGED <<section, appUsername, login, signup, settings>>
        /\ history'.loading = history.loading /\ history'.owner = history.owner
        /\ history'.shown = FALSE
    BY <1>2 DEF DoRefresh, FieldsInv
  <2> QED
    BY <2>1, <2>2, OtherPages DEF MayRun
<1>3. CASE DoLogin
  <2>0. /\ section = 0 /\ ~login.loading /\ ~signup.loading /\ seen' = seen
        /\ UNCHANGED <<section, appUsername, signup, settings, history>>
    BY <1>3 DEF DoLogin, MayTouch
  <2>1. CASE Empty \in {login.user, login.password}
    <3>1. AskNothing /\ login'.loading = login.loading
      BY <1>3, <2>1 DEF DoLogin, FieldsInv
    <3> QED
      BY <2>0, <3>1, OtherPages DEF MayRun
  <2>2. CASE ~(Empty \in {login.user, login.password})
    <3> DEFINE r == Request("login", "auth", login.user, login.password)
    <3>1. Ask(r) /\ login'.loading
      BY <1>3, <2>2 DEF DoLogin, FieldsInv
    <3>2. r.page = "login" /\ r.page \in EntryPages
      BY DEF Request, EntryPages
    <3> HIDE DEF r
    <3> QED
      BY <2>0, <3>1, <3>2, EnterStep
  <2> QED
    BY <2>1, <2>2
<1>4. CASE DoCreateAccount
  <2> DEFINE r == Request("signup", "create", signup.user, signup.password)
  <2>1. /\ section = 0 /\ ~login.loading /\ ~signup.loading /\ seen' = seen
        /\ UNCHANGED <<section, appUsername, login, settings, history>>
        /\ Ask(r) /\ signup'.loading
    BY <1>4 DEF DoCreateAccount, MayTouch, FieldsInv
  <2>2. r.page = "signup" /\ r.page \in EntryPages
    BY DEF Request, EntryPages
  <2> HIDE DEF r
  <2> QED
    BY <2>1, <2>2, EnterStep
<1>5. CASE DoChangePassword \/ DoLockAccount
  <2>1. /\ section = 1 /\ ~settings.loading /\ settings'.loading /\ seen' = seen
        /\ UNCHANGED <<section, appUsername, login, signup, history>>
    BY <1>5 DEF DoChangePassword, DoLockAccount, MayPress, FieldsInv
  <2>2. PICK r : Ask(r) /\ r.page = "settings" /\ r.user = appUsername
    BY <1>5 DEF DoChangePassword, DoLockAccount, Request
  <2>3. Hopeful = {} /\ Waiting({"settings"}) = {}
    BY <2>1 DEF PagesInv, EntryInv, SettingsInv
  <2> QED
    BY <2>1, <2>2, <2>3, SettingsAsk DEF MayRun
<1> QED
  BY <1>1, <1>2, <1>3, <1>4, <1>5, HistoryAsk, LogoutStep DEF UserStep

-----------------------------------------------------------------------------
(* What the handlers posted.                                               *)

\* The request whose handler runs is waited for no more, and no other joins
\* those of its page.
LEMMA RunEnds ==
    ASSUME LineInv, NEW page, NEW op, Replied(page, op),
           AskNothing \/ \E r : Ask(r) /\ r.page # page
    PROVE  /\ Event.id \in Waiting({page}) /\ asked[Event.id].page = page
           /\ Event.ok /\ page \in EntryPages => Event.id \in Hopeful
           /\ \A shown : page \in shown =>
                \A id \in 1 .. made : id \in Waiting(shown)' => id \in Waiting(shown) \ {Event.id}
           /\ Waiting({page})' \subseteq Waiting({page}) \ {Event.id}
           /\ \A id \in 1 .. made : id \in Hopeful' => id \in Hopeful \ {Event.id}
           /\ Event.ok => \A shown : \A id \in Waiting(shown) : id = Event.id \/ Event.id < id
<1>1. /\ MayRun /\ MayAsk /\ seen < Len(events) /\ seen' = seen + 1 /\ Event.kind = "call"
      /\ asked[Event.id].page = page
  BY DEF Replied, Runs, MayRun, MayAsk, Answered
<1>2. /\ Event.id \in 1 .. made /\ Awaited(Event.id)
      /\ \A x : x = Event.id => ~Awaited(x)' /\ ~MaySucceed(x)'
      /\ Event.ok => /\ MaySucceed(Event.id)
                     /\ \A id \in 1 .. made : Awaited(id) /\ id # Event.id => Event.id < id
  BY <1>1, RunLine
<1>3. \A id \in 1 .. made : /\ asked'[id] = asked[id]
                            /\ Awaited(id)' => Awaited(id) /\ id # Event.id
                            /\ MaySucceed(id)' => MaySucceed(id) /\ id # Event.id
  BY <1>1, <1>2, UiLine
<1>4. Waiting({page})' \subseteq Waiting({page})
  <2>1. \A some \in SUBSET {page} : Waiting(some)' \subseteq Waiting(some)
    <3>1. AskNothing \/ \E r : Ask(r) /\ r.page \notin {page}
      OBVIOUS
    <3> QED
      BY <1>1, <3>1, OthersAsk
  <2> QED
    BY <2>1
<1> QED
  BY <1>1, <1>2, <1>3, <1>4 DEF Waiting, Hopeful

\* A reply for a page that matters to nobody else.
LEMMA OtherReplies ==
    ASSUME LineInv, PagesInv, NEW page, NEW op, Replied(page, op),
           AskNothing \/ \E r : Ask(r) /\ r.page \notin Watched,
           UNCHANGED <<section, appUsername, login, signup, settings, history>>
    PROVE  PagesInv'
BY OtherPages DEF Replied, Runs, MayRun

\* The handlers of a login and of a sign-up: of their own fields they change,
\* as far as it matters here, only whether they spin.
LEMMA EnteredStep ==
    ASSUME LineInv, PagesInv, NEW page \in EntryPages, NEW op, Replied(page, op),
           AskNothing \/ \E r : Ask(r) /\ r.page \notin Watched,
           UNCHANGED <<settings, history>>,
           \/ Event.ok /\ section' = 1
           \/ UNCHANGED <<section, appUsername>>
    PROVE  PagesInv'
<1>1. MayAsk /\ MayRun
  BY DEF MayAsk, MayRun, Replied, Runs
<1>2. AskNothing \/ \E r : Ask(r) /\ r.page # page
  BY DEF Watched
<1>3. /\ Event.id \in Waiting({page}) /\ asked[Event.id].page = page
      /\ Event.ok => Event.id \in Hopeful
      /\ Event.ok => \A shown : \A id \in Waiting(shown) : id = Event.id \/ Event.id < id
      /\ \A id \in 1 .. made : id \in Waiting(EntryPages)' => id \in Waiting(EntryPages) \ {Event.id}
      /\ \A id \in 1 .. made : id \in Hopeful' => id \in Hopeful \ {Event.id}
  BY <1>2, RunEnds
<1>4. /\ Off' = Off
      /\ \A shown : \A id \in Waiting(shown) : asked'[id] = asked[id]
  BY <1>1, OldRequests
<1>5. /\ Waiting(EntryPages)' \subseteq Waiting(EntryPages)
      /\ Waiting({"settings"})' \subseteq Waiting({"settings"})
      /\ Waiting({"history"})' \subseteq Waiting({"history"})
  <2>1. \A some \in SUBSET Watched : Waiting(some)' \subseteq Waiting(some)
    BY <1>1, OthersAsk
  <2> QED
    BY <2>1 DEF Watched
<1>6. Hopeful' \subseteq Hopeful
  BY <1>1, OthersEnter DEF Watched
<1>7. Waiting(EntryPages)' \subseteq Waiting(EntryPages) \ {Event.id}
  BY <1>3, <1>5 DEF Waiting
<1>8. Hopeful' \subseteq Hopeful \ {Event.id}
  BY <1>3, <1>6 DEF Hopeful
<1>9. Event.id \in Waiting(EntryPages)
  BY <1>3 DEF Waiting
<1>10. Off' \/ Waiting(EntryPages)' = {}
  BY <1>4, <1>7, <1>9 DEF PagesInv, EntryInv
<1>11. CASE Event.ok /\ section' = 1
  <2>1. Hopeful' = {} /\ section = 0
    BY <1>3, <1>8, <1>11 DEF PagesInv, EntryInv
  <2>2. EntryInv'
    BY <1>6, <1>10, <2>1, EntryEnds DEF PagesInv
  <2>3. SettingsInv'
    <3>1. Waiting({"settings"}) = {}
      BY <1>3, <1>11 DEF PagesInv, SettingsInv
    <3> QED
      BY <1>5, <3>1, SettingsEnds
  <2>4. HistoryInv'
    <3>1. Waiting({"history"}) = {}
      <4> SUFFICES ASSUME NEW h \in Waiting({"history"}) PROVE FALSE
        OBVIOUS
      <4>1. h < Event.id
        BY <1>3, <1>11 DEF PagesInv, HistoryInv
      <4>2. h = Event.id \/ Event.id < h
        BY <1>3, <1>11
      <4>3. h # Event.id
        BY <1>3 DEF Waiting, EntryPages
      <4>4. h \in 1 .. made /\ Event.id \in 1 .. made /\ made \in Nat
        BY <1>3 DEF Waiting, LineInv, LineTypes
      <4> QED
        BY <4>1, <4>2, <4>3, <4>4
    <3>2. HistoryOwn' /\ section' = 1
      BY <1>11, <2>1 DEF PagesInv, HistoryInv, HistoryOwn
    <3> QED
      BY <1>5, <3>1, <3>2, HistoryEnds
  <2> QED
    BY <2>2, <2>3, <2>4 DEF PagesInv
<1>12. CASE UNCHANGED <<section, appUsername>>
  <2>1. EntryInv'
    BY <1>6, <1>10, <1>12, EntryEnds DEF PagesInv
  <2>2. SettingsInv'
    BY <1>4, <1>5, <1>6, <1>12, SettingsKeeps DEF PagesInv
  <2>3. HistoryInv'
    BY <1>4, <1>5, <1>6, <1>12, HistoryKeeps DEF PagesInv
  <2> QED
    BY <2>1, <2>2, <2>3 DEF PagesInv
<1> QED
  BY <1>11, <1>12

LEMMA HistoryRepliedStep ==
    ASSUME LineInv, PagesInv, FieldsInv, HistoryReplied
    PROVE  PagesInv'
<1>1. /\ Replied("history", "recent") /\ AskNothing /\ MayAsk /\ MayRun
      /\ UNCHANGED <<section, appUsername, login, signup, settings>>
      /\ history'.shown = history.shown
      /\ history'.owner = IF Event.ok THEN Answered.user ELSE Empty
  BY DEF HistoryReplied, Replied, Runs, MayAsk, MayRun, FieldsInv
<1>2. /\ Event.id \in Waiting({"history"})
      /\ Waiting({"history"})' \subseteq Waiting({"history"}) \ {Event.id}
  BY <1>1, RunEnds
<1>3. Off' = Off /\ \A shown : \A id \in Waiting(shown) : asked'[id] = asked[id]
  BY <1>1, OldRequests
<1>4. /\ Waiting(EntryPages)' \subseteq Waiting(EntryPages)
      /\ Waiting({"settings"})' \subseteq Waiting({"settings"})
  BY <1>1, OthersAsk
<1>5. Hopeful' \subseteq Hopeful
  BY <1>1, OthersEnter
<1>6. EntryInv'
  BY <1>1, <1>3, <1>4, <1>5, EntryKeeps DEF PagesInv
<1>7. SettingsInv'
  BY <1>1, <1>3, <1>4, <1>5, SettingsKeeps DEF PagesInv
<1>8. HistoryInv'
  <2>1. Waiting({"history"})' = {}
    BY <1>2 DEF PagesInv, HistoryInv
  <2>2. HistoryOwn'
    <3>1. Answered.user = appUsername
      BY <1>2 DEF Answered, PagesInv, HistoryInv
    <3> QED
      BY <1>1, <3>1 DEF HistoryOwn
  <2>3. section' = 0 => ~history'.shown
    BY <1>1 DEF PagesInv, HistoryInv
  <2> QED
    BY <2>1, <2>2, <2>3, HistoryEnds
<1> QED
  BY <1>6, <1>7, <1>8 DEF PagesInv

\* The settings page has its reply, and asks for nothing more.
LEMMA SettingsReplied ==
    ASSUME LineInv, PagesInv, FieldsInv, NEW op, Replied("settings", op), AskNothing,
           UNCHANGED <<appUsername, signup>>,
           \/ UNCHANGED <<login, section, history>>
           \/ LogOut
    PROVE  PagesInv'
<1>1. /\ MayAsk /\ MayRun
  BY DEF Replied, Runs, MayAsk, MayRun
<1>2. /\ Event.id \in Waiting({"settings"})
      /\ Waiting({"settings"})' \subseteq Waiting({"settings"}) \ {Event.id}
  BY RunEnds
<1>3. Off' = Off /\ \A shown : \A id \in Waiting(shown) : asked'[id] = asked[id]
  BY <1>1, OldRequests
<1>4. /\ Waiting(EntryPages)' \subseteq Waiting(EntryPages)
      /\ Waiting({"history"})' \subseteq Waiting({"history"})
  BY <1>1, OthersAsk
<1>5. Hopeful' \subseteq Hopeful
  BY <1>1, OthersEnter
<1>6. SettingsInv'
  <2>1. Waiting({"settings"})' = {}
    BY <1>2 DEF PagesInv, SettingsInv
  <2> QED
    BY <2>1, SettingsEnds
<1>7. CASE UNCHANGED <<login, section, history>>
  <2>1. EntryInv'
    BY <1>3, <1>4, <1>5, <1>7, EntryKeeps DEF PagesInv
  <2>2. HistoryInv'
    BY <1>3, <1>4, <1>5, <1>7, HistoryKeeps DEF PagesInv
  <2> QED
    BY <1>6, <2>1, <2>2 DEF PagesInv
<1>8. CASE LogOut
  <2>1. /\ section' = 0 /\ ~history'.shown
        /\ history'.loading = history.loading /\ history'.owner = history.owner
    BY <1>8 DEF LogOut, FirstTab, FieldsInv
  <2>2. Off \/ Waiting(EntryPages) = {}
    BY <1>2 DEF PagesInv, EntryInv, SettingsInv
  <2>3. EntryInv'
    BY <1>3, <1>4, <1>5, <2>1, <2>2, EntryEnds DEF PagesInv
  <2>4. HistoryInv'
    BY <1>3, <1>4, <1>5, <2>1, HistoryKeeps DEF PagesInv
  <2> QED
    BY <1>6, <2>3, <2>4 DEF PagesInv
<1> QED
  BY <1>7, <1>8

\* The current password was the right one: it was the user's who is logged in.
LEMMA VerifiedStep ==
    ASSUME LineInv, PagesInv, FieldsInv, CurrentPasswordReplied, Verified
    PROVE  /\ PagesInv'
           /\ asked[Event.id].user = appUsername
           /\ Ask(Request("settings", "password", appUsername, settings.new))
<1> DEFINE r == Request("settings", "password", appUsername, settings.new)
<1>1. /\ Replied("settings", "auth") /\ MayRun /\ Ask(r) /\ MayAsk
      /\ UNCHANGED <<section, appUsername, login, signup, settings, history>>
  BY DEF CurrentPasswordReplied, Replied, Runs, MayRun, MayAsk
<1>2. r.page = "settings" /\ r.user = appUsername
  BY DEF Request
<1> HIDE DEF r
<1>3. /\ seen < Len(events) /\ seen' = seen + 1 /\ Event.kind = "call"
      /\ asked[Event.id].page = "settings"
  BY <1>1 DEF Replied, Runs, Answered
<1>4. /\ Event.id \in 1 .. made /\ Awaited(Event.id)
      /\ \A x : x = Event.id => ~Awaited(x)'
  BY <1>1, <1>3, RunLine
<1>5. Event.id \in Waiting({"settings"})
  BY <1>3, <1>4 DEF Waiting
<1>6. /\ asked[Event.id].user = appUsername /\ settings.loading /\ Hopeful = {}
      /\ section = 1 \/ Off
      /\ \A id \in Waiting({"settings"}) : id = Event.id
  BY <1>5 DEF PagesInv, SettingsInv, FieldsInv
<1>7. \A id \in Waiting({"settings"}) : id \notin Waiting({"settings"})'
  BY <1>4, <1>6 DEF Waiting
<1> QED
  BY <1>1, <1>2, <1>6, <1>7, SettingsAsk DEF r

LEMMA LostStep ==
    ASSUME LineInv, PagesInv, FieldsInv, ConnectionLost
    PROVE  PagesInv'
<1>1. /\ AskNothing /\ MayAsk /\ MayRun /\ section' = 0
      /\ UNCHANGED <<appUsername, signup, settings>>
      /\ ~history'.shown /\ history'.loading = history.loading
      /\ history'.owner = history.owner
  BY DEF ConnectionLost, Runs, MayAsk, MayRun, FirstTab, FieldsInv
<1>2. Off
  <2>1. seen < Len(events) /\ events[seen + 1].kind = "lost"
    BY DEF ConnectionLost, Runs, Event
  <2>2. seen + 1 \in 1 .. Len(events)
    BY <2>1, SeqFacts DEF LineInv, LineTypes
  <2> QED
    BY <2>1, <2>2 DEF LineInv, LostMeansOff
<1>3. Off' = Off /\ \A shown : \A id \in Waiting(shown) : asked'[id] = asked[id]
  BY <1>1, OldRequests
<1>4. /\ Waiting({"settings"})' \subseteq Waiting({"settings"})
      /\ Waiting({"history"})' \subseteq Waiting({"history"})
  BY <1>1, OthersAsk
<1>5. Hopeful' \subseteq Hopeful
  BY <1>1, OthersEnter
<1>6. EntryInv'
  BY <1>1, <1>2, <1>3, <1>5, EntryEnds DEF PagesInv
<1>7. SettingsInv'
  BY <1>1, <1>2, <1>3, <1>4, <1>5, SettingsKeeps DEF PagesInv
<1>8. HistoryInv'
  BY <1>1, <1>3, <1>4, <1>5, HistoryKeeps DEF PagesInv
<1> QED
  BY <1>6, <1>7, <1>8 DEF PagesInv

\* DashboardPage::doRefresh asks for a page that is not watched.
LEMMA RefreshAsks ==
    ASSUME NEW user, Refresh(user)
    PROVE  \E r : Ask(r) /\ r.page \notin Watched /\ r.op # "password"
BY DEF Refresh, Request, Watched, EntryPages

LEMMA PostedKeeps ==
    ASSUME LineInv, PagesInv, FieldsInv, PostedStep
    PROVE  PagesInv'
<1>1. CASE LoginReplied
  <2>1. Replied("login", "auth") /\ UNCHANGED <<settings, history>> /\ "login" \in EntryPages
    BY <1>1 DEF LoginReplied, EntryPages
  <2>2. CASE Succeeded
    <3>1. (\E r : Ask(r) /\ r.page \notin Watched) /\ Event.ok /\ section' = 1
      BY <1>1, <2>2, RefreshAsks DEF LoginReplied, Succeeded
    <3> QED
      BY <2>1, <3>1, EnteredStep
  <2>3. CASE ~Succeeded
    <3>1. AskNothing /\ UNCHANGED <<section, appUsername>>
      BY <1>1, <2>3 DEF LoginReplied
    <3> QED
      BY <2>1, <3>1, EnteredStep
  <2> QED
    BY <2>2, <2>3
<1>2. CASE SignupReplied
  <2>1. /\ Replied("signup", "create") /\ UNCHANGED <<settings, history>> /\ AskNothing
        /\ "signup" \in EntryPages
    BY <1>2 DEF SignupReplied, EntryPages
  <2>2. (Event.ok /\ section' = 1) \/ UNCHANGED <<section, appUsername>>
    BY <1>2 DEF SignupReplied, Succeeded
  <2> QED
    BY <2>1, <2>2, EnteredStep
<1>3. CASE Refreshed
  BY <1>3, OtherReplies DEF Refreshed
<1>4. CASE HistoryReplied
  BY <1>4, HistoryRepliedStep
<1>5. CASE CurrentPasswordReplied
  <2>1. CASE Verified
    BY <1>5, <2>1, VerifiedStep
  <2>2. CASE ~Verified
    BY <1>5, <2>2, SettingsReplied DEF CurrentPasswordReplied
  <2> QED
    BY <2>1, <2>2
<1>6. CASE PasswordChanged
  BY <1>6, SettingsReplied DEF PasswordChanged
<1>7. CASE LockReplied
  BY <1>7, SettingsReplied DEF LockReplied
<1>8. CASE ConnectionLost
  BY <1>8, LostStep
<1>9. CASE ConnectionRefused
  BY <1>9, OtherPages DEF ConnectionRefused, Runs, MayRun
<1> QED
  BY <1>1, <1>2, <1>3, <1>4, <1>5, <1>6, <1>7, <1>8, <1>9 DEF PostedStep

-----------------------------------------------------------------------------
(* The pages that move money.                                              *)

PaymentPages ==
    \/ EditDeposit \/ DoDeposit \/ EditWithdraw \/ DoWithdraw
    \/ EditTransfer \/ RequestConfirmation \/ DoTransfer
    \/ DepositReplied \/ WithdrawReplied \/ TransferReplied

LEMMA PaymentsAsk ==
    ASSUME PaymentPages
    PROVE  /\ AskNothing \/ (\E r : Ask(r) /\ r.page \notin Watched /\ r.op # "password")
           /\ MayRun
           /\ UNCHANGED <<section, appUsername, login, signup, settings, history>>
<1>1. CASE EditDeposit \/ EditWithdraw \/ EditTransfer \/ RequestConfirmation
  BY <1>1 DEF EditDeposit, EditWithdraw, EditTransfer, RequestConfirmation, Shell, MayRun
<1>2. CASE DoDeposit
  <2>1. UNCHANGED Shell /\ \E amount : Ask(Payment("deposit", "change", appUsername, NoOne, amount))
    BY <1>2 DEF DoDeposit
  <2> QED
    BY <2>1 DEF Payment, Shell, MayRun, Watched, EntryPages
<1>3. CASE DoWithdraw
  <2>1. MayRun /\ UNCHANGED <<section, appUsername, login, signup, settings, history>>
    BY <1>3 DEF DoWithdraw, Shell, MayRun
  <2>2. AskNothing \/ \E amount : Ask(Payment("withdraw", "change", appUsername, NoOne, amount))
    BY <1>3 DEF DoWithdraw
  <2>3. ASSUME NEW amount, Ask(Payment("withdraw", "change", appUsername, NoOne, amount))
        PROVE  \E r : Ask(r) /\ r.page \notin Watched /\ r.op # "password"
    BY <2>3 DEF Payment, Watched, EntryPages
  <2> QED
    BY <2>1, <2>2, <2>3
<1>4. CASE DoTransfer
  <2>1. /\ UNCHANGED Shell
        /\ \/ AskNothing
           \/ Ask(Payment("transfer", "transfer", appUsername, transfer.recipient,
                          transfer.amount))
    BY <1>4 DEF DoTransfer
  <2> QED
    BY <2>1 DEF Payment, Shell, MayRun, Watched, EntryPages
<1>5. CASE DepositReplied \/ WithdrawReplied \/ TransferReplied
  <2>1. PICK page, op : Settled(page, op)
    BY <1>5 DEF DepositReplied, WithdrawReplied, TransferReplied
  <2>2. MayRun /\ UNCHANGED <<section, appUsername, login, signup, settings, history>>
    BY <2>1 DEF Settled, Replied, Runs, MayRun
  <2>3. AskNothing \/ Refresh(appUsername)
    BY <2>1 DEF Settled, RefreshAfter
  <2> QED
    BY <2>2, <2>3, RefreshAsks
<1> QED
  BY <1>1, <1>2, <1>3, <1>4, <1>5 DEF PaymentPages

-----------------------------------------------------------------------------
(* A password is changed after a confirmation.                             *)

LEMMA VerifiedKeeps ==
    ASSUME LineInv, PasswordsVerified, MayRun,
           AskNothing \/ \E r : Ask(r) /\ r.op # "password"
    PROVE  PasswordsVerified'
<1>1. MayAsk
  BY DEF MayAsk
<1>2. /\ LineInv' /\ events' = events /\ made' \in {made, made + 1}
      /\ \A id \in 1 .. made : asked'[id] = asked[id]
  BY <1>1, UiLine
<1>3. /\ DOMAIN asked = 1 .. made /\ DOMAIN asked' = 1 .. made' /\ made \in Nat
      /\ seen \in Nat /\ seen' \in {seen, seen + 1} /\ seen <= Len(events) /\ Len(events) \in Nat
  BY <1>2, SeqFacts DEF LineInv, LineTypes, MayRun
<1>4. SUFFICES ASSUME NEW k \in DOMAIN asked', asked'[k].op = "password"
               PROVE  \E e \in 1 .. seen' :
                         /\ events'[e].kind = "call" /\ events'[e].id < k
                         /\ events'[e].ok /\ events'[e].reply.says = Bool(TRUE)
                         /\ asked'[events'[e].id].page = "settings"
                         /\ asked'[events'[e].id].op = "auth"
                         /\ asked'[events'[e].id].user = asked'[k].user
  BY DEF PasswordsVerified
<1>5. k \in 1 .. made
  <2>1. CASE AskNothing
    BY <1>3, <2>1 DEF AskNothing, clientVars
  <2>2. CASE \E r : Ask(r) /\ r.op # "password"
    <3>1. PICK r : Ask(r) /\ r.op # "password"
      BY <2>2
    <3>2. made' = made + 1 /\ asked'[made'] = r
      BY <3>1, AskLine
    <3>3. k # made'
      BY <1>4, <3>1, <3>2
    <3> QED
      BY <1>3, <3>2, <3>3
  <2> QED
    BY <2>1, <2>2
<1>6. PICK e \in 1 .. seen :
         /\ events[e].kind = "call" /\ events[e].id < k
         /\ events[e].ok /\ events[e].reply.says = Bool(TRUE)
         /\ asked[events[e].id].page = "settings" /\ asked[events[e].id].op = "auth"
         /\ asked[events[e].id].user = asked[k].user
  BY <1>2, <1>3, <1>4, <1>5 DEF PasswordsVerified
<1>7. e \in 1 .. Len(events) /\ e \in 1 .. seen'
  BY <1>3
<1>8. events[e].id \in 1 .. made
  BY <1>6, <1>7 DEF LineInv, LineTypes, IsCall
<1> QED
  BY <1>2, <1>5, <1>6, <1>7, <1>8

\* What the user and the handlers ask for, but for one handler, changes no
\* password.
LEMMA NoChangeAsked ==
    ASSUME UserStep \/ PostedStep, ~(CurrentPasswordReplied /\ Verified)
    PROVE  MayRun /\ (AskNothing \/ \E r : Ask(r) /\ r.op # "password")
<1>1. MayRun
  BY DEF MayRun, UserStep, PostedStep, EditLogin, DoLogin, EditSignup, DoCreateAccount,
         DoRefresh, DoHistory, EditSettings, DoChangePassword, ToggleLockConfirm,
         DoLockAccount, DoLogout, Exit, LoginReplied, SignupReplied, Refreshed,
         HistoryReplied, CurrentPasswordReplied, PasswordChanged, LockReplied,
         ConnectionLost, ConnectionRefused, Replied, Runs
<1>2. \/ AskNothing
      \/ \E user : Refresh(user)
      \/ \E page, op, user, password : /\ op # "password"
                                       /\ Ask(Request(page, op, user, password))
  BY DEF UserStep, PostedStep, EditLogin, DoLogin, EditSignup, DoCreateAccount,
         DoRefresh, DoHistory, EditSettings, DoChangePassword, ToggleLockConfirm,
         DoLockAccount, DoLogout, Exit, LoginReplied, SignupReplied, Refreshed,
         HistoryReplied, CurrentPasswordReplied, PasswordChanged, LockReplied,
         ConnectionLost, ConnectionRefused
<1>3. ASSUME NEW page, NEW op, NEW user, NEW password, op # "password",
             Ask(Request(page, op, user, password))
      PROVE  \E r : Ask(r) /\ r.op # "password"
  <2>1. Request(page, op, user, password).op = op
    BY DEF Request
  <2> QED
    BY <1>3, <2>1
<1> QED
  BY <1>1, <1>2, <1>3, RefreshAsks

\* The change that is asked for now names the user of the request confirmed now.
LEMMA VerifiedAdds ==
    ASSUME LineInv, FieldsInv, PagesInv, PasswordsVerified, CurrentPasswordReplied, Verified
    PROVE  PasswordsVerified'
<1> DEFINE r == Request("settings", "password", appUsername, settings.new)
           Confirms(e, k) ==
              /\ events[e].kind = "call" /\ events[e].id < k
              /\ events[e].ok /\ events[e].reply.says = Bool(TRUE)
              /\ asked[events[e].id].page = "settings" /\ asked[events[e].id].op = "auth"
<1>1. Ask(r) /\ asked[Event.id].user = appUsername
  BY VerifiedStep
<1>2. r.user = appUsername
  BY DEF Request
<1> HIDE DEF r
<1>3. /\ seen < Len(events) /\ seen' = seen + 1 /\ Event = events[seen + 1]
      /\ Event.kind = "call" /\ Event.ok /\ Event.reply.says = Bool(TRUE)
      /\ asked[Event.id].page = "settings" /\ asked[Event.id].op = "auth"
  BY DEF CurrentPasswordReplied, Verified, Succeeded, Replied, Runs, Answered, Event
<1>4. MayRun /\ MayAsk
  BY <1>1, <1>3 DEF MayRun, MayAsk
<1>5. /\ events' = events /\ \A id \in 1 .. made : asked'[id] = asked[id]
      /\ LineInv'
  BY <1>4, UiLine
<1>6. made' = made + 1 /\ asked'[made'] = r
  BY <1>1, AskLine
<1>7. /\ DOMAIN asked = 1 .. made /\ DOMAIN asked' = 1 .. made' /\ made \in Nat
      /\ seen \in Nat /\ Len(events) \in Nat
  BY <1>5, SeqFacts DEF LineInv, LineTypes
<1>8. \A e \in 1 .. seen' : e \in 1 .. Len(events)
  BY <1>3, <1>7
<1>9. \A e \in 1 .. seen' : events[e].kind = "call" => asked'[events[e].id] = asked[events[e].id]
  BY <1>5, <1>8 DEF LineInv, LineTypes, IsCall
<1>10. SUFFICES ASSUME NEW k \in DOMAIN asked', asked'[k].op = "password"
                PROVE  \E e \in 1 .. seen' :
                          Confirms(e, k) /\ asked[events[e].id].user = asked'[k].user
  <2>1. SUFFICES ASSUME NEW k \in DOMAIN asked', asked'[k].op = "password"
                 PROVE  \E e \in 1 .. seen' :
                           /\ events'[e].kind = "call" /\ events'[e].id < k
                           /\ events'[e].ok /\ events'[e].reply.says = Bool(TRUE)
                           /\ asked'[events'[e].id].page = "settings"
                           /\ asked'[events'[e].id].op = "auth"
                           /\ asked'[events'[e].id].user = asked'[k].user
    BY DEF PasswordsVerified
  <2>2. PICK e \in 1 .. seen' : Confirms(e, k) /\ asked[events[e].id].user = asked'[k].user
    BY <2>1
  <2>3. asked'[events[e].id] = asked[events[e].id]
    BY <1>9, <2>2
  <2>4. events'[e] = events[e]
    BY <1>5
  <2>5. /\ events'[e].kind = "call" /\ events'[e].id < k
        /\ events'[e].ok /\ events'[e].reply.says = Bool(TRUE)
    BY <2>2, <2>4
  <2>6. /\ asked'[events'[e].id].page = "settings"
        /\ asked'[events'[e].id].op = "auth"
        /\ asked'[events'[e].id].user = asked'[k].user
    BY <2>2, <2>3, <2>4
  <2> QED
    BY <2>5, <2>6
<1>11. CASE k \in 1 .. made
  <2>1. PICK e \in 1 .. seen : Confirms(e, k) /\ asked[events[e].id].user = asked[k].user
    BY <1>5, <1>7, <1>10, <1>11 DEF PasswordsVerified
  <2>2. e \in 1 .. seen'
    BY <1>3, <1>7
  <2> QED
    BY <1>5, <1>11, <2>1, <2>2
<1>12. CASE k \notin 1 .. made
  <2>1. k = made'
    BY <1>6, <1>7, <1>12
  <2>2. Event.id \in 1 .. made
    <3>1. seen + 1 \in 1 .. seen'
      BY <1>3, <1>7
    <3> QED
      BY <1>3, <1>8, <3>1 DEF LineInv, LineTypes, IsCall
  <2>3. Event.id < k /\ seen + 1 \in 1 .. seen'
    BY <1>3, <1>6, <1>7, <2>1, <2>2
  <2>4. Confirms(seen + 1, k) /\ asked[events[seen + 1].id].user = asked'[k].user
    BY <1>1, <1>2, <1>3, <1>6, <2>1, <2>3
  <2> QED
    BY <2>3, <2>4
<1> QED
  BY <1>11, <1>12

LEMMA SettledVerified ==
    ASSUME LineInv, PasswordsVerified, Settles, UNCHANGED <<asked, seen>>
    PROVE  PasswordsVerified'
<1>1. \A e \in 1 .. seen : e \in 1 .. Len(events)
  BY SeqFacts DEF LineInv, LineTypes
<1>2. \A e \in 1 .. seen : events'[e] = events[e]
  BY <1>1 DEF Settles
<1>3. SUFFICES ASSUME NEW k \in DOMAIN asked, asked[k].op = "password"
               PROVE  \E e \in 1 .. seen :
                         /\ events'[e].kind = "call" /\ events'[e].id < k
                         /\ events'[e].ok /\ events'[e].reply.says = Bool(TRUE)
                         /\ asked[events'[e].id].page = "settings"
                         /\ asked[events'[e].id].op = "auth"
                         /\ asked[events'[e].id].user = asked[k].user
  BY DEF PasswordsVerified
<1>4. PICK e \in 1 .. seen :
         /\ events[e].kind = "call" /\ events[e].id < k
         /\ events[e].ok /\ events[e].reply.says = Bool(TRUE)
         /\ asked[events[e].id].page = "settings" /\ asked[events[e].id].op = "auth"
         /\ asked[events[e].id].user = asked[k].user
  BY <1>3 DEF PasswordsVerified
<1> QED
  BY <1>2, <1>4

-----------------------------------------------------------------------------
(* The invariant of the terminal.                                          *)

TermInv == LineInv /\ FieldsInv /\ PagesInv /\ PasswordsVerified

LEMMA TermInit ==
    ASSUME PaymentsInit
    PROVE  TermInv
<1>1. /\ made = 0 /\ asked = <<>> /\ posts = <<>> /\ pending = <<>> /\ events = <<>> /\ seen = 0
      /\ section = 0 /\ login = ClearedLogin
      /\ signup = [user |-> Empty, password |-> Empty, loading |-> FALSE]
      /\ settings = [current |-> Empty, new |-> Empty, loading |-> FALSE, showLock |-> FALSE]
      /\ history = [shown |-> FALSE, owner |-> Empty, loading |-> FALSE]
  BY DEF PaymentsInit, TerminalInit, ClientInit
<1>2. Len(asked) = 0 /\ Len(posts) = 0 /\ Len(pending) = 0 /\ Len(events) = 0 /\ DOMAIN asked = {}
  BY <1>1
<1>3. /\ IsSeq(<<>>) /\ 1 .. 0 = {}
  <2>1. <<>> \in Seq({1})
    OBVIOUS
  <2>2. IsSeq(<<>>)
    BY <2>1, AnySeq
  <2> QED
    BY <2>2
<1>4. LineInv
  BY <1>1, <1>2, <1>3 DEF LineInv, LineTypes, InLine, Rising, CalledInTurn, LostMeansOff
<1>5. FieldsInv
  BY <1>1 DEF FieldsInv, ClearedLogin
<1>6. PagesInv
  <2>1. \A shown : Waiting(shown) = {}
    BY <1>1, <1>3 DEF Waiting
  <2>2. Hopeful = {}
    BY <1>1, <1>3 DEF Hopeful
  <2> QED
    BY <1>1, <2>1, <2>2 DEF PagesInv, EntryInv, SettingsInv, HistoryInv, HistoryOwn
<1>7. PasswordsVerified
  BY <1>2 DEF PasswordsVerified
<1> QED
  BY <1>4, <1>5, <1>6, <1>7 DEF TermInv

LEMMA TermStep ==
    ASSUME Patient, TermInv, [PaymentsNext]_paymentsVars
    PROVE  TermInv'
<1> USE DEF TermInv
<1>0. FieldsInv'
  <2>1. CASE PaymentsNext
    BY <2>1, FieldsStep
  <2>2. CASE UNCHANGED paymentsVars
    BY <2>2 DEF paymentsVars, terminalVars, ui, pages, FieldsInv
  <2> QED
    BY <2>1, <2>2
<1>1. CASE UserStep \/ PostedStep
  <2>1. PagesInv'
    BY <1>1, UserKeeps, PostedKeeps
  <2>2. CASE CurrentPasswordReplied /\ Verified
    <3>1. PasswordsVerified'
      BY <2>2, VerifiedAdds
    <3>2. LineInv'
      <4>1. MayRun /\ MayAsk
        BY <2>2, VerifiedStep DEF MayAsk, MayRun, CurrentPasswordReplied, Replied, Runs
      <4> QED
        BY <4>1, UiLine
    <3> QED
      BY <1>0, <2>1, <3>1, <3>2
  <2>3. CASE ~(CurrentPasswordReplied /\ Verified)
    <3>1. MayRun /\ (AskNothing \/ \E r : Ask(r) /\ r.op # "password")
      BY <1>1, <2>3, NoChangeAsked
    <3>2. MayAsk
      BY <3>1 DEF MayAsk
    <3> QED
      BY <1>0, <2>1, <3>1, <3>2, UiLine, VerifiedKeeps
  <2> QED
    BY <2>2, <2>3
<1>2. CASE PaymentPages
  <2>1. /\ AskNothing \/ (\E r : Ask(r) /\ r.page \notin Watched /\ r.op # "password")
        /\ MayRun
        /\ UNCHANGED <<section, appUsername, login, signup, settings, history>>
    BY <1>2, PaymentsAsk
  <2>2. MayAsk
    BY <2>1 DEF MayAsk
  <2>3. PagesInv'
    BY <2>1, OtherPages
  <2> QED
    BY <1>0, <2>1, <2>2, <2>3, UiLine, VerifiedKeeps
<1>3. CASE Execute \/ ExecutePayment \/ Network
  <2>1. UNCHANGED ui
    BY <1>3 DEF Execute, ExecutePayment, Network
  <2>2. \/ OnDisconnect \/ IoStep \/ Take \/ ServerCloses
        \/ \E says : ServerAnswers(says)
    BY <1>3 DEF Execute, ExecutePayment, Network
  <2>3. LineInv' /\ Settles
    BY <2>1, <2>2, NetworkLine DEF ui
  <2> QED
    BY <1>0, <2>1, <2>3, NetworkKeeps, SettledVerified DEF ui, pages
<1>4. CASE ServedElsewhere \/ UNCHANGED paymentsVars
  <2>1. UNCHANGED <<ui, clientVars>>
    BY <1>4 DEF ServedElsewhere, paymentsVars, terminalVars
  <2>2. MayRun /\ MayAsk /\ AskNothing
    BY <2>1 DEF MayRun, MayAsk, AskNothing, ui
  <2>3. UNCHANGED <<section, appUsername, login, signup, settings, history>>
    BY <2>1 DEF ui, pages
  <2> QED
    BY <1>0, <2>2, <2>3, UiLine, OtherPages, VerifiedKeeps
<1> QED
  BY <1>1, <1>2, <1>3, <1>4 DEF PaymentsNext, TerminalNext, PaymentPages

LEMMA TermInvariant ==
    ASSUME Patient
    PROVE  PaymentsSpec => []TermInv
<1>1. PaymentsInit => TermInv
  BY TermInit
<1>2. TermInv /\ [PaymentsNext]_paymentsVars => TermInv'
  BY TermStep
<1> QED
  BY <1>1, <1>2, PTL DEF PaymentsSpec

\* Every change of a password that is asked for (SettingPage.cpp) is asked for
\* the account whose current password the server has confirmed before, whatever
\* the network does, if the user waits for what spins.
THEOREM ChangesVerified ==
    ASSUME Patient
    PROVE  PaymentsSpec => []PasswordsVerified
<1>1. TermInv => PasswordsVerified
  BY DEF TermInv
<1> QED
  BY <1>1, TermInvariant, PTL

\* What the history page (HistoryPage.cpp) shows a patient user is never the
\* history of somebody who used the terminal before.
THEOREM HistoryShownOwn ==
    ASSUME Patient
    PROVE  PaymentsSpec => []HistoryOwn
<1>1. TermInv => HistoryOwn
  BY DEF TermInv, PagesInv, HistoryInv
<1> QED
  BY <1>1, TermInvariant, PTL

=============================================================================
