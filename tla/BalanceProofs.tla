---------------------------- MODULE BalanceProofs ----------------------------
(***************************************************************************)
(* What the whole terminal does to the accounts, and what it shows of      *)
(* them.                                                                   *)
(*                                                                         *)
(* Every step of the terminal is an operation on the accounts or leaves    *)
(* them alone, so what Ledger promises of an operation holds below the     *)
(* pages.                                                                  *)
(*                                                                         *)
(* That the dashboard is current when nothing is on its way takes more     *)
(* (ScreenInv): replies to payments and refreshes stand in the outbox in   *)
(* the order of their requests (OutboxInv), and each request is of one     *)
(* kind (KindsInv).  Only the owner of an account that was open is let in  *)
(* (EntryNamed, LoginsInv).  Whoever was told of a payment has asked for a *)
(* refresh since (RefreshInv).  What a refresh was told is the history of  *)
(* its account but for the payments made after it, at this terminal or in  *)
(* other sessions (HistoryTrue), and the dashboard shows what the last     *)
(* refresh heard of was told (DashTrue).                                   *)
(***************************************************************************)
EXTENDS PaymentsProofs

-----------------------------------------------------------------------------
(* The accounts below the pages.                                           *)

\* What a request that is being served asks of the accounts.
Performs(r) ==
    \/ Perform(r)
    \/ r.op = "change" /\ ChangeBalance(r.user, r.amount)
    \/ r.op = "transfer" /\ TransferBalance(r.user, r.recipient, r.amount)

Served == asked[serving[1]]

LEMMA PerformsOperation ==
    ASSUME NEW r, WellAsked(r), Performs(r)
    PROVE  AnyOperation
<1>1. CASE Perform(r)
  BY <1>1 DEF Perform, AnyOperation
<1>2. CASE r.op = "change" /\ ChangeBalance(r.user, r.amount)
  <2>1. r.amount \in I64
    BY <1>2 DEF WellAsked
  <2> QED
    BY <1>2, <2>1 DEF AnyOperation
<1>3. CASE r.op = "transfer" /\ TransferBalance(r.user, r.recipient, r.amount)
  <2>1. r.amount \in U64
    BY <1>3 DEF WellAsked
  <2> QED
    BY <1>3, <2>1 DEF AnyOperation
<1> QED
  BY <1>1, <1>2, <1>3 DEF Performs

LEMMA LedgerSteps ==
    ASSUME PayInv, [PaymentsNext]_paymentsVars
    PROVE  [AnyOperation]_ledger
<1>1. serving # <<>> => WellAsked(Served)
  BY DEF PayInv, JoinInv, ServedInv, AskedInv, Served
<1>2. CASE Execute \/ ExecutePayment
  <2>1. serving # <<>> /\ Performs(Served)
    BY <1>2 DEF Execute, ExecutePayment, Performs, Served
  <2> QED
    BY <1>1, <2>1, PerformsOperation
<1>3. CASE Network
  BY <1>3 DEF Network, bank
<1>4. CASE ServedElsewhere
  BY <1>4, NextOperates DEF ServedElsewhere
<1> QED
  BY <1>2, <1>3, <1>4, Steps, UiLedger

\* README, Security Notes: below the pages too, a locked account's money stands
\* still, although its owner may still be logged in at the terminal and press
\* the buttons of DepositPage.cpp, WithdrawPage.cpp and TransferPage.cpp.
THEOREM PagesFreezeLocked ==
    ASSUME Patient, ~PartialWrites
    PROVE  PaymentsSpec => LockedAccountsFrozen
<1>1. PayInv /\ [PaymentsNext]_paymentsVars => [Freezes(data, data')]_ledger
  <2> SUFFICES ASSUME PayInv, [PaymentsNext]_paymentsVars
               PROVE  Freezes(data, data')
    OBVIOUS
  <2>1. TypeOK
    BY DEF PayInv, IInv
  <2> QED
    BY <2>1, LedgerSteps, StepKeepsOrAppends
<1> QED
  BY <1>1, PayInvariant, PTL DEF PaymentsSpec, LockedAccountsFrozen

\* Nothing the pages ask for rewrites a history or drops an account.
THEOREM PagesAppendOnly ==
    ASSUME Patient, ~PartialWrites
    PROVE  PaymentsSpec => HistoryOnlyGrows
<1>1. PayInv /\ [PaymentsNext]_paymentsVars => [Extends(data, data')]_ledger
  <2> SUFFICES ASSUME PayInv, [PaymentsNext]_paymentsVars
               PROVE  Extends(data, data')
    OBVIOUS
  <2>1. TypeOK
    BY DEF PayInv, IInv
  <2> QED
    BY <2>1, LedgerSteps, StepKeepsOrAppends
<1> QED
  BY <1>1, PayInvariant, PTL DEF PaymentsSpec, HistoryOnlyGrows

\* Every transfer made at the terminal (TransferPage.cpp) is in both histories,
\* also if its reply, or the connection, was lost after it was carried out.
THEOREM PagesPairTransfers ==
    ASSUME Patient, ~PartialWrites, Linked(Seed)
    PROVE  PaymentsSpec => []TransfersPaired
<1>1. PaymentsInit => Linked(data)
  BY DEF PaymentsInit, TerminalInit, Init
<1>2. PayInv /\ Linked(data) /\ [PaymentsNext]_paymentsVars => Linked(data)'
  BY LedgerSteps, LinkedStep DEF PayInv, IInv
<1>3. Linked(data) => TransfersPaired
  BY DEF Linked, TransfersPaired
<1> QED
  BY <1>1, <1>2, <1>3, PayInvariant, PTL DEF PaymentsSpec

\* Nothing done at the terminal makes or loses money (DepositPage.cpp,
\* WithdrawPage.cpp, TransferPage.cpp over Database.cpp): a payment whose reply
\* is lost has moved what its records say, and one that is refused nothing.
THEOREM PagesConserveMoney ==
    ASSUME Patient, ~PartialWrites, IsFiniteSet(DOMAIN Seed)
    PROVE  PaymentsSpec => MoneyConserved
<1>1. PaymentsInit => IsFiniteSet(DOMAIN data)
  BY DEF PaymentsInit, TerminalInit, Init
<1>2. PayInv /\ IsFiniteSet(DOMAIN data) /\ [PaymentsNext]_paymentsVars
        => IsFiniteSet(DOMAIN data)' /\ [Conserves(data, data')]_ledger
  BY LedgerSteps, StepConserves DEF PayInv, IInv
<1>3. [Conserves(data, data')]_ledger
        <=> [(TotalBalance(data') - TotalBalance(data) - CashFlow(data, data'))
                % Limit = 0]_ledger
  BY DEF Conserves
<1> QED
  BY <1>1, <1>2, <1>3, PayInvariant, PTL DEF PaymentsSpec, MoneyConserved

-----------------------------------------------------------------------------
(* What the steps of the three parties change.                             *)

IsRefresh(k) == asked[k].op = "history"
To(j) == outbox[j].to

\* The FTXUI thread may add a request at the end of the line.
LEMMA UiFrame ==
    ASSUME PayInv, UiStep
    PROVE  /\ made \in Nat /\ made' \in {made, made + 1} /\ LineInv'
           /\ UNCHANGED <<link, connected, open, pending, got, events, outbox, data, elsewhere>>
           /\ \A k \in 1 .. made : k \in 1 .. made' /\ asked'[k] = asked[k]
           /\ \A id : IsIn(id, posts') => IsIn(id, posts) \/ id = made + 1
           /\ seen \in Nat /\ seen' \in {seen, seen + 1} /\ seen' <= Len(events)
<1>1. LineInv /\ MayRun /\ MayAsk
  BY UiAsks DEF MayAsk, PayInv, TermInv
<1>2. made \in Nat /\ seen \in 0 .. Len(events) /\ Len(events) \in Nat
  BY <1>1, SeqFacts DEF LineInv, LineTypes
<1>3. /\ LineInv' /\ events' = events /\ made' \in {made, made + 1}
      /\ \A k \in 1 .. made : asked'[k] = asked[k]
  BY <1>1, UiLine
<1>4. UNCHANGED <<data, elsewhere>>
  BY UiBank DEF bank, ledger
<1>5. CASE AskNothing
  BY <1>1, <1>2, <1>3, <1>4, <1>5 DEF AskNothing, clientVars, io, server, MayRun
<1>6. ASSUME NEW r, Ask(r)
      PROVE  /\ UNCHANGED <<link, connected, open, pending, got, outbox>>
             /\ \A id : IsIn(id, posts') => IsIn(id, posts) \/ id = made + 1
  <2>1. UNCHANGED <<link, connected, open, pending, got, outbox>> /\ made' = made + 1
    BY <1>6 DEF Ask, SendRequest, server
  <2>2. \A id : IsIn(id, posts') <=> IsIn(id, posts) \/ id = made'
    BY <1>1, <1>6, AskLine
  <2> QED
    BY <2>1, <2>2
<1>7. \A k \in 1 .. made : k \in 1 .. made'
  BY <1>2, <1>3
<1>8. seen' \in {seen, seen + 1} /\ seen' <= Len(events)
  BY <1>1, <1>2 DEF MayRun
<1>9. CASE ~AskNothing
  <2>1. PICK r : Ask(r)
    BY <1>1, <1>9 DEF MayAsk
  <2> QED
    BY <1>2, <1>3, <1>4, <1>6, <1>7, <1>8, <2>1
<1> QED
  BY <1>5, <1>9

\* The io thread and the network move requests and replies.
LEMMA NetFrame ==
    ASSUME PayInv, Network
    PROVE  /\ UNCHANGED <<asked, seen, section, appUsername, login, signup, dash,
                          made, outbox, data, elsewhere>>
           /\ LineInv' /\ Settles
<1>1. UNCHANGED <<asked, seen, section, appUsername, login, signup, dash, data, elsewhere>>
  BY DEF Network, ui, pages, bank, ledger
<1>2. UNCHANGED <<made, outbox>>
  BY DEF Network, OnDisconnect, IoStep, Connect, RunPost, Write, WriteFails, Receive,
         ReceiveFails, Take, ServerCloses, server, io
<1>3. LineInv' /\ Settles
  BY <1>1, NetworkLine DEF Network, PayInv, TermInv
<1> QED
  BY <1>1, <1>2, <1>3

\* The server answers the request it serves.
LEMMA ExecFrame ==
    ASSUME PayInv, Execute \/ ExecutePayment
    PROVE  /\ UNCHANGED <<asked, seen, section, appUsername, login, signup, dash,
                          made, link, connected, open, posts, pending, got, events>>
           /\ LineInv' /\ Settles
           /\ open /\ link = "up" /\ serving[1] \in 1 .. made /\ serving # <<>>
           /\ Performs(Served) /\ WellAsked(Served)
           /\ Len(outbox) \in Nat /\ Len(outbox') = Len(outbox) + 1
           /\ \A j \in 1 .. Len(outbox) : outbox'[j] = outbox[j]
           /\ outbox'[Len(outbox) + 1] = [to |-> serving[1], says |-> Says(Served)]
<1>1. serving # <<>> /\ UNCHANGED ui /\ Performs(Served)
  BY DEF Execute, ExecutePayment, Performs, Served
<1>2. ServerAnswers(Says(Served))
  BY DEF Execute, ExecutePayment, Says, Served
<1>3. /\ UNCHANGED <<made, link, connected, open, posts, pending, got, events>>
      /\ outbox' = Append(outbox, [to |-> serving[1], says |-> Says(Served)])
  BY <1>2 DEF ServerAnswers, io
<1>4. open /\ link = "up" /\ serving[1] \in 1 .. made /\ WellAsked(Served)
  BY <1>1 DEF PayInv, JoinInv, ServedInv, AskedInv, Served
<1>5. LineInv' /\ Settles
  BY <1>1, <1>2, NetworkLine DEF PayInv, TermInv, ui
<1>6. IsSeq(outbox)
  BY AnySeq DEF PayInv, ClientInv, MatchInv, ClientTypes
<1>7. UNCHANGED <<asked, seen, section, appUsername, login, signup, dash>>
  BY <1>1 DEF ui, pages
<1> HIDE DEF Served
<1> QED
  BY <1>1, <1>3, <1>4, <1>5, <1>6, <1>7, SeqFacts, SeqAppend

\* Its answer makes up for what other sessions did.
LEMMA ExecElsewhere ==
    ASSUME PayInv, Execute \/ ExecutePayment
    PROVE  /\ \A u \in elsewhere.turned :
                  u \in elsewhere'.turned \/ (Admits(Served) /\ u = Served.user)
           /\ \A u \in elsewhere.paid :
                  u \in elsewhere'.paid \/ (Served.op = "history" /\ u = Served.user)
<1>1. CASE ExecutePayment
  BY <1>1 DEF ExecutePayment
<1>2. CASE Execute
  <2>1. Informs(Served)
    BY <1>2 DEF Execute, Served
  <2> HIDE DEF Served
  <2> QED
    BY <2>1 DEF Informs, PayInv, ElsewhereTyped
<1> QED
  BY <1>1, <1>2

\* What is done for other sessions is not seen here.
LEMMA OthersFrame ==
    ASSUME PayInv, ServedElsewhere
    PROVE  /\ UNCHANGED <<asked, seen, section, appUsername, login, signup, dash,
                          made, link, connected, open, posts, pending, got, events, outbox>>
           /\ LineInv' /\ Settles
<1>1. LineInv' /\ Settles /\ UNCHANGED <<ui, clientVars>>
  BY OthersLine DEF PayInv, TermInv
<1> QED
  BY <1>1 DEF ui, pages, clientVars, io, server

LEMMA OldReplies ==
    ASSUME PayInv
    PROVE  /\ \A j \in 1 .. Len(outbox) : To(j) \in 1 .. made
           /\ \A e \in 1 .. Len(events) : IsCall(e) => events[e].id \in 1 .. made
           /\ \A e \in 1 .. Len(events) : IsCall(e) /\ events[e].ok =>
                 \E j \in 1 .. Len(outbox) :
                     events[e].reply = outbox[j] /\ To(j) = events[e].id
<1>1. \A j \in 1 .. Len(outbox) : To(j) \in 1 .. made
  BY DEF PayInv, JoinInv, RepliesInv, To
<1>2. \A e \in 1 .. Len(events) : IsCall(e) => events[e].id \in 1 .. made
  BY DEF PayInv, TermInv, LineInv, LineTypes
<1>3. \A e \in 1 .. Len(events) : IsCall(e) => events[e].reply.to = events[e].id
  BY DEF PayInv, ClientInv, MatchInv, Matched, IsCall
<1> QED
  BY <1>1, <1>2, <1>3 DEF PayInv, JoinInv, RepliesInv, To

-----------------------------------------------------------------------------
(* Replies come in the order of the requests.                              *)

\* Each reply answers a younger request than those before it, and whoever has
\* not been answered is younger than those who have.
OutboxInv ==
    /\ \A i, j \in 1 .. Len(outbox) : i < j => To(i) < To(j)
    /\ \A j \in 1 .. Len(outbox) : \A id : IsIn(id, posts) => To(j) < id
    /\ \A j \in 1 .. got : \A id : IsIn(id, pending) => To(j) < id

\* The packet being served is that of the oldest handler that has no reply.
LEMMA ServedNext ==
    ASSUME PayInv, serving # <<>>, open, link = "up"
    PROVE  /\ Unread + 1 \in 1 .. Len(pending) /\ serving[1] = pending[Unread + 1]
           /\ got \in 0 .. Len(outbox) /\ Len(outbox) \in Nat
           /\ \A j \in got + 1 .. Len(outbox) :
                 j - got \in 1 .. Len(pending) /\ j - got < Unread + 1
                    /\ pending[j - got] = To(j)
<1>1. PICK n \in 0 .. Len(stream) : LinedUp(n)
  BY DEF PayInv, ClientInv, MatchInv
<1>2. ClientTypes(Replies) /\ UnreadFirst
  BY DEF PayInv, ClientInv, MatchInv
<1>3. /\ Len(serving) = 1 /\ Unread \in Nat /\ Len(writes) \in Nat /\ n \in Nat
      /\ got \in 0 .. Len(outbox) /\ Len(outbox) \in Nat /\ Len(pending) \in Nat
  BY <1>2, Lengths
<1>4. serving[1] = pending[Unread + 1] /\ Len(pending) = Unread + 1 + n + Len(writes)
  BY <1>1, <1>3 DEF LinedUp
<1>5. Unread + 1 \in 1 .. Len(pending)
  BY <1>3, <1>4
<1>6. ASSUME NEW j \in got + 1 .. Len(outbox)
      PROVE  /\ j - got \in 1 .. Len(pending) /\ j - got < Unread + 1
             /\ pending[j - got] = To(j)
  <2>1. j - got \in 1 .. Unread /\ got + (j - got) = j
    BY <1>3 DEF Unread
  <2>2. pending[j - got] = outbox[got + (j - got)].to
    BY <1>2, <2>1 DEF UnreadFirst
  <2> QED
    BY <1>3, <1>5, <2>1, <2>2 DEF To
<1> QED
  BY <1>3, <1>4, <1>5, <1>6

LEMMA ExecOutbox ==
    ASSUME PayInv, OutboxInv, Execute \/ ExecutePayment
    PROVE  OutboxInv'
<1> DEFINE n == Len(outbox)
           id == serving[1]
<1>1. /\ UNCHANGED <<posts, pending, got>> /\ open /\ link = "up" /\ serving # <<>>
      /\ n \in Nat /\ Len(outbox') = n + 1
      /\ \A j \in 1 .. n : outbox'[j] = outbox[j]
      /\ outbox'[n + 1].to = id
  BY ExecFrame
<1>2. /\ Unread + 1 \in 1 .. Len(pending) /\ id = pending[Unread + 1]
      /\ got \in 0 .. n
      /\ \A j \in got + 1 .. n : /\ j - got \in 1 .. Len(pending) /\ j - got < Unread + 1
                                 /\ pending[j - got] = To(j)
  BY <1>1, ServedNext
<1>3. IsIn(id, pending) /\ \A x : IsIn(x, posts) => id < x
  BY <1>2 DEF IsIn, PayInv, TermInv, LineInv, InLine
<1>4. ASSUME NEW j \in 1 .. n PROVE To(j) < id
  <2>1. CASE j \in 1 .. got
    BY <1>3, <2>1 DEF OutboxInv
  <2>2. CASE j \in got + 1 .. n
    BY <1>2, <2>2 DEF PayInv, TermInv, LineInv, InLine, Rising
  <2> QED
    BY <1>1, <1>2, <2>1, <2>2
<1>5. \A j \in 1 .. n + 1 : j \in 1 .. n \/ j = n + 1
  BY <1>1
<1>6. \A j \in 1 .. n + 1 : To(j)' = IF j = n + 1 THEN id ELSE To(j)
  BY <1>1, <1>5 DEF To
<1> HIDE DEF id
<1>7. \A i, j \in 1 .. n + 1 : i < j => To(i)' < To(j)'
  <2> SUFFICES ASSUME NEW i \in 1 .. n + 1, NEW j \in 1 .. n + 1, i < j
               PROVE  To(i)' < To(j)'
    OBVIOUS
  <2>1. i \in 1 .. n /\ To(i)' = To(i)
    BY <1>1, <1>6
  <2> QED
    BY <1>4, <1>5, <1>6, <2>1 DEF OutboxInv
<1>8. \A j \in 1 .. n + 1 : \A x : IsIn(x, posts)' => To(j)' < x
  BY <1>1, <1>3, <1>5, <1>6 DEF OutboxInv, IsIn
<1>9. \A j \in 1 .. got : \A x : IsIn(x, pending)' => To(j)' < x
  <2>1. \A j \in 1 .. got : j \in 1 .. n /\ To(j)' = To(j)
    BY <1>1, <1>2, <1>6
  <2> QED
    BY <1>1, <2>1 DEF OutboxInv, IsIn
<1> QED
  BY <1>1, <1>7, <1>8, <1>9 DEF OutboxInv

LEMMA NetOutbox ==
    ASSUME PayInv, OutboxInv, Network
    PROVE  OutboxInv'
<1>1. UNCHANGED outbox /\ IsSeq(posts) /\ IsSeq(pending) /\ LineInv
  BY NetFrame DEF PayInv, TermInv, LineInv, LineTypes
<1>2. \A j : To(j)' = To(j)
  BY <1>1 DEF To
<1>3. CASE UNCHANGED <<posts, pending, got>>
  BY <1>1, <1>2, <1>3 DEF OutboxInv, IsIn
<1>4. CASE RunPost
  <2>1. /\ posts' = Tail(posts) /\ posts # <<>> /\ UNCHANGED got
        /\ pending' = pending \/ pending' = Append(pending, Head(posts))
    BY <1>4 DEF RunPost
  <2>2. /\ IsIn(Head(posts), posts)
        /\ \A x : IsIn(x, posts') => IsIn(x, posts)
    <3>1. /\ Len(posts') = Len(posts) - 1 /\ Len(posts) > 0 /\ Len(posts) \in Nat
          /\ Head(posts) = posts[1]
          /\ \A k \in 1 .. Len(posts') : posts'[k] = posts[k + 1]
      BY <1>1, <2>1, SeqTail, SeqFacts
    <3>2. \A k \in 1 .. Len(posts') : k + 1 \in 1 .. Len(posts)
      BY <3>1
    <3>3. 1 \in 1 .. Len(posts)
      BY <3>1
    <3> QED
      BY <3>1, <3>2, <3>3 DEF IsIn
  <2>3. \A x : IsIn(x, pending') => IsIn(x, pending) \/ x = Head(posts)
    <3>1. CASE pending' = Append(pending, Head(posts))
      <4>1. /\ Len(pending') = Len(pending) + 1 /\ Len(pending) \in Nat
            /\ \A k \in 1 .. Len(pending) : pending'[k] = pending[k]
            /\ pending'[Len(pending) + 1] = Head(posts)
        BY <1>1, <3>1, SeqAppend, SeqFacts
      <4>2. \A k \in 1 .. Len(pending') : k \in 1 .. Len(pending) \/ k = Len(pending) + 1
        BY <4>1
      <4> QED
        BY <4>1, <4>2 DEF IsIn
    <3> QED
      BY <2>1, <3>1 DEF IsIn
  <2>4. \A j \in 1 .. got : j \in 1 .. Len(outbox)
    <3>1. got \in 0 .. Len(outbox) /\ Len(outbox) \in Nat
      BY Lengths DEF PayInv, ClientInv, MatchInv
    <3> QED
      BY <3>1
  <2> QED
    BY <1>1, <1>2, <2>1, <2>2, <2>3, <2>4 DEF OutboxInv, IsIn
<1>5. CASE Receive
  <2>1. /\ link = "up" /\ got < Len(outbox) /\ got' = got + 1 /\ UNCHANGED posts
        /\ pending = <<>> => pending' = pending
        /\ pending # <<>> => pending' = Tail(pending)
    BY <1>5 DEF Receive, Popped
  <2>2. got \in 0 .. Len(outbox) /\ Len(outbox) \in Nat
    BY Lengths DEF PayInv, ClientInv, MatchInv
  <2>3. 1 \in 1 .. Unread /\ got + 1 \in 1 .. Len(outbox)
    BY <2>1, <2>2 DEF Unread
  <2>4. 1 <= Len(pending) /\ pending[1] = To(got + 1)
    BY <2>1, <2>3 DEF PayInv, ClientInv, MatchInv, UnreadFirst, To
  <2>5. ASSUME NEW j \in 1 .. got', NEW x, IsIn(x, pending')
        PROVE  To(j)' < x
    <3>1. pending # <<>>
      BY <2>1, <2>5 DEF IsIn
    <3>2. /\ Len(pending') = Len(pending) - 1 /\ Len(pending) \in Nat
          /\ \A k \in 1 .. Len(pending') : pending'[k] = pending[k + 1]
      BY <1>1, <2>1, <3>1, SeqTail, SeqFacts
    <3>3. PICK k \in 1 .. Len(pending) : k > 1 /\ pending[k] = x
      <4>1. PICK k \in 1 .. Len(pending') : pending'[k] = x
        BY <2>5 DEF IsIn
      <4>2. k + 1 \in 1 .. Len(pending) /\ k + 1 > 1 /\ pending[k + 1] = x
        BY <3>2, <4>1
      <4> QED
        BY <4>2
    <3>4. IsIn(x, pending) /\ To(got + 1) < x
      <4>1. 1 \in 1 .. Len(pending)
        BY <2>4, <3>2
      <4> QED
        BY <1>1, <2>4, <3>3, <4>1 DEF IsIn, LineInv, InLine, Rising
    <3>5. j \in 1 .. got \/ j = got + 1
      BY <2>1, <2>2, <2>5
    <3> QED
      BY <1>2, <3>4, <3>5 DEF OutboxInv
  <2> QED
    BY <1>1, <1>2, <2>1, <2>5 DEF OutboxInv, IsIn
<1>6. CASE ReceiveFails
  <2>1. UNCHANGED <<posts, got>> /\ pending' = <<>>
    BY <1>6 DEF ReceiveFails
  <2>2. \A x : ~IsIn(x, pending')
    BY <2>1 DEF IsIn
  <2> QED
    BY <1>1, <1>2, <2>1, <2>2 DEF OutboxInv, IsIn
<1>7. OnDisconnect \/ Connect \/ Write \/ WriteFails \/ Take \/ ServerCloses
          => UNCHANGED <<posts, pending, got>>
  BY DEF OnDisconnect, Connect, Write, WriteFails, Take, ServerCloses, io
<1> QED
  BY <1>3, <1>4, <1>5, <1>6, <1>7 DEF Network, IoStep

LEMMA OutboxStep ==
    ASSUME PayInv, OutboxInv, [PaymentsNext]_paymentsVars
    PROVE  OutboxInv'
<1>1. CASE UiStep
  <2>1. /\ UNCHANGED <<outbox, got, pending>> /\ made \in Nat
        /\ \A id : IsIn(id, posts') => IsIn(id, posts) \/ id = made + 1
    BY <1>1, UiFrame
  <2>2. \A j \in 1 .. Len(outbox) : To(j) < made + 1
    BY <2>1, OldReplies
  <2> QED
    BY <2>1, <2>2 DEF OutboxInv, To, IsIn
<1>2. CASE ServedElsewhere
  <2>1. UNCHANGED <<outbox, got, pending, posts>>
    BY <1>2, OthersFrame
  <2> QED
    BY <2>1 DEF OutboxInv, To, IsIn
<1> QED
  BY <1>1, <1>2, ExecOutbox, NetOutbox, Steps

-----------------------------------------------------------------------------
(* Which page asks for what, and when.                                     *)

\* What each page asks for.
Fits(page, op) ==
    \/ page = "login" /\ op = "auth"
    \/ page = "signup" /\ op = "create"
    \/ page = "settings" /\ op \in {"auth", "password", "toggle"}
    \/ page = "dashboard" /\ op = "history"
    \/ page = "history" /\ op = "recent"
    \/ page \in {"deposit", "withdraw"} /\ op = "change"
    \/ page = "transfer" /\ op = "transfer"

\* Before the client is connected there are only the forms to enter by, and
\* what another page asks for fails only when nothing can be sent any more.
KindsInv ==
    /\ \A k \in 1 .. made : Fits(asked[k].page, asked[k].op)
    /\ \A k \in 1 .. made : asked[k].page = "signup" => "signup" \in Forms
    /\ \A k \in 1 .. made : asked[k].page \notin EntryPages => link # "connecting"
    /\ section = 1 => link # "connecting"
    /\ \A e \in 1 .. Len(events) : IsCall(e) /\ events[e].ok => link # "connecting"
    /\ \A e \in 1 .. Len(events) :
          IsCall(e) /\ ~events[e].ok /\ asked[events[e].id].page \notin EntryPages => Off
    /\ link = "up" /\ open => connected

\* A handler that runs now was given a reply.
HasReply == seen < Len(events) /\ Event.kind = "call" /\ Event.ok

FitRequest(r) ==
    /\ Fits(r.page, r.op)
    /\ r.page = "signup" => "signup" \in Forms
    /\ r.page \notin EntryPages => section = 1 \/ HasReply
    /\ r.op = "toggle" => section = 1 /\ r.user = appUsername
    /\ r.op = "history" => r.user = appUsername'

LEMMA FitRequests ==
    ASSUME NEW page, NEW op, NEW user, NEW password, Ask(Request(page, op, user, password)),
           Fits(page, op), page = "signup" => "signup" \in Forms,
           page \notin EntryPages => section = 1 \/ HasReply,
           op = "toggle" => section = 1 /\ user = appUsername,
           op = "history" => user = appUsername'
    PROVE  \E r : Ask(r) /\ FitRequest(r)
<1> DEFINE r == Request(page, op, user, password)
<1>1. r.page = page /\ r.op = op /\ r.user = user
  BY DEF Request
<1>2. Ask(r)
  OBVIOUS
<1> HIDE DEF r
<1> QED
  BY <1>1, <1>2 DEF FitRequest

LEMMA FitOthers ==
    ASSUME NEW page, NEW op, NEW user, NEW password, Ask(Request(page, op, user, password)),
           Fits(page, op), page = "signup" => "signup" \in Forms,
           page \notin EntryPages => section = 1 \/ HasReply, op \notin {"toggle", "history"}
    PROVE  \E r : Ask(r) /\ FitRequest(r)
BY FitRequests

LEMMA FitRefreshes ==
    ASSUME Refresh(appUsername'), section = 1 \/ HasReply
    PROVE  \E r : Ask(r) /\ FitRequest(r)
BY FitRequests DEF Refresh, Fits

LEMMA FitPayments ==
    ASSUME NEW page, NEW op, NEW user, NEW to, NEW amount, Ask(Payment(page, op, user, to, amount)),
           Fits(page, op), op \in {"change", "transfer"}, section = 1
    PROVE  \E r : Ask(r) /\ FitRequest(r)
<1> DEFINE r == Payment(page, op, user, to, amount)
<1>1. r.page = page /\ r.op = op
  BY DEF Payment
<1>2. Ask(r)
  OBVIOUS
<1> HIDE DEF r
<1> QED
  BY <1>1, <1>2 DEF FitRequest, Fits

LEMMA UiFits ==
    ASSUME UiStep
    PROVE  /\ AskNothing \/ \E r : Ask(r) /\ FitRequest(r)
           /\ section' = 1 => section = 1 \/ HasReply
<1> DEFINE Goal == /\ AskNothing \/ \E r : Ask(r) /\ FitRequest(r)
                   /\ section' = 1 => section = 1 \/ HasReply
<1>1. CASE DoLogin
  <2>1. Fits("login", "auth")
    BY DEF Fits
  <2> QED
    BY <1>1, <2>1, FitOthers DEF DoLogin, EntryPages
<1>2. CASE DoCreateAccount
  BY <1>2, FitOthers DEF DoCreateAccount, Acts, Fits, EntryPages
<1>3. CASE DoRefresh
  <2>1. Refresh(appUsername') /\ section = 1
    BY <1>3 DEF DoRefresh
  <2> QED
    BY <2>1, FitRefreshes
<1>4. CASE DoHistory
  BY <1>4, FitOthers DEF DoHistory, Fits
<1>5. CASE DoChangePassword
  BY <1>5, FitOthers DEF DoChangePassword, MayPress, Fits
<1>6. CASE DoLockAccount
  BY <1>6, FitRequests DEF DoLockAccount, MayPress, Fits
<1>7. CASE EditLogin \/ EditSignup \/ EditSettings \/ ToggleLockConfirm \/ DoLogout \/ Exit
  <2>1. AskNothing /\ (section' = section \/ section' = 0)
    BY <1>7 DEF EditLogin, EditSignup, EditSettings, ToggleLockConfirm, DoLogout, LogOut, Exit
  <2> QED
    BY <2>1
<1>8. CASE LoginReplied
  <2>1. Succeeded => HasReply
    BY <1>8 DEF LoginReplied, Replied, Runs, Succeeded, HasReply
  <2> QED
    BY <1>8, <2>1, FitRefreshes DEF LoginReplied
<1>9. CASE SignupReplied
  BY <1>9 DEF SignupReplied, Replied, Runs, Succeeded, HasReply
<1>10. CASE CurrentPasswordReplied
  <2>1. Verified => HasReply
    BY <1>10 DEF CurrentPasswordReplied, Replied, Runs, Verified, Succeeded, HasReply
  <2> QED
    BY <1>10, <2>1, FitOthers DEF CurrentPasswordReplied, Fits
<1>11. CASE Refreshed \/ HistoryReplied \/ PasswordChanged \/ LockReplied \/ ConnectionLost
            \/ ConnectionRefused
  <2>1. AskNothing /\ (section' = section \/ section' = 0)
    BY <1>11 DEF Refreshed, HistoryReplied, PasswordChanged, LockReplied, LogOut,
                 ConnectionLost, ConnectionRefused
  <2> QED
    BY <2>1
<1>12. CASE EditDeposit \/ EditWithdraw \/ EditTransfer \/ RequestConfirmation
  BY <1>12 DEF EditDeposit, EditWithdraw, EditTransfer, RequestConfirmation, Pay
<1>13. CASE DoDeposit
  BY <1>13, FitPayments DEF DoDeposit, Pay, Shell, Fits
<1>14. CASE DoWithdraw
  BY <1>14, FitPayments DEF DoWithdraw, Pay, Shell, Fits
<1>15. CASE DoTransfer
  BY <1>15, FitPayments DEF DoTransfer, Pay, Shell, Fits
<1>16. CASE DepositReplied \/ WithdrawReplied \/ TransferReplied
  <2>1. PICK page, op : Settled(page, op)
    BY <1>16 DEF DepositReplied, WithdrawReplied, TransferReplied
  <2>2. Succeeded => HasReply
    BY <2>1 DEF Settled, Replied, Runs, Succeeded, HasReply
  <2>3. appUsername' = appUsername /\ section' = section
    BY <2>1 DEF Settled
  <2>4. AskNothing \/ Refresh(appUsername)
    BY <2>1 DEF Settled, RefreshAfter
  <2>5. ~AskNothing => Succeeded
    BY <2>1 DEF Settled
  <2> QED
    BY <2>2, <2>3, <2>4, <2>5, FitRefreshes
<1>17. CASE UNCHANGED paymentsVars
  BY <1>17 DEF paymentsVars, terminalVars, ui, pages, AskNothing
<1> HIDE DEF Goal
<1> QED
  BY <1>1, <1>2, <1>3, <1>4, <1>5, <1>6, <1>7, <1>8, <1>9, <1>10, <1>11, <1>12, <1>13, <1>14,
     <1>15, <1>16, <1>17 DEF UiStep, UserStep, PostedStep, PaymentPages

LEMMA UiKinds ==
    ASSUME PayInv, KindsInv, UiStep
    PROVE  KindsInv'
<1>1. /\ made \in Nat /\ made' \in {made, made + 1}
      /\ UNCHANGED <<link, connected, open, events>>
      /\ \A k \in 1 .. made : asked'[k] = asked[k]
  BY UiFrame
<1>2. section' = 1 => section = 1 \/ HasReply
  BY UiFits
<1>3. HasReply => link # "connecting"
  <2>1. seen < Len(events) => seen + 1 \in 1 .. Len(events)
    BY SeqFacts DEF PayInv, TermInv, LineInv, LineTypes
  <2> QED
    BY <2>1 DEF HasReply, KindsInv, IsCall, Event
<1>4. \A k \in 1 .. made' : /\ Fits(asked'[k].page, asked'[k].op)
                            /\ asked'[k].page = "signup" => "signup" \in Forms
                            /\ asked'[k].page \notin EntryPages => link # "connecting"
  <2>1. \A k \in 1 .. made : /\ Fits(asked'[k].page, asked'[k].op)
                             /\ asked'[k].page = "signup" => "signup" \in Forms
                             /\ asked'[k].page \notin EntryPages => link # "connecting"
    BY <1>1 DEF KindsInv
  <2>2. CASE AskNothing
    <3>1. made' = made
      BY <2>2 DEF AskNothing, clientVars
    <3> QED
      BY <2>1, <3>1
  <2>3. CASE ~AskNothing
    <3>1. PICK r : Ask(r) /\ FitRequest(r)
      BY <2>3, UiFits
    <3>2. made' = made + 1 /\ asked'[made'] = r
      BY <3>1, AskLine DEF PayInv, TermInv
    <3>3. /\ Fits(r.page, r.op) /\ (r.page = "signup" => "signup" \in Forms)
          /\ r.page \notin EntryPages => link # "connecting"
      BY <1>3, <3>1 DEF FitRequest, KindsInv
    <3>4. \A k \in 1 .. made' : k \in 1 .. made \/ k = made'
      BY <1>1
    <3> QED
      BY <2>1, <3>2, <3>3, <3>4
  <2> QED
    BY <2>2, <2>3
<1>5. \A e \in 1 .. Len(events) :
         IsCall(e) /\ ~events[e].ok /\ asked'[events[e].id].page \notin EntryPages => Off
  BY <1>1, OldReplies DEF KindsInv
<1> QED
  BY <1>1, <1>2, <1>3, <1>4, <1>5 DEF KindsInv, Off, IsCall

\* A handler is called without a reply when nothing can be sent, or not yet.
LEMMA NetEvents ==
    ASSUME PayInv, Network, NEW e \in 1 .. Len(events'), e \notin 1 .. Len(events),
           events'[e].kind = "call"
    PROVE  /\ events'[e].ok => link' = "up"
           /\ ~events'[e].ok => Off' \/ (link = "connecting" /\ events'[e].id \in 1 .. made)
<1>1. IsSeq(events) /\ IsSeq(posts) /\ Len(events) \in Nat
  BY SeqFacts DEF PayInv, TermInv, LineInv, LineTypes
<1>2. CASE UNCHANGED events
  BY <1>2
<1>3. ASSUME NEW x, events' = Append(events, x)
      PROVE  events'[e] = x
  <2>1. Len(events') = Len(events) + 1 /\ events'[Len(events) + 1] = x
    BY <1>1, <1>3, SeqAppend
  <2>2. e = Len(events) + 1
    BY <1>1, <2>1
  <2> QED
    BY <2>1, <2>2
<1>4. CASE Connect
  <2>1. UNCHANGED events \/ events' = Append(events, Refused)
    BY <1>4 DEF Connect
  <2> QED
    BY <1>2, <1>3, <2>1 DEF Refused
<1>5. CASE RunPost
  <2>1. \/ UNCHANGED events
        \/ ~connected /\ events' = Append(events, Failed(Head(posts)))
    BY <1>5 DEF RunPost
  <2>2. posts # <<>> /\ UNCHANGED <<link, connected>>
    BY <1>5 DEF RunPost
  <2>3. Head(posts) \in 1 .. made
    <3>1. Head(posts) = posts[1] /\ 1 \in 1 .. Len(posts)
      BY <1>1, <2>2, SeqTail, SeqFacts
    <3> QED
      BY <3>1 DEF PayInv, TermInv, LineInv, LineTypes
  <2> QED
    BY <1>2, <1>3, <2>1, <2>2, <2>3 DEF Failed, Called, Off
<1>6. CASE Receive
  <2>1. /\ link' = "up"
        /\ \/ UNCHANGED events
           \/ events' = Append(events, Called(NextHandler, TRUE, outbox[got']))
    BY <1>6 DEF Receive
  <2> QED
    BY <1>2, <1>3, <2>1 DEF Called
<1>7. CASE WriteFails
  <2>1. events' = events \o Notice
    BY <1>7 DEF WriteFails
  <2>2. CASE hook = "installed"
    <3>1. events' = Append(events, Lost)
      BY <1>1, <2>1, <2>2, OneMore DEF Notice
    <3> QED
      BY <1>3, <3>1 DEF Lost
  <2>3. CASE hook # "installed"
    <3>1. Len(events') = Len(events)
      BY <1>1, <2>1, <2>3, NoMore, SeqConcat DEF Notice
    <3> QED
      BY <3>1
  <2> QED
    BY <2>2, <2>3
<1>8. CASE ReceiveFails
  <2>1. Off'
    BY <1>8 DEF ReceiveFails, Off
  <2>2. ~events'[e].ok
    <3>1. IsSeq(Notice)
      BY <1>1, OneMore, NoMore DEF Notice
    <3>2. IsSeq(FailPending) /\ \A k \in 1 .. Len(FailPending) : ~FailPending[k].ok
      <4>1. IsSeq(pending)
        BY DEF PayInv, TermInv, LineInv, LineTypes
      <4>2. Len(pending) \in Nat
        BY <4>1, SeqFacts
      <4>3. FailPending \in Seq({FailPending[k] : k \in 1 .. Len(pending)})
        BY <4>2 DEF FailPending
      <4>4. Len(FailPending) = Len(pending)
        BY <4>2 DEF FailPending
      <4>5. \A k \in 1 .. Len(pending) : FailPending[k] = Failed(pending[k])
        BY DEF FailPending
      <4>6. IsSeq(FailPending)
        BY <4>3, AnySeq
      <4>7. \A id : ~Failed(id).ok
        BY DEF Failed, Called
      <4>8. \A k \in 1 .. Len(pending) : ~FailPending[k].ok
        BY <4>5, <4>7
      <4> QED
        BY <4>4, <4>6, <4>8
    <3>3. IsSeq(events \o Notice)
      BY <1>1, <3>1, SeqConcat
    <3>4. events' = (events \o Notice) \o FailPending
      BY <1>8 DEF ReceiveFails
    <3> DEFINE n == Len(events \o Notice)
    <3>5. /\ n \in Nat /\ Len(FailPending) \in Nat
          /\ Len(events') = n + Len(FailPending)
          /\ \A k \in 1 .. n : events'[k] = (events \o Notice)[k]
          /\ \A k \in 1 .. Len(FailPending) : events'[n + k] = FailPending[k]
      BY <3>2, <3>3, <3>4, SeqConcat, SeqFacts
    <3>6. CASE e \in 1 .. n
      <4>1. events'[e].kind # "call"
        <5>1. CASE hook = "installed"
          <6>1. events \o Notice = Append(events, Lost)
            BY <1>1, <5>1, OneMore DEF Notice
          <6>2. /\ Len(Append(events, Lost)) = Len(events) + 1
                /\ Append(events, Lost)[Len(events) + 1] = Lost
            BY <1>1, SeqAppend
          <6>3. e = Len(events) + 1
            BY <1>1, <3>6, <6>1, <6>2
          <6> QED
            BY <3>5, <3>6, <6>1, <6>2, <6>3 DEF Lost
        <5>2. CASE hook # "installed"
          <6>1. n = Len(events)
            BY <1>1, <5>2, NoMore, SeqConcat DEF Notice
          <6> QED
            BY <3>6, <6>1
        <5> QED
          BY <5>1, <5>2
      <4> QED
        BY <4>1
    <3>7. CASE e \notin 1 .. n
      <4>1. e - n \in 1 .. Len(FailPending) /\ n + (e - n) = e
        BY <3>5, <3>7
      <4> QED
        BY <3>2, <3>5, <4>1
    <3> QED
      BY <3>6, <3>7
  <2> QED
    BY <2>1, <2>2
<1>9. OnDisconnect \/ Write \/ Take \/ ServerCloses => UNCHANGED events
  BY DEF OnDisconnect, Write, Take, ServerCloses, io
<1> QED
  BY <1>2, <1>4, <1>5, <1>6, <1>7, <1>8, <1>9 DEF Network, IoStep

\* A link that has been tried is tried no more, and a client whose server has
\* kept its side open is connected.
LEMMA NetLinks ==
    ASSUME Network, KindsInv
    PROVE  /\ link # "connecting" => link' # "connecting"
           /\ link' = "up" /\ open' => connected'
<1> DEFINE Goal == /\ link # "connecting" => link' # "connecting"
                   /\ link' = "up" /\ open' => connected'
<1>0. link = "up" /\ open => connected
  BY DEF KindsInv
<1>1. Connect \/ WriteFails \/ ReceiveFails => Goal
  BY <1>0 DEF Connect, WriteFails, ReceiveFails, server
<1>2. ASSUME OnDisconnect \/ Take \/ ServerCloses \/ RunPost \/ Write \/ Receive
      PROVE  Goal
  <2>1. UNCHANGED <<link, connected>>
    BY <1>2 DEF OnDisconnect, Take, ServerCloses, RunPost, Write, Receive, io
  <2>2. UNCHANGED open \/ open' = FALSE
    BY <1>2 DEF OnDisconnect, Take, ServerCloses, RunPost, Write, Receive, server
  <2> QED
    BY <1>0, <2>1, <2>2
<1> HIDE DEF Goal
<1>3. Goal
  BY <1>1, <1>2 DEF Network, IoStep
<1> QED
  BY <1>3 DEF Goal

LEMMA KindsStep ==
    ASSUME PayInv, KindsInv, [PaymentsNext]_paymentsVars
    PROVE  KindsInv'
<1>1. CASE UiStep
  BY <1>1, UiKinds
<1>2. CASE Execute \/ ExecutePayment \/ ServedElsewhere
  <2>1. UNCHANGED <<asked, made, link, connected, open, section, events>>
    BY <1>2, ExecFrame, OthersFrame
  <2> QED
    BY <2>1 DEF KindsInv, IsCall, Off
<1>3. CASE Network
  <2>1. UNCHANGED <<asked, made, section>> /\ Settles
    BY <1>3, NetFrame
  <2>2. \A e \in 1 .. Len(events) : events'[e] = events[e]
    BY <2>1 DEF Settles
  <2>3. /\ link # "connecting" => link' # "connecting"
        /\ link' = "up" /\ open' => connected'
    BY <1>3, NetLinks
  <2>4. ASSUME NEW e \in 1 .. Len(events'), events'[e].kind = "call", events'[e].ok
        PROVE  link' # "connecting"
    BY <1>3, <2>2, <2>3, <2>4, NetEvents DEF KindsInv, IsCall
  <2>5. ASSUME NEW e \in 1 .. Len(events'), events'[e].kind = "call", ~events'[e].ok,
               asked[events'[e].id].page \notin EntryPages
        PROVE  Off'
    BY <1>3, <2>1, <2>2, <2>5, NetEvents DEF KindsInv, IsCall, Settles
  <2> QED
    BY <2>1, <2>3, <2>4, <2>5 DEF KindsInv, IsCall
<1> QED
  BY <1>1, <1>2, <1>3, Steps

-----------------------------------------------------------------------------
(* What a request does to each account, and what its reply says of them.   *)

Moves(r) == r.op \in {"change", "transfer"} /\ reply' = Bool(TRUE)

\* Only a toggle locks or unlocks, only a payment that went through moves
\* money, and whom the server admits has an account that is not locked.
Effects(r) ==
    /\ \A v \in DOMAIN data :
          /\ v \in DOMAIN data'
          /\ data'[v].isLocked = data[v].isLocked \/ (r.op = "toggle" /\ v = r.user)
          /\ Kept(data[v], data'[v]) \/ (Moves(r) /\ data'[v].txns # <<>>)
    /\ \A v \in DOMAIN data' :
          v \notin DOMAIN data => r.op = "create" /\ data'[v].txns # <<>>
    /\ Admits(r) => r.user \in DOMAIN data' /\ ~data'[r.user].isLocked

HasLocks(d) == \A v \in DOMAIN d : "isLocked" \in DOMAIN d[v]
SameLocks(d, e) == DOMAIN e = DOMAIN d /\ \A v \in DOMAIN d : e[v].isLocked = d[v].isLocked

LEMMA FieldSet ==
    ASSUME NEW d, HasLocks(d), NEW u, NEW f \in {"balance", "txns"}, NEW x,
           NEW e, e = [d EXCEPT ![u] = [d[u] EXCEPT ![f] = x]]
    PROVE  HasLocks(e) /\ SameLocks(d, e)
<1>1. DOMAIN e = DOMAIN d /\ \A v \in DOMAIN d :
          e[v] = IF v = u THEN [d[u] EXCEPT ![f] = x] ELSE d[v]
  OBVIOUS
<1>2. u \in DOMAIN d => "isLocked" \in DOMAIN d[u]
  BY DEF HasLocks
<1>3. u \in DOMAIN d => "isLocked" \in DOMAIN e[u] /\ e[u].isLocked = d[u].isLocked
  BY <1>1, <1>2
<1> QED
  BY <1>1, <1>3 DEF HasLocks, SameLocks

LEMMA TransferLocks ==
    ASSUME HasLocks(data), NEW s, NEW r, NEW m
    PROVE  SameLocks(data, LogTransfer(MoveMoney(data, s, r, m), s, r, m))
<1> DEFINE debited == [data EXCEPT ![s].balance = Wrap(@ - m)]
           moved == MoveMoney(data, s, r, m)
           out == Txn("transfer_out", r, m, moved[s].balance)
           in == Txn("transfer_in", s, m, moved[r].balance)
           sent == AppendTxn(moved, s, out)
           logged == AppendTxn(sent, r, in)
<1>1. HasLocks(debited) /\ SameLocks(data, debited)
  BY FieldSet
<1>2. HasLocks(moved) /\ SameLocks(debited, moved)
  <2>1. moved = [debited EXCEPT ![r].balance = Wrap(@ + m)]
    BY DEF MoveMoney
  <2> HIDE DEF debited, moved
  <2> QED
    BY <1>1, <2>1, FieldSet
<1> HIDE DEF moved, debited
<1>3. HasLocks(sent) /\ SameLocks(moved, sent)
  BY <1>2, FieldSet DEF AppendTxn
<1> HIDE DEF sent
<1>4. HasLocks(logged) /\ SameLocks(sent, logged)
  BY <1>3, FieldSet DEF AppendTxn
<1>5. logged = LogTransfer(MoveMoney(data, s, r, m), s, r, m)
  BY DEF LogTransfer, sent, moved
<1> HIDE DEF logged
<1> QED
  BY <1>1, <1>2, <1>3, <1>4, <1>5 DEF SameLocks

\* What changes nothing, and what is refused, admits nobody.
LEMMA NoEffect ==
    ASSUME NEW r, UNCHANGED data, ~Admits(r)
    PROVE  Effects(r)
BY DEF Effects, Kept

LEMMA RefuseEffect ==
    ASSUME NEW r, Refuse
    PROVE  Effects(r)
<1>1. ~Admits(r) /\ UNCHANGED data
  BY DEF Refuse, Admits, Bool
<1> QED
  BY <1>1, NoEffect

LEMMA AnswerEffect ==
    ASSUME NEW r, r.op \notin {"auth", "create"}, NEW kind, NEW v, Answer(kind, v)
    PROVE  Effects(r)
BY NoEffect DEF Admits, Answer

LEMMA AuthenticateEffect ==
    ASSUME NEW r, r.op = "auth", Authenticate(r.user, r.password)
    PROVE  Effects(r)
<1> DEFINE ok == Open(r.user) /\ Verifies(r.password, data[r.user].password)
<1>1. UNCHANGED data /\ reply' = [kind |-> "bool", value |-> ok]
  BY DEF Authenticate, MayEnter, Answer
<1>2. CASE ok
  BY <1>1, <1>2 DEF Effects, Kept, Open, Exists
<1>3. CASE ~ok
  <2>1. reply'.value # TRUE
    BY <1>1, <1>3
  <2>2. Bool(TRUE).value = TRUE
    BY DEF Bool
  <2>3. ~Admits(r)
    BY <2>1, <2>2 DEF Admits
  <2> QED
    BY <1>1, <2>3, NoEffect
<1> QED
  BY <1>2, <1>3

LEMMA CreateEffect ==
    ASSUME NEW r, r.op = "create", CreateAccount(r.user, r.password)
    PROVE  Effects(r)
<1>1. CASE ~CanCreate(r.user)
  BY <1>1, RefuseEffect DEF CreateAccount
<1>2. CASE CanCreate(r.user)
  <2>1. /\ DOMAIN data' = DOMAIN data \cup {r.user} /\ r.user \notin DOMAIN data
        /\ \A v \in DOMAIN data : data'[v] = data[v]
        /\ data'[r.user].isLocked = FALSE
        /\ data'[r.user].txns = <<Txn("deposit", NoOne, DefaultBalance, DefaultBalance)>>
    <3> DEFINE opened ==
                  [password |-> Hashed(r.password), balance |-> DefaultBalance,
                   isLocked |-> FALSE,
                   txns |-> <<Txn("deposit", NoOne, DefaultBalance, DefaultBalance)>>]
    <3>1. data' = [u \in DOMAIN data \cup {r.user} |->
                      IF u = r.user THEN opened ELSE data[u]]
      BY <1>2 DEF CreateAccount, Commit
    <3>2. /\ opened.isLocked = FALSE
          /\ opened.txns = <<Txn("deposit", NoOne, DefaultBalance, DefaultBalance)>>
      OBVIOUS
    <3> HIDE DEF opened
    <3> QED
      BY <1>2, <3>1, <3>2 DEF CanCreate, Exists
  <2>2. data'[r.user].txns # <<>>
    BY <2>1
  <2> QED
    BY <2>1, <2>2 DEF Effects, Kept
<1> QED
  BY <1>1, <1>2

\* The fields a new password or lock bit leaves alone.
LEMMA FieldEffect ==
    ASSUME TypeOK, NEW r, r.op \notin {"auth", "create"}, NEW x,
           \/ r.op = "toggle" /\ data' = [data EXCEPT ![r.user].isLocked = x]
           \/ data' = [data EXCEPT ![r.user].password = x]
    PROVE  Effects(r)
<1>1. \A v \in DOMAIN data : data[v] \in UserState
  BY DEF TypeOK, IsAccounts
<1>2. ~Admits(r)
  BY DEF Admits
<1>3. DOMAIN data' = DOMAIN data
  OBVIOUS
<1>4. ASSUME NEW v \in DOMAIN data
      PROVE  /\ data'[v].isLocked = data[v].isLocked \/ (r.op = "toggle" /\ v = r.user)
             /\ Kept(data[v], data'[v])
  BY <1>1 DEF Kept, UserState
<1> QED
  BY <1>2, <1>3, <1>4 DEF Effects

LEMMA PasswordEffect ==
    ASSUME TypeOK, NEW r, r.op = "password", ChangePassword(r.user, r.password)
    PROVE  Effects(r)
BY RefuseEffect, FieldEffect DEF ChangePassword, Commit

LEMMA ToggleEffect ==
    ASSUME TypeOK, NEW r, r.op = "toggle", ToggleAccount(r.user)
    PROVE  Effects(r)
<1>1. CASE Refuse
  BY <1>1, RefuseEffect
<1>2. CASE ~Refuse
  <2>1. data' = [data EXCEPT ![r.user].isLocked = ~data[r.user].isLocked]
    BY <1>2 DEF ToggleAccount, Commit
  <2> QED
    BY <2>1, FieldEffect
<1> QED
  BY <1>1, <1>2

LEMMA MoreRecords ==
    ASSUME NEW s \in Seq(TransactionRecord), NEW t \in TransactionRecord
    PROVE  Append(s, t) # <<>>
BY AppendProperties

LEMMA ChangeEffect ==
    ASSUME TypeOK, NEW r, WellAsked(r), r.op = "change", ChangeBalance(r.user, r.amount)
    PROVE  Effects(r)
<1>1. CASE ~CanChange(r.user, r.amount)
  BY <1>1, RefuseEffect DEF ChangeBalance
<1>2. CASE CanChange(r.user, r.amount)
  <2> DEFINE newBal == Wrap(data[r.user].balance + r.amount)
             changed == [data EXCEPT ![r.user].balance = newBal]
  <2>1. PICK t : data' = AppendTxn(changed, r.user, t) /\ reply' = Bool(TRUE)
    BY <1>2 DEF ChangeBalance, Commit
  <2>2. HasLocks(data)
    BY DEF TypeOK, IsAccounts, UserState, HasLocks
  <2>3. HasLocks(changed) /\ SameLocks(data, changed)
    BY <2>2, FieldSet
  <2> HIDE DEF changed
  <2>4. SameLocks(changed, data')
    BY <2>1, <2>3, FieldSet DEF AppendTxn
  <2>5. Moves(r) /\ ~Admits(r)
    BY <2>1 DEF Moves, Admits
  <2>6. PICK x \in TransactionRecord :
            /\ data'[r.user].txns = Append(data[r.user].txns, x)
            /\ \A v \in DOMAIN data \ {r.user} : data'[v] = data[v]
    BY <1>2, ChangeHistories DEF WellAsked
  <2>7. r.user \in DOMAIN data => data'[r.user].txns # <<>>
    BY <2>6, MoreRecords DEF TypeOK, IsAccounts, UserState
  <2> QED
    BY <2>3, <2>4, <2>5, <2>6, <2>7 DEF Effects, SameLocks, Kept
<1> QED
  BY <1>1, <1>2

LEMMA TransferEffect ==
    ASSUME TypeOK, NEW r, WellAsked(r), r.op = "transfer",
           TransferBalance(r.user, r.recipient, r.amount)
    PROVE  Effects(r)
<1>1. CASE ~CanTransfer(r.user, r.recipient, r.amount)
  BY <1>1, RefuseEffect DEF TransferBalance
<1>2. CASE CanTransfer(r.user, r.recipient, r.amount)
  <2>1. PICK s, t, m : s = r.user /\ t = r.recipient /\ m = r.amount
    OBVIOUS
  <2>2. /\ data' = LogTransfer(MoveMoney(data, s, t, m), s, t, m) /\ reply' = Bool(TRUE)
        /\ CanTransfer(s, t, m) /\ m \in U64
    BY <1>2, <2>1 DEF TransferBalance, Commit, WellAsked
  <2>3. HasLocks(data)
    BY DEF TypeOK, IsAccounts, UserState, HasLocks
  <2>4. SameLocks(data, data')
    BY <2>2, <2>3, TransferLocks
  <2>5. Moves(r) /\ ~Admits(r)
    BY <2>2 DEF Moves, Admits
  <2>6. PICK out \in TransactionRecord, in \in TransactionRecord :
            /\ s # t => /\ data'[s].txns = Append(data[s].txns, out)
                        /\ data'[t].txns = Append(data[t].txns, in)
            /\ s = t => data'[s].txns = Append(Append(data[s].txns, out), in)
    BY <2>2, TransferHistories
  <2>7. \A v \in DOMAIN data : v \notin {s, t} => data'[v] = data[v]
    BY <2>2, TransferHistories
  <2>8. ASSUME NEW v \in DOMAIN data, v \in {s, t}
        PROVE  data'[v].txns # <<>>
    <3>1. data[v].txns \in Seq(TransactionRecord)
      BY DEF TypeOK, IsAccounts, UserState
    <3>2. \/ data'[v].txns = Append(data[v].txns, out)
          \/ data'[v].txns = Append(data[v].txns, in)
          \/ data'[v].txns = Append(Append(data[v].txns, out), in)
      BY <2>6, <2>8
    <3>3. Append(data[v].txns, out) \in Seq(TransactionRecord)
      BY <3>1, AppendProperties
    <3> QED
      BY <3>1, <3>2, <3>3, MoreRecords
  <2> QED
    BY <2>4, <2>5, <2>7, <2>8 DEF Effects, SameLocks, Kept
<1> QED
  BY <1>1, <1>2

LEMMA RequestEffects ==
    ASSUME TypeOK, NEW r, WellAsked(r), Performs(r)
    PROVE  Effects(r) /\ Extends(data, data')
<1>1. Extends(data, data')
  BY PerformsOperation, StepKeepsOrAppends
<1>2. CASE \/ r.op = "history" /\ GetTransactions(r.user, 5)
           \/ r.op = "recent" /\ GetTransactions(r.user, 100)
  BY <1>1, <1>2, AnswerEffect DEF GetTransactions
<1>3. CASE \/ r.op = "auth" /\ Authenticate(r.user, r.password)
           \/ r.op = "create" /\ CreateAccount(r.user, r.password)
  BY <1>1, <1>3, AuthenticateEffect, CreateEffect
<1>4. CASE \/ r.op = "password" /\ ChangePassword(r.user, r.password)
           \/ r.op = "toggle" /\ ToggleAccount(r.user)
  BY <1>1, <1>4, PasswordEffect, ToggleEffect
<1>5. CASE \/ r.op = "change" /\ ChangeBalance(r.user, r.amount)
           \/ r.op = "transfer" /\ TransferBalance(r.user, r.recipient, r.amount)
  BY <1>1, <1>5, ChangeEffect, TransferEffect
<1> QED
  BY <1>1, <1>2, <1>3, <1>4, <1>5 DEF Performs, Perform

\* What is done for another session is done as if it had been asked for here.
LEMMA OthersAct ==
    ASSUME PayInv, ServedElsewhere
    PROVE  \E r : Effects(r)
<1>1. TypeOK /\ Next /\ data' # data
  BY DEF PayInv, IInv, ServedElsewhere
<1> DEFINE Plain(op, u, p) == Request("settings", op, u, p)
           Paying(op, u, to, m) == Payment("deposit", op, u, to, m)
<1>2. ASSUME NEW u \in Users, NEW p \in Passwords, ChangePassword(u, p)
      PROVE  \E r : WellAsked(r) /\ Performs(r)
  <2> DEFINE r == Plain("password", u, p)
  <2>1. r.page = "settings" /\ r.op = "password" /\ r.user = u /\ r.password = p
    BY DEF Request
  <2> HIDE DEF r
  <2> QED
    BY <1>2, <2>1 DEF WellAsked, UserNames, Performs, Perform
<1>3. ASSUME NEW u \in Users, NEW p \in Passwords, CreateAccount(u, p)
      PROVE  \E r : WellAsked(r) /\ Performs(r)
  <2> DEFINE r == Plain("create", u, p)
  <2>1. r.page = "settings" /\ r.op = "create" /\ r.user = u /\ r.password = p
    BY DEF Request
  <2> HIDE DEF r
  <2> QED
    BY <1>3, <2>1 DEF WellAsked, UserNames, Performs, Perform
<1>4. ASSUME NEW u \in Users, ToggleAccount(u)
      PROVE  \E r : WellAsked(r) /\ Performs(r)
  <2> DEFINE r == Plain("toggle", u, Empty)
  <2>1. r.page = "settings" /\ r.op = "toggle" /\ r.user = u
    BY DEF Request
  <2> HIDE DEF r
  <2> QED
    BY <1>4, <2>1 DEF WellAsked, UserNames, Performs, Perform
<1>5. ASSUME NEW u \in Users, NEW c \in Changes, ChangeBalance(u, c)
      PROVE  \E r : WellAsked(r) /\ Performs(r)
  <2> DEFINE r == Paying("change", u, NoOne, c)
  <2>1. r.page = "deposit" /\ r.op = "change" /\ r.user = u /\ r.amount = c
    BY DEF Payment
  <2>2. c \in I64
    BY InputsAssumption
  <2> HIDE DEF r
  <2> QED
    BY <1>5, <2>1, <2>2 DEF WellAsked, UserNames, Performs
<1>6. ASSUME NEW s \in Users, NEW t \in Users, NEW m \in Amounts, TransferBalance(s, t, m)
      PROVE  \E r : WellAsked(r) /\ Performs(r)
  <2> DEFINE r == Paying("transfer", s, t, m)
  <2>1. r.page = "deposit" /\ r.op = "transfer" /\ r.user = s /\ r.recipient = t /\ r.amount = m
    BY DEF Payment
  <2>2. m \in U64
    BY InputsAssumption
  <2> HIDE DEF r
  <2> QED
    BY <1>6, <2>1, <2>2 DEF WellAsked, UserNames, Performs
<1>7. \/ \E u \in Users, p \in Passwords : ChangePassword(u, p) \/ CreateAccount(u, p)
      \/ \E u \in Users : ToggleAccount(u)
      \/ \E u \in Users, c \in Changes : ChangeBalance(u, c)
      \/ \E s, t \in Users, m \in Amounts : TransferBalance(s, t, m)
  BY <1>1 DEF Next, Authenticate, GetBalance, GetTransactions, SearchUsers, Answer
<1>8. \E r : WellAsked(r) /\ Performs(r)
  BY <1>2, <1>3, <1>4, <1>5, <1>6, <1>7
<1> QED
  BY <1>1, <1>8, RequestEffects

\* Whether the newest record tells the balance: an account without records is
\* shown with a balance of 0.  An account that is locked counts only if other
\* sessions may unlock it.
Tells(a) == NewestBalance(a.txns) = a.balance
SeedTells == \A u \in DOMAIN Seed : (Seed[u].isLocked /\ MaxOthers = 0) \/ Tells(Seed[u])

\* An account that can be shown, if those found at the start can.
Shows(u) == u \in DOMAIN data /\ (SeedTells => Tells(data[u]))

LEMMA EffectsTell ==
    ASSUME IInv', NEW r, Effects(r), NEW u \in DOMAIN data
    PROVE  Kept(data[u], data'[u]) \/ (u \in DOMAIN data' /\ Tells(data'[u]))
<1>1. \A v \in DOMAIN data' : data'[v].txns # <<>> => Tells(data'[v])
  BY DEF IInv, IsSound, IsSoundAccount, AgreesWithBalance, Tells, NewestBalance
<1> QED
  BY <1>1 DEF Effects

LEMMA ShownStay ==
    ASSUME IInv', NEW r, Effects(r), NEW u, Shows(u)
    PROVE  Shows(u)'
<1>1. u \in DOMAIN data /\ u \in DOMAIN data'
  BY DEF Shows, Effects
<1>2. SeedTells => Tells(data'[u])
  BY <1>1, EffectsTell DEF Shows, Tells, Kept
<1> QED
  BY <1>1, <1>2 DEF Shows, SeedTells

-----------------------------------------------------------------------------
(* A login or a sign-up that is under way is for the name in its form.     *)

FormName(page) == IF page = "login" THEN login.user ELSE signup.user
SameNames == login'.user = login.user /\ signup'.user = signup.user

EntryNamed ==
    ~Off => \A i \in Waiting(EntryPages) : asked[i].user = FormName(asked[i].page)

LEMMA EnterAsks ==
    ASSUME FieldsInv, DoLogin \/ DoCreateAccount
    PROVE  SameNames /\ (AskNothing \/ \E r : Ask(r) /\ r.user = FormName(r.page))
<1>1. SameNames
  BY DEF SameNames, FieldsInv, DoLogin, DoCreateAccount
<1>2. ASSUME NEW page, NEW op, NEW password, Ask(Request(page, op, FormName(page), password))
      PROVE  \E r : Ask(r) /\ r.user = FormName(r.page)
  <2> DEFINE r == Request(page, op, FormName(page), password)
  <2>1. r.page = page /\ r.user = FormName(page)
    BY DEF Request
  <2>2. Ask(r)
    BY <1>2
  <2> QED
    BY <2>1, <2>2
<1>3. CASE DoLogin
  <2>1. AskNothing \/ Ask(Request("login", "auth", FormName("login"), login.password))
    BY <1>3 DEF DoLogin, FormName
  <2> QED
    BY <1>1, <1>2, <2>1
<1>4. CASE DoCreateAccount
  <2>1. Ask(Request("signup", "create", FormName("signup"), signup.password))
    BY <1>4 DEF DoCreateAccount, FormName
  <2> QED
    BY <1>1, <1>2, <2>1
<1> QED
  BY <1>3, <1>4

LEMMA OthersStayOut ==
    ASSUME UiStep, ~DoLogin, ~DoCreateAccount
    PROVE  AskNothing \/ \E r : Ask(r) /\ r.page \notin EntryPages
<1>1. CASE PaymentPages
  BY <1>1, PaymentsAsk DEF Watched
<1>2. CASE UNCHANGED paymentsVars
  BY <1>2 DEF paymentsVars, terminalVars, ui, AskNothing
<1>3. CASE UserStep \/ PostedStep
  <2>1. \/ AskNothing
        \/ \E user : Refresh(user)
        \/ \E page, op, user, password : /\ page \notin EntryPages
                                         /\ Ask(Request(page, op, user, password))
    BY <1>3 DEF EntryPages, UserStep, PostedStep, EditLogin, EditSignup,
           DoRefresh, DoHistory, EditSettings, DoChangePassword, ToggleLockConfirm,
           DoLockAccount, DoLogout, Exit, LoginReplied, SignupReplied, Refreshed,
           HistoryReplied, CurrentPasswordReplied, PasswordChanged, LockReplied,
           ConnectionLost, ConnectionRefused
  <2>2. ASSUME NEW page, NEW op, NEW user, NEW password, page \notin EntryPages,
               Ask(Request(page, op, user, password))
        PROVE  \E r : Ask(r) /\ r.page \notin EntryPages
    <3>1. Request(page, op, user, password).page = page
      BY DEF Request
    <3> QED
      BY <2>2, <3>1
  <2>3. ASSUME NEW user, Refresh(user)
        PROVE  \E r : Ask(r) /\ r.page \notin EntryPages
    BY <2>3, RefreshAsks DEF Watched
  <2> QED
    BY <2>1, <2>2, <2>3
<1> QED
  BY <1>1, <1>2, <1>3 DEF UiStep

\* The forms are edited or cleared when nobody waits for them.
LEMMA NamesStay ==
    ASSUME Patient, PayInv, UiStep
    PROVE  Off \/ Waiting(EntryPages) = {} \/ SameNames
<1>1. LineInv /\ FieldsInv /\ EntryInv /\ SettingsInv
  BY DEF PayInv, TermInv, PagesInv
<1>2. section = 1 => Off \/ Waiting(EntryPages) = {}
  BY <1>1 DEF EntryInv
<1>3. CASE DoLogin \/ DoCreateAccount
  BY <1>1, <1>3, EnterAsks
<1>4. CASE EditLogin \/ EditSignup
  <2>1. ~login.loading /\ ~signup.loading
    BY <1>4 DEF EditLogin, EditSignup, MayTouch
  <2> QED
    BY <1>1, <2>1 DEF EntryInv, Spins
<1>5. CASE DoLogout
  BY <1>2, <1>5 DEF DoLogout, MayPress
<1>6. CASE LockReplied
  <2>1. Event.id \in Waiting({"settings"})
    BY <1>1, <1>6, RunEnds DEF LockReplied
  <2>2. section = 1 \/ Off
    BY <1>1, <2>1 DEF SettingsInv, FieldsInv
  <2> QED
    BY <1>2, <2>2
<1>7. CASE ConnectionLost
  <2>1. seen + 1 \in 1 .. Len(events) /\ events[seen + 1].kind = "lost"
    <3>1. seen < Len(events) /\ events[seen + 1].kind = "lost"
      BY <1>7 DEF ConnectionLost, Runs, Event
    <3> QED
      BY <1>1, <3>1, SeqFacts DEF LineInv, LineTypes
  <2> QED
    BY <1>1, <2>1 DEF LineInv, LostMeansOff
<1>8. CASE DoRefresh \/ DoHistory \/ EditSettings \/ DoChangePassword \/ ToggleLockConfirm
           \/ DoLockAccount \/ Exit \/ LoginReplied \/ SignupReplied \/ Refreshed \/ HistoryReplied
           \/ CurrentPasswordReplied \/ PasswordChanged \/ ConnectionRefused
  <2>1. login'.user = login.user
    BY <1>1, <1>8 DEF FieldsInv, DoRefresh, DoHistory, EditSettings, DoChangePassword,
           ToggleLockConfirm, DoLockAccount, Exit, LoginReplied, SignupReplied, Refreshed,
           HistoryReplied, CurrentPasswordReplied, PasswordChanged, ConnectionRefused
  <2>2. signup'.user = signup.user
    BY <1>1, <1>8 DEF FieldsInv, DoRefresh, DoHistory, EditSettings, DoChangePassword,
           ToggleLockConfirm, DoLockAccount, Exit, LoginReplied, SignupReplied, Refreshed,
           HistoryReplied, CurrentPasswordReplied, PasswordChanged, ConnectionRefused
  <2> QED
    BY <2>1, <2>2 DEF SameNames
<1>9. CASE PaymentPages \/ UNCHANGED paymentsVars
  <2>1. UNCHANGED <<login, signup>>
    BY <1>9, PaymentsAsk DEF paymentsVars, terminalVars, ui, pages
  <2> QED
    BY <2>1 DEF SameNames
<1> QED
  BY <1>3, <1>4, <1>5, <1>6, <1>7, <1>8, <1>9 DEF UiStep, UserStep, PostedStep

LEMMA NamedStep ==
    ASSUME Patient, PayInv, EntryNamed, [PaymentsNext]_paymentsVars
    PROVE  EntryNamed'
<1>1. LineInv /\ FieldsInv
  BY DEF PayInv, TermInv
<1>2. CASE ~UiStep
  <2>1. UNCHANGED <<asked, made, login, signup>> /\ Settles
    BY <1>2, ExecFrame, NetFrame, OthersFrame, Steps
  <2>2. Waiting(EntryPages)' \subseteq Waiting(EntryPages) /\ (Off => Off')
    BY <2>1 DEF Waiting, Settles
  <2>3. \A page : FormName(page)' = FormName(page)
    BY <2>1 DEF FormName
  <2> QED
    BY <2>1, <2>2, <2>3 DEF EntryNamed
<1>3. CASE UiStep
  <2> SUFFICES ASSUME ~Off', NEW i \in Waiting(EntryPages)'
               PROVE  (asked[i].user = FormName(asked[i].page))'
    BY DEF EntryNamed
  <2>1. /\ MayRun /\ MayAsk /\ made \in Nat
    BY <1>1, <1>3, UiAsks DEF MayAsk, LineInv, LineTypes
  <2>2. /\ Off' = Off /\ made' \in {made, made + 1} /\ i \in 1 .. made'
        /\ asked'[i].page \in EntryPages
        /\ \A id \in 1 .. made : asked'[id] = asked[id] /\ (Awaited(id)' => Awaited(id))
    BY <1>1, <2>1, UiLine DEF Waiting
  <2>3. CASE i \in 1 .. made
    <3>1. i \in Waiting(EntryPages) /\ asked'[i] = asked[i]
      BY <2>2, <2>3 DEF Waiting
    <3>2. SameNames
      BY <1>3, <2>2, <3>1, NamesStay
    <3> QED
      BY <2>2, <3>1, <3>2 DEF EntryNamed, FormName, SameNames
  <2>4. CASE i \notin 1 .. made
    <3>1. i = made + 1 /\ made' = made + 1
      BY <2>1, <2>2, <2>4
    <3>2. ~AskNothing
      BY <2>1, <3>1 DEF AskNothing, clientVars
    <3>3. \A r : Ask(r) => asked'[i] = r
      BY <1>1, <3>1, AskLine
    <3>4. DoLogin \/ DoCreateAccount
      BY <1>3, <2>2, <3>2, <3>3, OthersStayOut
    <3>5. PICK r : Ask(r) /\ r.user = FormName(r.page) /\ SameNames
      BY <1>1, <3>2, <3>4, EnterAsks
    <3> QED
      BY <3>3, <3>5 DEF FormName, SameNames
  <2> QED
    BY <2>3, <2>4
<1> QED
  BY <1>2, <1>3

-----------------------------------------------------------------------------
(* Whoever is let in has an account that can be shown.                     *)

Admitted(j) == asked[To(j)].page \in EntryPages /\ outbox[j].says = Bool(TRUE)

\* This terminal unlocks an account only for one who has entered it; and while a
\* reply that lets somebody in is on its way, nobody but another session locks
\* the account.
OpenHere(u) == data[u].isLocked => u \in elsewhere.turned
LoginsInv ==
    /\ \A u \in DOMAIN data : ~data[u].isLocked \/ MaxOthers > 0 => Shows(u)
    /\ \A j \in 1 .. Len(outbox) : Admitted(j) =>
          /\ Shows(asked[To(j)].user)
          /\ ~Off /\ Awaited(To(j)) => OpenHere(asked[To(j)].user)
    /\ ~Off /\ section = 1 => Shows(appUsername)
    /\ ~Off => \A k \in 1 .. made : asked[k].op = "toggle" => Shows(asked[k].user)

\* One gets past the entry pages by the reply to one of them, under the name in
\* its form.
LEMMA UiEnters ==
    ASSUME FieldsInv, UiStep, section' = 1, section # 1 \/ appUsername' # appUsername
    PROVE  \E page \in EntryPages : \E op :
              /\ Replied(page, op) /\ Succeeded /\ appUsername' = FormName(page)
              /\ AskNothing \/ \E r : Ask(r) /\ r.page # page
<1> DEFINE Same == UNCHANGED <<section, appUsername>> \/ section' = 0
<1>1. CASE DoLogin \/ DoCreateAccount \/ EditLogin \/ EditSignup \/ EditSettings \/ DoRefresh
           \/ DoHistory \/ DoChangePassword \/ ToggleLockConfirm \/ DoLockAccount \/ DoLogout
           \/ Exit
  <2>1. Same
    BY <1>1 DEF DoLogin, DoCreateAccount, EditLogin, EditSignup, EditSettings, DoRefresh,
        DoHistory, DoChangePassword, ToggleLockConfirm, DoLockAccount, DoLogout, Exit, LogOut
  <2> QED
    BY <2>1
<1>2. CASE Refreshed \/ HistoryReplied \/ CurrentPasswordReplied \/ PasswordChanged
           \/ LockReplied \/ ConnectionLost \/ ConnectionRefused
  <2>1. Same
    BY <1>2 DEF Refreshed, HistoryReplied, CurrentPasswordReplied, PasswordChanged,
                LockReplied, ConnectionLost, ConnectionRefused, LogOut
  <2> QED
    BY <2>1
<1>3. CASE LoginReplied
  <2>1. Replied("login", "auth") /\ Succeeded
    BY <1>3 DEF LoginReplied
  <2>2. Refresh(appUsername') /\ appUsername' = login.user
    BY <1>3, <2>1 DEF LoginReplied
  <2>3. \E r : Ask(r) /\ r.page # "login"
    BY <2>2, RefreshAsks DEF Watched, EntryPages
  <2> QED
    BY <2>1, <2>2, <2>3 DEF FormName, EntryPages
<1>4. CASE SignupReplied
  <2>1. Replied("signup", "create") /\ Succeeded /\ appUsername' = signup.user /\ AskNothing
    BY <1>4 DEF SignupReplied
  <2> QED
    BY <2>1 DEF FormName, EntryPages
<1>5. CASE PaymentPages \/ UNCHANGED paymentsVars
  BY <1>5, PaymentsAsk DEF paymentsVars, terminalVars, ui, pages
<1> QED
  BY <1>1, <1>2, <1>3, <1>4, <1>5 DEF UiStep, UserStep, PostedStep

LEMMA Entering ==
    ASSUME PayInv, EntryNamed, LoginsInv, UiStep, ~Off,
           section' = 1, section # 1 \/ appUsername' # appUsername
    PROVE  Shows(appUsername') /\ OpenHere(appUsername')
<1>1. LineInv /\ FieldsInv
  BY DEF PayInv, TermInv
<1>2. PICK page, op :
           /\ page \in EntryPages
           /\ Replied(page, op) /\ Succeeded /\ appUsername' = FormName(page)
           /\ AskNothing \/ \E r : Ask(r) /\ r.page # page
  BY <1>1, UiEnters
<1>3. Event.id \in Waiting({page}) /\ asked[Event.id].page = page
  BY <1>1, <1>2, RunEnds
<1>4. Event.id \in Waiting(EntryPages) /\ Awaited(Event.id)
  BY <1>2, <1>3 DEF Waiting
<1>5. asked[Event.id].user = appUsername'
  BY <1>2, <1>3, <1>4 DEF EntryNamed
<1>6. /\ seen + 1 \in 1 .. Len(events) /\ IsCall(seen + 1) /\ events[seen + 1] = Event
      /\ Event.ok /\ Event.reply.says = Bool(TRUE)
  <2>1. /\ seen < Len(events) /\ Event.kind = "call"
        /\ Event.ok /\ Event.reply.says = Bool(TRUE)
    BY <1>2 DEF Replied, Runs, Succeeded
  <2>2. seen + 1 \in 1 .. Len(events)
    BY <1>1, <2>1, SeqFacts DEF LineInv, LineTypes
  <2> QED
    BY <2>1, <2>2 DEF Event, IsCall
<1>7. PICK j \in 1 .. Len(outbox) : Event.reply = outbox[j] /\ To(j) = Event.id
  BY <1>6, OldReplies
<1>8. Admitted(j)
  BY <1>2, <1>3, <1>6, <1>7 DEF Admitted
<1> QED
  BY <1>4, <1>5, <1>7, <1>8 DEF LoginsInv

LEMMA UiLogins ==
    ASSUME PayInv, KindsInv, EntryNamed, LoginsInv, UiStep
    PROVE  LoginsInv'
<1>1. /\ made \in Nat /\ made' \in {made, made + 1}
      /\ UNCHANGED <<link, connected, outbox, data, elsewhere>> /\ Off' = Off
      /\ \A k \in 1 .. made : asked'[k] = asked[k]
  BY UiFrame DEF Off
<1>2. MayRun /\ MayAsk /\ LineInv
  BY UiAsks DEF MayAsk, PayInv, TermInv
<1>3. \A u : Shows(u)' <=> Shows(u)
  BY <1>1 DEF Shows
<1>4. \A j \in 1 .. Len(outbox) : To(j) \in 1 .. made /\ To(j)' = To(j)
  BY <1>1, OldReplies DEF To
<1>5. \A j \in 1 .. Len(outbox) : /\ asked'[To(j)] = asked[To(j)]
                                  /\ Awaited(To(j))' => Awaited(To(j))
                                  /\ Admitted(j)' => Admitted(j)
  <2>1. \A id \in 1 .. made : Awaited(id)' => Awaited(id)
    BY <1>2, UiLine
  <2>2. ASSUME NEW j \in 1 .. Len(outbox)
        PROVE  Awaited(To(j))' => Awaited(To(j))
    <3>1. ASSUME NEW id, id = To(j), NEW ids, ids = To(j)', Awaited(ids)'
          PROVE  Awaited(id)
      BY <1>4, <2>1, <3>1
    <3> QED
      BY <1>4, <2>1, <3>1 DEF To, Awaited
  <2>3. ASSUME NEW j \in 1 .. Len(outbox)
        PROVE  asked'[To(j)] = asked[To(j)] /\ (Admitted(j)' => Admitted(j))
    BY <1>1, <1>4 DEF Admitted
  <2> QED
    BY <2>2, <2>3
<1>6. ~Off' /\ section' = 1 => Shows(appUsername)'
  <2> SUFFICES ASSUME ~Off, section' = 1 PROVE Shows(appUsername')
    BY <1>1, <1>3 DEF Shows
  <2> QED
    BY Entering DEF LoginsInv
<1>7. ASSUME ~Off, NEW k \in 1 .. made', asked'[k].op = "toggle"
      PROVE  Shows(asked'[k].user)
  <2>1. CASE k \in 1 .. made
    BY <1>1, <1>7, <2>1 DEF LoginsInv
  <2>2. CASE k \notin 1 .. made
    <3>1. k = made + 1 /\ made' = made + 1
      BY <1>1, <2>2
    <3>2. ~AskNothing
      BY <1>1, <3>1 DEF AskNothing, clientVars
    <3>3. PICK r : Ask(r) /\ FitRequest(r)
      BY <3>2, UiFits
    <3>4. asked'[k] = r
      BY <1>2, <3>1, <3>3, AskLine
    <3> QED
      BY <1>7, <3>3, <3>4 DEF FitRequest, LoginsInv
  <2> QED
    BY <2>1, <2>2
<1>8. \A u \in DOMAIN data' : ~data'[u].isLocked \/ MaxOthers > 0 => Shows(u)'
  BY <1>1, <1>3 DEF LoginsInv
<1>9. \A j \in 1 .. Len(outbox)' : Admitted(j)' =>
          /\ Shows(asked[To(j)].user)'
          /\ ~Off' /\ Awaited(To(j))' => OpenHere(asked[To(j)].user)'
  BY <1>1, <1>3, <1>4, <1>5 DEF LoginsInv, Shows, OpenHere
<1> QED
  BY <1>1, <1>3, <1>6, <1>7, <1>8, <1>9 DEF LoginsInv, Shows, OpenHere

\* A toggle that is being served was asked for at the settings page, and then
\* nobody waits at the entry pages.
LEMMA NoToggleMeanwhile ==
    ASSUME PayInv, KindsInv, serving # <<>>, open, link = "up", Served.op = "toggle",
           NEW id \in Waiting(EntryPages)
    PROVE  FALSE
<1>1. ~Off
  BY DEF KindsInv, Off
<1>2. Unread + 1 \in 1 .. Len(pending) /\ serving[1] = pending[Unread + 1]
  BY ServedNext
<1>3. serving[1] \in 1 .. made /\ Awaited(serving[1])
  BY <1>2 DEF PayInv, TermInv, LineInv, LineTypes, Awaited, IsIn
<1>4. asked[serving[1]].page = "settings"
  BY <1>3 DEF KindsInv, Fits, Served
<1>5. serving[1] \in Waiting({"settings"})
  BY <1>3, <1>4 DEF Waiting
<1> QED
  BY <1>1, <1>5 DEF PayInv, TermInv, PagesInv, EntryInv, SettingsInv

LEMMA ExecLogins ==
    ASSUME PayInv, PayInv', KindsInv, LoginsInv, Execute \/ ExecutePayment
    PROVE  LoginsInv'
<1> DEFINE n == Len(outbox)
           id == serving[1]
           r == Served
<1>1. /\ UNCHANGED <<asked, section, appUsername, made, link, connected>>
      /\ open /\ link = "up" /\ serving # <<>> /\ id \in 1 .. made
      /\ Performs(r) /\ WellAsked(r)
      /\ n \in Nat /\ Len(outbox') = n + 1
      /\ \A j \in 1 .. n : outbox'[j] = outbox[j]
      /\ outbox'[n + 1] = [to |-> id, says |-> Says(r)]
      /\ \A i : Awaited(i)' => Awaited(i)
  BY ExecFrame DEF Settles
<1>2. TypeOK /\ TypeOK'
  BY DEF PayInv, IInv
<1>3. Effects(r) /\ Extends(data, data')
  BY <1>1, <1>2, RequestEffects
<1>4. /\ \A u : Shows(u) => Shows(u)'
      /\ \A u \in DOMAIN data' : data'[u].txns # <<>> => Shows(u)'
  <2>1. IInv'
    BY DEF PayInv
  <2>2. \A u : Shows(u) => Shows(u)'
    BY <1>3, <2>1, ShownStay
  <2>3. \A u \in DOMAIN data' : data'[u].txns # <<>> => Tells(data'[u])
    BY <2>1 DEF IInv, IsSound, IsSoundAccount, AgreesWithBalance, Tells, NewestBalance
  <2> QED
    BY <2>2, <2>3 DEF Shows
<1>5. ~Off /\ Off' = Off
  BY <1>1 DEF KindsInv, Off
<1>6. /\ r = asked[id] /\ Fits(r.page, r.op)
      /\ \A u \in elsewhere.turned : u \in elsewhere'.turned \/ (Admits(r) /\ u = r.user)
  BY <1>1, ExecElsewhere DEF KindsInv, Served
<1> HIDE DEF r
<1>7. \A u \in DOMAIN data' : ~data'[u].isLocked \/ MaxOthers > 0 => Shows(u)'
  <2> SUFFICES ASSUME NEW u \in DOMAIN data', ~data'[u].isLocked \/ MaxOthers > 0
               PROVE  Shows(u)'
    OBVIOUS
  <2>1. CASE u \notin DOMAIN data
    BY <1>3, <1>4, <2>1 DEF Effects
  <2>2. CASE u \in DOMAIN data /\ (~data[u].isLocked \/ MaxOthers > 0)
    BY <1>4, <2>2 DEF LoginsInv
  <2>3. CASE u \in DOMAIN data /\ data[u].isLocked /\ ~(MaxOthers > 0)
    <3>1. r.op = "toggle" /\ u = r.user
      BY <1>3, <2>3 DEF Effects
    <3>2. Shows(u)
      BY <1>1, <1>5, <1>6, <3>1 DEF LoginsInv
    <3> QED
      BY <1>4, <3>2
  <2> QED
    BY <2>1, <2>2, <2>3
<1>8. ASSUME NEW j \in 1 .. n, Admitted(j)
      PROVE  /\ Shows(asked[To(j)].user)'
             /\ Awaited(To(j)) => (data'[asked[To(j)].user].isLocked
                                     => asked[To(j)].user \in elsewhere'.turned)
  <2> DEFINE u == asked[To(j)].user
  <2>1. Shows(u) /\ (Awaited(To(j)) => OpenHere(u))
    BY <1>5, <1>8 DEF LoginsInv
  <2>2. Awaited(To(j)) => r.op # "toggle"
    <3>1. To(j) \in 1 .. made
      BY OldReplies
    <3>2. Awaited(To(j)) => To(j) \in Waiting(EntryPages)
      BY <1>8, <3>1 DEF Waiting, Admitted
    <3> QED
      BY <1>1, <3>2, NoToggleMeanwhile DEF r
  <2>3. \A x : Shows(x)' <=> x \in DOMAIN data' /\ (SeedTells => Tells(data'[x]))
    BY DEF Shows, SeedTells, Tells
  <2>4. To(j)' = To(j)
    BY <1>1 DEF To
  <2>5. asked'[To(j)'] = asked[To(j)]
    BY <1>1, <2>4
  <2>6. u \in DOMAIN data
    BY <2>1 DEF Shows
  <2>7. ASSUME Awaited(To(j)), data'[u].isLocked
        PROVE  u \in elsewhere'.turned
    <3>1. data[u].isLocked
      BY <1>3, <2>2, <2>6, <2>7 DEF Effects
    <3>2. ~(Admits(r) /\ u = r.user)
      BY <1>3, <2>7 DEF Effects
    <3> QED
      BY <1>6, <2>1, <2>7, <3>1, <3>2 DEF OpenHere
  <2> QED
    BY <1>4, <2>1, <2>3, <2>5, <2>7
<1>9. ASSUME r.page \in EntryPages, Says(r) = Bool(TRUE)
      PROVE  /\ r.user \in DOMAIN data' /\ (SeedTells => Tells(data'[r.user]))
             /\ ~data'[r.user].isLocked
  <2>1. Admits(r)
    BY <1>6, <1>9 DEF Says, Admits, Fits, EntryPages
  <2>2. r.user \in DOMAIN data' /\ ~data'[r.user].isLocked
    BY <1>3, <2>1 DEF Effects
  <2>3. \A u \in DOMAIN data' : ~data'[u].isLocked => (SeedTells => Tells(data'[u]))
    BY <1>7 DEF Shows, SeedTells, Tells
  <2> QED
    BY <2>2, <2>3
<1>10. ASSUME NEW j \in 1 .. n + 1, Admitted(j)'
       PROVE  /\ Shows(asked[To(j)].user)'
              /\ Awaited(To(j))' => (data'[asked'[To(j)'].user].isLocked
                                       => asked'[To(j)'].user \in elsewhere'.turned)
  <2>1. CASE j \in 1 .. n
    <3>1. Admitted(j) /\ To(j)' = To(j)
      BY <1>1, <1>10, <2>1 DEF Admitted, To
    <3>2. Awaited(To(j))' => Awaited(To(j))
      <4>1. ASSUME NEW i, i = To(j), NEW k, k = To(j)', Awaited(k)'
            PROVE  Awaited(i)
        BY <1>1, <3>1, <4>1
      <4> QED
        BY <4>1 DEF Awaited, To
    <3> QED
      BY <1>1, <1>8, <2>1, <3>1, <3>2
  <2>2. CASE j = n + 1
    <3>1. To(j)' = id /\ outbox'[j].says = Says(r)
      BY <1>1, <2>2 DEF To
    <3>2. r.page \in EntryPages /\ Says(r) = Bool(TRUE)
      BY <1>1, <1>6, <1>10, <3>1 DEF Admitted
    <3>3. asked'[To(j)'] = r
      BY <1>1, <1>6, <3>1
    <3> QED
      BY <1>9, <3>2, <3>3 DEF Shows, SeedTells, Tells
  <2> QED
    BY <1>1, <2>1, <2>2
<1>11. ~Off' /\ section' = 1 => Shows(appUsername)'
  <2>1. section = 1 => Shows(appUsername)
    BY <1>5 DEF LoginsInv
  <2> QED
    BY <1>1, <1>4, <2>1 DEF Shows
<1>12. \A k \in 1 .. made' : asked'[k].op = "toggle" => Shows(asked[k].user)'
  <2>1. \A k \in 1 .. made : asked[k].op = "toggle" => Shows(asked[k].user)
    BY <1>5 DEF LoginsInv
  <2> QED
    BY <1>1, <1>4, <2>1 DEF Shows
<1> QED
  BY <1>1, <1>7, <1>10, <1>11, <1>12 DEF LoginsInv, OpenHere

LEMMA OthersLogins ==
    ASSUME PayInv, PayInv', LoginsInv, ServedElsewhere
    PROVE  LoginsInv'
<1>1. UNCHANGED <<asked, made, section, appUsername, link, connected, outbox>> /\ Settles
  BY OthersFrame
<1>2. PICK r : Effects(r)
  BY OthersAct
<1>3. IInv' /\ MaxOthers > 0
  BY TerminalAssumption DEF PayInv, ElsewhereTyped, ServedElsewhere
<1>4. \A u : Shows(u) => Shows(u)'
  BY <1>2, <1>3, ShownStay
<1>5. ASSUME NEW u, Shows(u), OpenHere(u)
      PROVE  data'[u].isLocked => u \in elsewhere'.turned
  <2>1. u \in DOMAIN data /\ u \in DOMAIN data'
    BY <1>2, <1>5 DEF Shows, Effects
  <2>2. elsewhere'.turned = elsewhere.turned \cup Turned(data, data')
    BY DEF ServedElsewhere
  <2> QED
    BY <1>5, <2>1, <2>2 DEF OpenHere, Turned
<1>6. ASSUME NEW u \in DOMAIN data'
      PROVE  Shows(u)'
  <2>1. CASE u \in DOMAIN data
    BY <1>3, <1>4, <2>1 DEF LoginsInv
  <2>2. CASE u \notin DOMAIN data
    <3>1. data'[u].txns # <<>>
      BY <1>2, <1>6, <2>2 DEF Effects
    <3>2. Tells(data'[u])
      BY <1>3, <1>6, <3>1 DEF IInv, IsSound, IsSoundAccount, AgreesWithBalance, Tells, NewestBalance
    <3> QED
      BY <1>6, <3>2 DEF Shows, Tells
  <2> QED
    BY <2>1, <2>2
<1>7. ASSUME NEW j \in 1 .. Len(outbox), Admitted(j)'
      PROVE  /\ Shows(asked[To(j)].user)'
             /\ ~Off' /\ Awaited(To(j))' => OpenHere(asked[To(j)].user)'
  <2> DEFINE u == asked[To(j)].user
  <2>1. To(j)' = To(j) /\ Admitted(j) /\ u' = u
    BY <1>1, <1>7 DEF Admitted, To
  <2>2. Shows(u) /\ (~Off /\ Awaited(To(j)) => OpenHere(u))
    BY <2>1 DEF LoginsInv
  <2>3. Off' = Off /\ (Awaited(To(j))' => Awaited(To(j)))
    <3>1. \A i : Awaited(i)' => Awaited(i)
      BY <1>1 DEF Settles
    <3>2. ASSUME NEW i, i = To(j), NEW k, k = To(j)', Awaited(k)'
          PROVE  Awaited(i)
      BY <2>1, <3>1, <3>2
    <3> QED
      BY <1>1, <3>2 DEF Awaited, To, Off
  <2>4. Shows(u)'
    BY <1>4, <2>1, <2>2 DEF Shows
  <2>5. OpenHere(u) => OpenHere(u)'
    BY <1>5, <2>1, <2>2 DEF OpenHere
  <2> QED
    BY <2>2, <2>3, <2>4, <2>5
<1>8. ~Off' /\ section' = 1 => Shows(appUsername)'
  <2>1. ~Off /\ section = 1 => Shows(appUsername)
    BY DEF LoginsInv
  <2> QED
    BY <1>1, <1>4, <2>1 DEF Shows, Off
<1>9. ~Off' => \A k \in 1 .. made' : asked'[k].op = "toggle" => Shows(asked[k].user)'
  <2>1. ~Off => \A k \in 1 .. made : asked[k].op = "toggle" => Shows(asked[k].user)
    BY DEF LoginsInv
  <2> QED
    BY <1>1, <1>4, <2>1 DEF Shows, Off
<1> QED
  BY <1>1, <1>6, <1>7, <1>8, <1>9 DEF LoginsInv

LEMMA LoginsStep ==
    ASSUME PayInv, PayInv', KindsInv, EntryNamed, LoginsInv, [PaymentsNext]_paymentsVars
    PROVE  LoginsInv'
<1>1. CASE Network
  <2>1. UNCHANGED <<asked, made, section, appUsername, outbox, data, elsewhere>> /\ Settles
    BY <1>1, NetFrame
  <2>2. \A u : Shows(u)' <=> Shows(u)
    BY <2>1 DEF Shows
  <2>3. (Off => Off') /\ \A j : Admitted(j)' = Admitted(j) /\ To(j)' = To(j)
    BY <2>1 DEF Settles, Admitted, To
  <2>4. \A j : Awaited(To(j))' => Awaited(To(j))
    <3>1. \A i : Awaited(i)' => Awaited(i)
      BY <2>1 DEF Settles
    <3>2. ASSUME NEW j, NEW i, i = To(j), NEW k, k = To(j)', Awaited(k)'
          PROVE  Awaited(i)
      BY <2>3, <3>1, <3>2
    <3> QED
      BY <3>2 DEF Awaited, To
  <2>5. \A j \in 1 .. Len(outbox)' : Admitted(j)' =>
          /\ Shows(asked[To(j)].user)'
          /\ ~Off' /\ Awaited(To(j))' => OpenHere(asked[To(j)].user)'
    BY <2>1, <2>2, <2>3, <2>4 DEF LoginsInv, Shows, OpenHere
  <2> QED
    BY <2>1, <2>2, <2>3, <2>5 DEF LoginsInv, Shows, OpenHere
<1> QED
  BY <1>1, UiLogins, ExecLogins, OthersLogins, Steps

-----------------------------------------------------------------------------
(* What each handler does to the dashboard.                                *)

Hears(op) == seen' # seen /\ Event.kind = "call" /\ Answered.op = op

\* The dashboard stays, or it only begins to turn.
SameDash == dash'.owner = dash.owner /\ dash'.balance = dash.balance
Refreshes == \E r : Ask(r) /\ r.op = "history" /\ r.user = appUsername'

\* The name at the terminal changes with a login, which refreshes, or with a
\* sign-up; a payment that went through refreshes; only a refresh fills in the
\* dashboard.
Handled ==
    /\ UNCHANGED appUsername \/ Refreshes \/ Hears("create")
    /\ Hears("change") \/ Hears("transfer") => ~Succeeded \/ Refreshes
    /\ IF Hears("history")
       THEN dash'.owner # Empty => Event.ok /\ dash'.owner = Answered.user
                              /\ dash'.balance = NewestBalance(Event.reply.says.value)
       ELSE SameDash

LEMMA RefreshHandles ==
    ASSUME PagesTyped, Refresh(appUsername')
    PROVE  Refreshes /\ SameDash
<1>1. SameDash
  BY DEF Refresh, SameDash, PagesTyped
<1>2. Refreshes
  <2> DEFINE r == Request("dashboard", "history", appUsername', Empty)
  <2>1. Ask(r)
    BY DEF Refresh
  <2>2. r.op = "history" /\ r.user = appUsername'
    BY DEF Request
  <2> HIDE DEF r
  <2> QED
    BY <2>1, <2>2 DEF Refreshes
<1> QED
  BY <1>1, <1>2

LEMMA UiHandles ==
    ASSUME PagesTyped, seen \in Nat, UiStep
    PROVE  Handled
<1>0. SameDash \/ dash' # dash
  BY DEF SameDash
<1>1. CASE UNCHANGED <<seen, appUsername, dash>>
  BY <1>0, <1>1 DEF Handled, Hears
<1>2. CASE DoRefresh
  <2>1. UNCHANGED <<seen, appUsername>> /\ Refresh(appUsername')
    BY <1>2 DEF DoRefresh
  <2>2. SameDash
    BY <2>1, RefreshHandles
  <2> QED
    BY <2>1, <2>2 DEF Handled, Hears
<1>3. CASE LoginReplied
  <2>1. Event.kind = "call" /\ Answered.op = "auth"
    BY <1>3 DEF LoginReplied, Replied, Runs
  <2>2. \/ Refresh(appUsername')
        \/ UNCHANGED <<appUsername, dash>>
    BY <1>3 DEF LoginReplied
  <2>3. SameDash /\ (UNCHANGED appUsername \/ Refreshes)
    BY <1>0, <2>2, RefreshHandles
  <2> QED
    BY <2>1, <2>3 DEF Handled, Hears
<1>4. CASE SignupReplied
  <2>1. Hears("create") /\ UNCHANGED dash
    BY <1>4 DEF SignupReplied, Replied, Runs, Hears
  <2> QED
    BY <1>0, <2>1 DEF Handled, Hears
<1>5. CASE Refreshed
  <2>1. /\ Hears("history") /\ UNCHANGED appUsername
        /\ dash' = IF Event.ok
                   THEN [owner |-> Answered.user, loading |-> FALSE,
                         balance |-> NewestBalance(Event.reply.says.value)]
                   ELSE [owner |-> Empty, balance |-> 0, loading |-> FALSE]
    BY <1>5 DEF Refreshed, Replied, Runs, Hears
  <2>2. ~Hears("change") /\ ~Hears("transfer")
    BY <2>1 DEF Hears
  <2> QED
    BY <2>1, <2>2 DEF Handled
<1>6. CASE HistoryReplied \/ CurrentPasswordReplied \/ PasswordChanged \/ LockReplied
           \/ ConnectionLost \/ ConnectionRefused
  <2>1. /\ UNCHANGED <<appUsername, dash>>
        /\ ~Hears("change") /\ ~Hears("transfer") /\ ~Hears("history")
    BY <1>6 DEF HistoryReplied, CurrentPasswordReplied, PasswordChanged, LockReplied,
                ConnectionLost, ConnectionRefused, Replied, Runs, Hears
  <2> QED
    BY <1>0, <2>1 DEF Handled
<1>7. CASE DepositReplied \/ WithdrawReplied \/ TransferReplied
  <2>1. PICK page, op : Settled(page, op) /\ op \in {"change", "transfer"}
    BY <1>7 DEF DepositReplied, WithdrawReplied, TransferReplied
  <2>2. Event.kind = "call" /\ Answered.op = op /\ UNCHANGED appUsername
    BY <2>1 DEF Settled, Replied, Runs
  <2>3. IF Succeeded THEN Refresh(appUsername') ELSE UNCHANGED dash
    BY <2>1 DEF Settled, RefreshAfter
  <2>4. SameDash /\ (~Succeeded \/ Refreshes)
    BY <1>0, <2>3, RefreshHandles
  <2> QED
    BY <2>1, <2>2, <2>4 DEF Handled, Hears
<1> QED
  <2>1. UserStep => DoRefresh \/ UNCHANGED <<seen, appUsername, dash>>
    BY DEF UserStep, EditLogin, DoLogin, EditSignup, DoCreateAccount, DoHistory, EditSettings,
           DoChangePassword, ToggleLockConfirm, DoLockAccount, DoLogout, Exit, LogOut
  <2>2. EditDeposit \/ DoDeposit \/ EditWithdraw \/ DoWithdraw \/ EditTransfer
           \/ RequestConfirmation \/ DoTransfer \/ UNCHANGED paymentsVars
              => UNCHANGED <<seen, appUsername, dash>>
    BY DEF EditDeposit, DoDeposit, EditWithdraw, DoWithdraw, EditTransfer, RequestConfirmation,
           DoTransfer, Shell, paymentsVars, terminalVars, ui, pages
  <2> QED
    BY <1>1, <1>2, <1>3, <1>4, <1>5, <1>6, <1>7, <2>1, <2>2
       DEF UiStep, PostedStep, PaymentPages

-----------------------------------------------------------------------------
(* After the last payment that was heard of, the dashboard is refreshed.   *)

Paid(j) == asked[To(j)].op \in {"change", "transfer"} /\ outbox[j].says = Bool(TRUE)
Ran(id) == \E e \in 1 .. seen : IsCall(e) /\ events[e].id = id

\* The last refresh is for the user logged in, unless somebody signed up, and
\* no payment that a page heard of is without a refresh after it.
RefreshInv ==
    /\ "signup" \notin Forms =>
          \A k \in 1 .. made :
              IsRefresh(k) /\ (\A r \in k + 1 .. made : ~IsRefresh(r))
                  => asked[k].user = appUsername
    /\ ~Off => \A j \in 1 .. Len(outbox) :
                   Paid(j) /\ Ran(To(j)) => \E r \in To(j) + 1 .. made : IsRefresh(r)

LEMMA UiLastRefresh ==
    ASSUME PayInv, KindsInv, RefreshInv, UiStep, "signup" \notin Forms,
           NEW k \in 1 .. made', IsRefresh(k)', \A r \in k + 1 .. made' : ~IsRefresh(r)'
    PROVE  asked'[k].user = appUsername'
<1>1. LineInv /\ Handled
  BY UiHandles DEF PayInv, JoinInv, TermInv, LineInv, LineTypes
<1>2. /\ made \in Nat /\ made' \in {made, made + 1}
      /\ \A i \in 1 .. made : i \in 1 .. made' /\ asked'[i] = asked[i]
      /\ seen \in Nat /\ seen' \in {seen, seen + 1} /\ seen' <= Len(events)
  BY UiFrame
<1>3. ~Hears("create")
  <2> SUFFICES ASSUME Hears("create") PROVE FALSE
    OBVIOUS
  <2>1. seen + 1 \in 1 .. Len(events) /\ IsCall(seen + 1)
    BY <1>1, <1>2, SeqFacts DEF Hears, IsCall, Event, LineInv, LineTypes
  <2>2. Event.id \in 1 .. made
    BY <2>1, OldReplies DEF Event
  <2>3. asked[Event.id].page = "signup"
    BY <2>2 DEF Hears, Answered, KindsInv, Fits
  <2> QED
    BY <2>2, <2>3 DEF KindsInv
<1>4. CASE Refreshes
  <2>1. PICK r : Ask(r) /\ r.op = "history" /\ r.user = appUsername'
    BY <1>4 DEF Refreshes
  <2>2. made' = made + 1 /\ asked'[made'] = r
    BY <1>1, <2>1, AskLine
  <2>3. made' \in k + 1 .. made' \/ k = made'
    BY <1>2, <2>2
  <2>4. k = made'
    <3>1. ASSUME made' \in k + 1 .. made' PROVE FALSE
      BY <2>1, <2>2, <3>1 DEF IsRefresh
    <3> QED
      BY <2>3, <3>1
  <2> QED
    BY <2>1, <2>2, <2>4
<1>5. CASE ~Refreshes
  <2>1. appUsername' = appUsername
    BY <1>1, <1>3, <1>5 DEF Handled
  <2>2. CASE k \in 1 .. made
    <3>1. \A r \in k + 1 .. made : r \in 1 .. made /\ r \in k + 1 .. made'
      BY <1>2, <2>2
    <3>2. IsRefresh(k) /\ \A r \in k + 1 .. made : ~IsRefresh(r)
      BY <1>2, <2>2, <3>1 DEF IsRefresh
    <3> QED
      BY <1>2, <2>1, <2>2, <3>2 DEF RefreshInv
  <2>3. CASE k \notin 1 .. made
    <3>1. k = made + 1 /\ made' = made + 1
      BY <1>2, <2>3
    <3>2. ~AskNothing
      BY <1>2, <3>1 DEF AskNothing, clientVars
    <3>3. PICK r : Ask(r) /\ FitRequest(r)
      BY <3>2, UiFits
    <3>4. asked'[k] = r
      BY <1>1, <3>1, <3>3, AskLine
    <3> QED
      BY <3>3, <3>4 DEF FitRequest, IsRefresh
  <2> QED
    BY <2>2, <2>3
<1> QED
  BY <1>4, <1>5

LEMMA UiRefreshes ==
    ASSUME PayInv, KindsInv, OutboxInv, RefreshInv, UiStep, ~Off,
           NEW j \in 1 .. Len(outbox), Paid(j)', Ran(To(j))'
    PROVE  \E r \in To(j) + 1 .. made' : IsRefresh(r)'
<1>1. LineInv /\ Handled
  BY UiHandles DEF PayInv, JoinInv, TermInv, LineInv, LineTypes
<1>2. /\ made \in Nat /\ made' \in {made, made + 1} /\ UNCHANGED <<events, outbox>>
      /\ \A i \in 1 .. made : i \in 1 .. made' /\ asked'[i] = asked[i]
      /\ seen \in Nat /\ seen' \in {seen, seen + 1} /\ seen' <= Len(events)
      /\ Len(events) \in Nat
  BY <1>1, UiFrame, SeqFacts DEF LineInv, LineTypes
<1>3. To(j) \in 1 .. made /\ To(j)' = To(j)
  BY <1>2, OldReplies DEF To
<1>4. Paid(j)
  BY <1>2, <1>3 DEF Paid
<1>5. PICK e \in 1 .. seen' : events[e].kind = "call" /\ events[e].id = To(j)
  BY <1>2, <1>3 DEF Ran, IsCall
<1>6. CASE e \in 1 .. seen
  <2>1. PICK r \in To(j) + 1 .. made : IsRefresh(r)
    BY <1>4, <1>5, <1>6 DEF RefreshInv, Ran, IsCall
  <2>2. r \in 1 .. made /\ r \in To(j) + 1 .. made'
    BY <1>2, <1>3, <2>1
  <2>3. IsRefresh(r)'
    BY <1>2, <2>1, <2>2 DEF IsRefresh
  <2> QED
    BY <2>2, <2>3
<1>7. CASE e \notin 1 .. seen
  <2>1. e = seen + 1 /\ seen' = seen + 1 /\ e \in 1 .. Len(events)
    BY <1>2, <1>5, <1>7
  <2>2. Event = events[e] /\ Event.id = To(j) /\ Event.kind = "call" /\ seen' # seen
    BY <1>2, <1>5, <2>1 DEF Event
  <2>3. asked[Event.id].op \in {"change", "transfer"}
    BY <1>4, <2>2 DEF Paid
  <2>4. asked[Event.id].page \notin EntryPages
    BY <1>3, <2>2, <2>3 DEF KindsInv, Fits, EntryPages
  <2>5. Event.ok
    BY <2>1, <2>2, <2>4 DEF KindsInv, IsCall
  <2>6. PICK i \in 1 .. Len(outbox) : Event.reply = outbox[i] /\ To(i) = Event.id
    BY <2>1, <2>2, <2>5, OldReplies DEF IsCall
  <2>7. Len(outbox) \in Nat
    BY AnySeq, SeqFacts DEF PayInv, ClientInv, MatchInv, ClientTypes
  <2>8. i = j
    <3>1. ~(i < j) /\ ~(j < i)
      BY <1>3, <2>2, <2>6 DEF OutboxInv
    <3> QED
      BY <2>7, <3>1
  <2>9. Succeeded
    BY <1>4, <2>5, <2>6, <2>8 DEF Succeeded, Paid
  <2>10. Refreshes
    BY <1>1, <2>2, <2>3, <2>9 DEF Handled, Hears, Answered
  <2>11. PICK r : Ask(r) /\ r.op = "history"
    BY <2>10 DEF Refreshes
  <2>12. made' = made + 1 /\ asked'[made'] = r
    BY <1>1, <2>11, AskLine
  <2>13. made' \in To(j) + 1 .. made'
    BY <1>2, <1>3, <2>12
  <2>14. asked'[made'].op = "history"
    BY <2>11, <2>12
  <2> QED
    BY <2>13, <2>14 DEF IsRefresh
<1> QED
  BY <1>6, <1>7

LEMMA RefreshStep ==
    ASSUME PayInv, KindsInv, OutboxInv, RefreshInv, [PaymentsNext]_paymentsVars
    PROVE  RefreshInv'
<1>1. CASE UiStep
  <2>1. UNCHANGED <<link, connected, outbox>>
    BY <1>1, UiFrame
  <2>2. \A j \in 1 .. Len(outbox) : To(j)' = To(j)
    BY <2>1 DEF To
  <2>3. "signup" \notin Forms =>
          \A k \in 1 .. made' :
              IsRefresh(k)' /\ (\A r \in k + 1 .. made' : ~IsRefresh(r)')
                  => asked'[k].user = appUsername'
    BY <1>1, UiLastRefresh
  <2>4. ~Off => \A j \in 1 .. Len(outbox) :
                   Paid(j)' /\ Ran(To(j))' => \E r \in To(j) + 1 .. made' : IsRefresh(r)'
    BY <1>1, UiRefreshes
  <2> QED
    BY <2>1, <2>2, <2>3, <2>4 DEF RefreshInv, Off
<1>2. CASE Network
  <2>1. UNCHANGED <<asked, made, appUsername, outbox, seen>> /\ Settles /\ LineInv
    BY <1>2, NetFrame DEF PayInv, TermInv
  <2>2. seen \in Nat /\ seen <= Len(events) /\ Len(events) \in Nat
    BY <2>1, SeqFacts DEF LineInv, LineTypes
  <2>3. \A e \in 1 .. seen : events'[e] = events[e]
    BY <2>1, <2>2 DEF Settles
  <2>4. ~Off' => ~Off
    BY <2>1 DEF Settles
  <2>5. \A id : Ran(id)' <=> Ran(id)
    BY <2>1, <2>3 DEF Ran, IsCall
  <2>6. \A j : To(j)' = To(j) /\ Paid(j)' = Paid(j) /\ Ran(To(j))' = Ran(To(j))
    BY <2>1, <2>3 DEF To, Paid, Ran, IsCall
  <2> QED
    BY <2>1, <2>4, <2>6 DEF RefreshInv, IsRefresh
<1>3. CASE Execute \/ ExecutePayment
  <2>0. PICK n : n = Len(outbox)
    OBVIOUS
  <2>1. /\ UNCHANGED <<asked, made, appUsername, seen, events, link, connected>>
        /\ open /\ link = "up" /\ serving # <<>>
        /\ n \in Nat /\ Len(outbox') = n + 1
        /\ \A j \in 1 .. n : outbox'[j] = outbox[j]
        /\ outbox'[n + 1].to = serving[1]
    BY <1>3, <2>0, ExecFrame
  <2>2. ~Ran(serving[1])
    <3>1. IsIn(serving[1], pending)
      BY <2>1, ServedNext DEF IsIn
    <3>2. seen \in 0 .. Len(events) /\ Len(events) \in Nat
      BY SeqFacts DEF PayInv, TermInv, LineInv, LineTypes
    <3> QED
      BY <3>1, <3>2 DEF Ran, PayInv, TermInv, LineInv, CalledInTurn
  <2>3. \A j \in 1 .. n : To(j)' = To(j) /\ Paid(j)' = Paid(j) /\ Ran(To(j))' = Ran(To(j))
    BY <2>1 DEF To, Paid, Ran, IsCall
  <2>4. ~Ran(To(n + 1))'
    BY <2>1, <2>2 DEF To, Ran, IsCall
  <2>5. \A j \in 1 .. n + 1 : j \in 1 .. n \/ j = n + 1
    BY <2>1
  <2> QED
    BY <2>0, <2>1, <2>3, <2>4, <2>5 DEF RefreshInv, IsRefresh, Off
<1>4. CASE ServedElsewhere
  <2>1. UNCHANGED <<asked, made, appUsername, outbox, seen, events, link, connected>>
    BY <1>4, OthersFrame
  <2>2. \A j : To(j)' = To(j) /\ Paid(j)' = Paid(j) /\ Ran(To(j))' = Ran(To(j))
    BY <2>1 DEF To, Paid, Ran, IsCall
  <2> QED
    BY <2>1, <2>2 DEF RefreshInv, IsRefresh, Off
<1> QED
  BY <1>1, <1>2, <1>3, <1>4, Steps

-----------------------------------------------------------------------------
(* What a refresh is told stays true until the next payment.               *)

LEMMA NewestTold ==
    ASSUME TypeOK, NEW u \in DOMAIN data, NEW n \in Nat \ {0}, GetTransactions(u, n)
    PROVE  NewestBalance(reply'.value) = NewestBalance(data[u].txns)
<1> DEFINE s == data[u].txns
           start == IF Len(s) > n THEN Len(s) - n ELSE 0
           t == SubSeq(s, start + 1, Len(s))
<1>1. s \in Seq(TransactionRecord) /\ Len(s) \in Nat
  BY DEF TypeOK, IsAccounts, UserState
<1>2. reply'.value = t
  BY DEF GetTransactions, Answer, Exists
<1>3. start \in Nat /\ start <= Len(s) /\ (Len(s) > 0 => start < Len(s))
  BY <1>1
<1> HIDE DEF s, start
<1>4. /\ t \in Seq(TransactionRecord) /\ Len(t) = Len(s) - start
      /\ \A k \in 1 .. Len(s) - start : t[k] = s[start + k]
  BY <1>1, <1>3
<1> HIDE DEF t
<1>5. CASE s = <<>>
  <2>1. Len(s) = 0 /\ Len(t) = 0
    BY <1>1, <1>3, <1>4, <1>5
  <2>2. t = <<>>
    BY <1>4, <2>1, EmptySeq
  <2> QED
    BY <1>2, <1>5, <2>2 DEF NewestBalance, s
<1>6. CASE s # <<>>
  <2>1. Len(s) > 0
    BY <1>1, <1>6, EmptySeq
  <2>2. Len(s) - start \in 1 .. Len(s) - start /\ start + (Len(s) - start) = Len(s)
    BY <1>1, <1>3, <2>1
  <2>3. t # <<>> /\ t[Len(t)] = s[Len(s)]
    <3>1. Len(t) # 0 /\ Len(t) = Len(s) - start
      BY <1>4, <2>2
    <3> QED
      BY <1>4, <2>2, <3>1, EmptySeq
  <2> QED
    BY <1>2, <1>6, <2>3 DEF NewestBalance, s
<1> QED
  BY <1>5, <1>6

\* Without a payment since, here or in another session, the newest record the
\* last refresh was told is the newest there is.
HistoryTrue ==
    "signup" \notin Forms =>
       \A j \in 1 .. Len(outbox) :
          IsRefresh(To(j)) /\ asked[To(j)].user \in DOMAIN data \ elsewhere.paid
            /\ (\A i \in j + 1 .. Len(outbox) : ~Paid(i) /\ ~IsRefresh(To(i)))
              => NewestBalance(outbox[j].says.value)
                    = NewestBalance(data[asked[To(j)].user].txns)

LEMMA ExecHistory ==
    ASSUME PayInv, KindsInv, HistoryTrue, Execute \/ ExecutePayment, "signup" \notin Forms
    PROVE  HistoryTrue'
<1>0. PICK n, r, id : n = Len(outbox) /\ r = Served /\ id = serving[1]
  OBVIOUS
<1>1. /\ UNCHANGED <<asked, made>>
      /\ serving # <<>> /\ id \in 1 .. made
      /\ Performs(r) /\ WellAsked(r)
      /\ n \in Nat /\ Len(outbox') = n + 1
      /\ \A j \in 1 .. n : outbox'[j] = outbox[j]
      /\ outbox'[n + 1] = [to |-> id, says |-> Says(r)]
  BY <1>0, ExecFrame
<1>2. TypeOK
  BY DEF PayInv, IInv
<1>3. Effects(r)
  BY <1>1, <1>2, RequestEffects
<1>4. r = asked[id] /\ Fits(r.page, r.op) /\ r.op # "create"
  <2>1. r = asked[id] /\ Fits(r.page, r.op) /\ (r.page = "signup" => "signup" \in Forms)
    BY <1>0, <1>1 DEF KindsInv, Served
  <2> QED
    BY <2>1 DEF Fits
<1>5. \A v \in DOMAIN data' : v \in DOMAIN data
  BY <1>3, <1>4 DEF Effects
<1>6. /\ \A j \in 1 .. n : To(j)' = To(j) /\ Paid(j)' = Paid(j)
      /\ \A j : j = n + 1 => To(j)' = id
      /\ \A j : j = n + 1 => Paid(j)' = (r.op \in {"change", "transfer"} /\ Says(r) = Bool(TRUE))
  <2>1. outbox'[n + 1].to = id /\ outbox'[n + 1].says = Says(r)
    BY <1>1
  <2> QED
    BY <1>1, <1>4, <2>1 DEF To, Paid
<1>7. ASSUME NEW j \in 1 .. n, IsRefresh(To(j)),
             asked[To(j)].user \in DOMAIN data' \ elsewhere'.paid,
             \A i \in j + 1 .. n + 1 : ~Paid(i)' /\ ~IsRefresh(To(i))'
      PROVE  NewestBalance(outbox[j].says.value) = NewestBalance(data'[asked[To(j)].user].txns)
  <2>1. PICK u : u = asked[To(j)].user
    OBVIOUS
  <2>2. u \in DOMAIN data /\ u \in DOMAIN data'
    BY <1>5, <1>7, <2>1
  <2>3. n + 1 \in j + 1 .. n + 1 /\ \A i \in j + 1 .. n : i \in 1 .. n /\ i \in j + 1 .. n + 1
    BY <1>1
  <2>4. ~Moves(r)
    <3>1. r.op \in {"change", "transfer"} => Says(r) = reply'
      BY DEF Says
    <3> QED
      BY <1>6, <1>7, <2>3, <3>1 DEF Moves
  <2>5. data'[u].txns = data[u].txns
    BY <1>3, <2>2, <2>4 DEF Effects, Kept
  <2>6. \A i \in j + 1 .. n : ~Paid(i) /\ ~IsRefresh(To(i))
    BY <1>1, <1>6, <1>7, <2>3 DEF IsRefresh
  <2>7. u \notin elsewhere.paid
    <3>1. ~IsRefresh(id)
      BY <1>1, <1>6, <1>7, <2>3 DEF IsRefresh
    <3>2. r.op # "history"
      BY <1>4, <3>1 DEF IsRefresh
    <3> QED
      BY <1>0, <1>7, <2>1, <3>2, ExecElsewhere
  <2>8. NewestBalance(outbox[j].says.value) = NewestBalance(data[u].txns)
    BY <1>0, <1>7, <2>1, <2>2, <2>6, <2>7 DEF HistoryTrue
  <2> QED
    BY <2>1, <2>5, <2>8
<1>8. ASSUME IsRefresh(id), r.user \in DOMAIN data'
      PROVE  NewestBalance(Says(r).value) = NewestBalance(data'[r.user].txns)
  <2>1. r.op = "history" /\ r.user \in DOMAIN data
    BY <1>4, <1>5, <1>8 DEF IsRefresh
  <2>2. GetTransactions(r.user, 5) /\ Says(r) = reply'
    BY <1>1, <2>1 DEF Performs, Perform, Says
  <2>3. data' = data
    BY <2>2 DEF GetTransactions, Answer
  <2>4. NewestBalance(reply'.value) = NewestBalance(data[r.user].txns)
    BY <1>2, <2>1, <2>2, NewestTold
  <2> QED
    BY <2>2, <2>3, <2>4
<1>9. ASSUME NEW j \in 1 .. n + 1, IsRefresh(To(j))',
             asked'[To(j)'].user \in DOMAIN data' \ elsewhere'.paid,
             \A i \in j + 1 .. n + 1 : ~Paid(i)' /\ ~IsRefresh(To(i))'
      PROVE  NewestBalance(outbox'[j].says.value) = NewestBalance(data'[asked'[To(j)'].user].txns)
  <2>1. CASE j \in 1 .. n
    <3>1. To(j)' = To(j) /\ outbox'[j] = outbox[j]
      BY <1>1, <1>6, <2>1
    <3>2. IsRefresh(To(j)) /\ asked'[To(j)'] = asked[To(j)]
      BY <1>1, <1>9, <3>1 DEF IsRefresh
    <3> QED
      BY <1>7, <1>9, <2>1, <3>1, <3>2
  <2>2. CASE j = n + 1
    <3>1. To(j)' = id /\ outbox'[j].says = Says(r)
      BY <1>1, <1>6, <2>2
    <3>2. IsRefresh(id) /\ asked'[To(j)'] = r
      BY <1>1, <1>4, <1>9, <3>1 DEF IsRefresh
    <3> QED
      BY <1>8, <1>9, <3>1, <3>2
  <2> QED
    BY <1>1, <2>1, <2>2
<1> QED
  BY <1>0, <1>1, <1>9 DEF HistoryTrue

LEMMA HistoryStep ==
    ASSUME PayInv, KindsInv, HistoryTrue, [PaymentsNext]_paymentsVars
    PROVE  HistoryTrue'
<1>1. CASE UiStep \/ Network
  <2>1. /\ UNCHANGED <<outbox, data, elsewhere>>
        /\ \A k \in 1 .. made : asked'[k] = asked[k]
    BY <1>1, UiFrame, NetFrame
  <2>2. \A j \in 1 .. Len(outbox) : To(j) \in 1 .. made
    BY OldReplies
  <2>3. \A j \in 1 .. Len(outbox) : To(j)' = To(j) /\ asked'[To(j)] = asked[To(j)]
    BY <2>1, <2>2 DEF To
  <2>4. \A j \in 1 .. Len(outbox) : Paid(j)' = Paid(j) /\ IsRefresh(To(j))' = IsRefresh(To(j))
    BY <2>1, <2>3 DEF Paid, IsRefresh
  <2>5. Len(outbox) \in Nat
    BY AnySeq, SeqFacts DEF PayInv, ClientInv, MatchInv, ClientTypes
  <2>6. \A j \in 1 .. Len(outbox) : \A i \in j + 1 .. Len(outbox) : i \in 1 .. Len(outbox)
    BY <2>5
  <2> QED
    BY <2>1, <2>3, <2>4, <2>6 DEF HistoryTrue
<1>2. CASE Execute \/ ExecutePayment
  <2>1. CASE "signup" \notin Forms
    BY <1>2, <2>1, ExecHistory
  <2>2. CASE "signup" \in Forms
    BY <2>2 DEF HistoryTrue
  <2> QED
    BY <2>1, <2>2
<1>3. CASE ServedElsewhere
  <2>1. UNCHANGED <<asked, outbox>>
    BY <1>3, OthersFrame
  <2>2. \A j : To(j)' = To(j) /\ Paid(j)' = Paid(j) /\ IsRefresh(To(j))' = IsRefresh(To(j))
    BY <2>1 DEF To, Paid, IsRefresh
  <2>3. elsewhere'.paid = elsewhere.paid \cup Recorded(data, data')
    BY <1>3 DEF ServedElsewhere
  <2>4. ASSUME NEW u \in DOMAIN data' \ elsewhere'.paid
        PROVE  u \in DOMAIN data \ elsewhere.paid /\ data'[u].txns = data[u].txns
    BY <2>3, <2>4 DEF Recorded
  <2> QED
    BY <2>1, <2>2, <2>4 DEF HistoryTrue
<1> QED
  BY <1>1, <1>2, <1>3, Steps

-----------------------------------------------------------------------------
(* The dashboard shows what the last refresh was told.                     *)

DashTrue ==
    dash.owner # Empty =>
       \E e \in 1 .. seen :
          /\ IsCall(e) /\ events[e].ok /\ IsRefresh(events[e].id)
          /\ dash.owner = asked[events[e].id].user
          /\ dash.balance = NewestBalance(events[e].reply.says.value)
          /\ \A d \in e + 1 .. seen : IsCall(d) => ~IsRefresh(events[d].id)

LEMMA UiDash ==
    ASSUME PayInv, DashTrue, UiStep
    PROVE  DashTrue'
<1> SUFFICES ASSUME dash'.owner # Empty
             PROVE  \E e \in 1 .. seen' :
                       /\ events'[e].kind = "call" /\ events'[e].ok /\ asked'[events'[e].id].op = "history"
                       /\ dash'.owner = asked'[events'[e].id].user
                       /\ dash'.balance = NewestBalance(events'[e].reply.says.value)
                       /\ \A d \in e + 1 .. seen' : events'[d].kind = "call" => asked'[events'[d].id].op # "history"
  BY DEF DashTrue, IsRefresh, IsCall
<1>1. LineInv /\ Handled
  BY UiHandles DEF PayInv, JoinInv, TermInv, LineInv, LineTypes
<1>2. /\ UNCHANGED events /\ \A i \in 1 .. made : asked'[i] = asked[i]
      /\ seen \in Nat /\ seen' \in {seen, seen + 1} /\ seen' <= Len(events)
      /\ Len(events) \in Nat
  BY <1>1, UiFrame, SeqFacts DEF LineInv, LineTypes
<1>3. \A e \in 1 .. Len(events) : /\ IsCall(e)' <=> IsCall(e)
                                  /\ IsCall(e) => /\ events[e].id \in 1 .. made
                                                  /\ asked'[events[e].id] = asked[events[e].id]
  BY <1>2, OldReplies DEF IsCall
<1>4. \A e \in 1 .. seen' : e \in 1 .. Len(events) /\ (e \in 1 .. seen \/ e = seen + 1)
  BY <1>2
<1>5. CASE Hears("history")
  <2>1. /\ seen' = seen + 1 /\ seen + 1 \in 1 .. seen' /\ Event = events[seen + 1]
        /\ IsCall(seen + 1) /\ events[seen + 1].ok /\ IsRefresh(events[seen + 1].id)
        /\ dash'.owner = asked[events[seen + 1].id].user
        /\ dash'.balance = NewestBalance(events[seen + 1].reply.says.value)
    BY <1>1, <1>2, <1>5 DEF Handled, Hears, IsCall, IsRefresh, Event, Answered
  <2>2. \A d \in (seen + 1) + 1 .. seen' : FALSE
    BY <1>2, <2>1
  <2> QED
    BY <1>2, <1>3, <1>4, <2>1, <2>2 DEF IsRefresh, IsCall
<1>6. CASE ~Hears("history")
  <2>1. dash'.owner = dash.owner /\ dash'.balance = dash.balance
    BY <1>1, <1>6 DEF Handled, SameDash
  <2>2. PICK e \in 1 .. seen :
           /\ IsCall(e) /\ events[e].ok /\ IsRefresh(events[e].id)
           /\ dash.owner = asked[events[e].id].user
           /\ dash.balance = NewestBalance(events[e].reply.says.value)
           /\ \A d \in e + 1 .. seen : IsCall(d) => ~IsRefresh(events[d].id)
    BY <2>1 DEF DashTrue
  <2>3. e \in 1 .. seen' /\ \A d \in e + 1 .. seen' : d \in 1 .. seen' /\ (d \in e + 1 .. seen \/ d = seen + 1)
    BY <1>2
  <2>4. seen' = seen + 1 /\ IsCall(seen + 1) => ~IsRefresh(events[seen + 1].id)
    BY <1>2, <1>6 DEF Hears, IsCall, IsRefresh, Event, Answered
  <2>5. \A d \in e + 1 .. seen' : IsCall(d) => ~IsRefresh(events[d].id)
    BY <1>2, <2>2, <2>3, <2>4
  <2>6. \A d \in e + 1 .. seen' : events'[d].kind = "call" => asked'[events'[d].id].op # "history"
    BY <1>2, <1>3, <1>4, <2>3, <2>5 DEF IsRefresh, IsCall
  <2> QED
    BY <1>2, <1>3, <1>4, <2>1, <2>2, <2>3, <2>6 DEF IsRefresh, IsCall
<1> QED
  BY <1>5, <1>6

LEMMA DashStep ==
    ASSUME PayInv, DashTrue, [PaymentsNext]_paymentsVars
    PROVE  DashTrue'
<1>1. CASE UiStep
  BY <1>1, UiDash
<1>2. CASE ~UiStep
  <2>1. UNCHANGED <<asked, seen, dash>> /\ Settles
    BY <1>2, NetFrame, ExecFrame, OthersFrame, Steps
  <2>2. seen \in 0 .. Len(events) /\ Len(events) \in Nat
    BY SeqFacts DEF PayInv, TermInv, LineInv, LineTypes
  <2>3. \A e \in 1 .. seen : events'[e] = events[e]
    BY <2>1, <2>2 DEF Settles
  <2>4. \A e \in 1 .. seen : IsCall(e)' <=> IsCall(e)
    BY <2>3 DEF IsCall
  <2>5. \A e \in 1 .. seen : \A d \in e + 1 .. seen : d \in 1 .. seen
    BY <2>2
  <2> QED
    BY <2>1, <2>3, <2>4, <2>5 DEF DashTrue, IsRefresh
<1> QED
  BY <1>1, <1>2

-----------------------------------------------------------------------------
(* All of it.                                                              *)

ScreenInv ==
    /\ PayInv /\ OutboxInv /\ KindsInv /\ EntryNamed /\ LoginsInv
    /\ RefreshInv /\ HistoryTrue /\ DashTrue

LEMMA ScreenStep ==
    ASSUME Patient, ~PartialWrites, ScreenInv, PayInv', [PaymentsNext]_paymentsVars
    PROVE  ScreenInv'
BY OutboxStep, KindsStep, NamedStep, LoginsStep, RefreshStep, HistoryStep, DashStep
   DEF ScreenInv

LEMMA ScreenInit ==
    ASSUME PaymentsInit, PayInv
    PROVE  ScreenInv
<1>1. /\ made = 0 /\ Len(outbox) = 0 /\ Len(events) = 0 /\ seen = 0
      /\ section = 0 /\ dash.owner = Empty /\ link = "connecting" /\ got = 0
  BY EmptySeq DEF PaymentsInit, TerminalInit, ClientInit
<1>2. data = Seed
  BY DEF PaymentsInit, TerminalInit, Init
<1>3. \A u \in DOMAIN data : ~data[u].isLocked \/ MaxOthers > 0 => Shows(u)
  BY <1>2, TerminalAssumption DEF Shows, SeedTells
<1>4. \A i \in 1 .. 0 : FALSE
  OBVIOUS
<1>5. OutboxInv
  BY <1>1, <1>4 DEF OutboxInv
<1>6. KindsInv
  BY <1>1, <1>4 DEF KindsInv
<1>7. EntryNamed
  BY <1>1, <1>4 DEF EntryNamed, Waiting
<1>8. LoginsInv
  BY <1>1, <1>3, <1>4 DEF LoginsInv
<1>9. RefreshInv /\ HistoryTrue /\ DashTrue
  BY <1>1, <1>4 DEF RefreshInv, HistoryTrue, DashTrue
<1> QED
  BY <1>5, <1>6, <1>7, <1>8, <1>9 DEF ScreenInv

LEMMA ScreenInvariant ==
    ASSUME Patient, ~PartialWrites
    PROVE  PaymentsSpec => []ScreenInv
<1>1. PaymentsInit /\ PayInv => ScreenInv
  BY ScreenInit
<1>2. ScreenInv /\ PayInv' /\ [PaymentsNext]_paymentsVars => ScreenInv'
  BY ScreenStep
<1> QED
  BY <1>1, <1>2, PayInvariant, PTL DEF PaymentsSpec

\* When all has been heard the refresh the dashboard shows is the last one.
LEMMA ShownLast ==
    ASSUME ScreenInv, seen = Len(events), connected,
           \A id \in 1 .. made : Calls(id) # {}, dash.owner # Empty
    PROVE  \E j \in 1 .. Len(outbox) :
              /\ IsRefresh(To(j)) /\ \A r \in To(j) + 1 .. made : ~IsRefresh(r)
              /\ dash.owner = asked[To(j)].user
              /\ dash.balance = NewestBalance(outbox[j].says.value)
<1>1. LineInv /\ PayInv /\ ~Off
  BY DEF ScreenInv, PayInv, TermInv, Off
<1>2. seen \in Nat /\ made \in Nat /\ DOMAIN events = 1 .. seen
  BY <1>1, SeqFacts DEF LineInv, LineTypes
<1>3. PICK e \in 1 .. seen :
          /\ IsCall(e) /\ events[e].ok /\ IsRefresh(events[e].id)
          /\ dash.owner = asked[events[e].id].user
          /\ dash.balance = NewestBalance(events[e].reply.says.value)
          /\ \A d \in e + 1 .. seen : IsCall(d) => ~IsRefresh(events[d].id)
  BY DEF ScreenInv, DashTrue
<1>4. PICK j \in 1 .. Len(outbox) : events[e].reply = outbox[j] /\ To(j) = events[e].id
  BY <1>1, <1>3, OldReplies
<1>5. To(j) \in 1 .. made
  BY <1>1, OldReplies
<1>6. ASSUME NEW r \in To(j) + 1 .. made, IsRefresh(r)
      PROVE  FALSE
  <2>1. r \in 1 .. made /\ To(j) < r
    BY <1>2, <1>5
  <2>2. PICK d \in 1 .. seen : IsCall(d) /\ events[d].id = r
    BY <1>2, <2>1 DEF Calls, IsCall
  <2>3. events[d].ok
    <3>1. asked[r].page \notin EntryPages
      BY <1>6, <2>1 DEF ScreenInv, KindsInv, Fits, IsRefresh, EntryPages
    <3> QED
      BY <1>1, <2>2, <3>1 DEF ScreenInv, KindsInv
  <2>4. d # e /\ ~(d < e)
    BY <1>1, <1>2, <1>3, <1>4, <1>5, <2>1, <2>2, <2>3 DEF LineInv, CalledInTurn
  <2>5. d \in e + 1 .. seen
    BY <1>2, <2>4
  <2> QED
    BY <1>3, <1>6, <2>2, <2>5
<1> QED
  BY <1>3, <1>4, <1>6

\* WithdrawPage.cpp, DepositPage.cpp, TransferPage.cpp and DashboardPage.cpp:
\* whatever payments, visits and losses came before, once every request has been
\* answered the dashboard shows the account of the user logged in; and it shows
\* the balance the server has for it, unless another session (Server.cpp:240) has
\* paid from it or to it after the last refresh was served.  Not so after a
\* sign-up, which refreshes nothing; and, by SeedTells, not for an account that
\* was found with money and without records.
THEOREM DashboardCurrent ==
    ASSUME Patient, ~PartialWrites, "signup" \notin Forms, SeedTells
    PROVE  PaymentsSpec => []ShownBalanceCurrent
<1>1. ScreenInv => ShownBalanceCurrent
  <2> SUFFICES ASSUME ScreenInv, section = 1, seen = Len(events), connected,
                      \A id \in 1 .. made : Calls(id) # {}, dash.owner # Empty
               PROVE  /\ dash.owner = appUsername
                      /\ appUsername \notin elsewhere.paid
                            => dash.balance = data[appUsername].balance
    BY DEF ShownBalanceCurrent
  <2>1. /\ ~Off /\ PayInv /\ OutboxInv /\ LoginsInv /\ RefreshInv /\ HistoryTrue /\ LineInv
    BY DEF ScreenInv, PayInv, TermInv, Off
  <2>2. PICK j \in 1 .. Len(outbox) :
            /\ IsRefresh(To(j)) /\ \A r \in To(j) + 1 .. made : ~IsRefresh(r)
            /\ dash.owner = asked[To(j)].user
            /\ dash.balance = NewestBalance(outbox[j].says.value)
    BY ShownLast
  <2>3. Len(outbox) \in Nat /\ made \in Nat
    BY <2>1, AnySeq, SeqFacts DEF PayInv, ClientInv, MatchInv, ClientTypes, LineInv, LineTypes
  <2>4. \A i \in 1 .. Len(outbox) : To(i) \in 1 .. made
    BY <2>1, OldReplies
  <2>5. asked[To(j)].user = appUsername
    BY <2>1, <2>2, <2>4 DEF RefreshInv
  <2>6. ASSUME NEW i \in j + 1 .. Len(outbox), Paid(i)
        PROVE  FALSE
    <3>1. i \in 1 .. Len(outbox) /\ j < i
      BY <2>3
    <3>2. To(j) < To(i) /\ To(i) \in 1 .. made
      BY <2>1, <2>4, <3>1 DEF OutboxInv
    <3>3. Ran(To(i))
      <4>1. DOMAIN events = 1 .. seen
        BY <2>1, SeqFacts DEF LineInv, LineTypes
      <4>2. PICK d \in DOMAIN events : events[d].kind = "call" /\ events[d].id = To(i)
        BY <3>2 DEF Calls
      <4> QED
        BY <4>1, <4>2 DEF Ran, IsCall
    <3>4. PICK r \in To(i) + 1 .. made : IsRefresh(r)
      BY <2>1, <2>6, <3>1, <3>3 DEF RefreshInv
    <3>5. r \in To(j) + 1 .. made
      BY <2>3, <2>4, <3>2
    <3> QED
      BY <2>2, <3>4, <3>5
  <2>7. ASSUME NEW i \in j + 1 .. Len(outbox), IsRefresh(To(i))
        PROVE  FALSE
    <3>1. i \in 1 .. Len(outbox) /\ j < i
      BY <2>3
    <3>2. To(i) \in To(j) + 1 .. made
      BY <2>1, <2>3, <2>4, <3>1 DEF OutboxInv
    <3> QED
      BY <2>2, <2>7, <3>2
  <2>8. Shows(appUsername)
    BY <2>1 DEF LoginsInv
  <2>9. appUsername \notin elsewhere.paid =>
           NewestBalance(outbox[j].says.value) = NewestBalance(data[appUsername].txns)
    BY <2>1, <2>2, <2>5, <2>6, <2>7, <2>8 DEF HistoryTrue, Shows
  <2> QED
    BY <2>2, <2>5, <2>8, <2>9 DEF Shows, Tells
<1> QED
  BY <1>1, ScreenInvariant, PTL

\* README, Security Notes: "Locked accounts cannot authenticate".  Whoever gets
\* past the entry pages (LoginPage.cpp:41, SignupPage.cpp) while the client is
\* connected does so under the name of an account that is open at that moment,
\* if he waits for the reply; but for an account whose lock another session has
\* turned (Server.cpp:240) after the server had admitted him.
THEOREM LockedAccountsTurnedAway ==
    ASSUME Patient, ~PartialWrites
    PROVE  PaymentsSpec => LockedStayOut
<1>1. ScreenInv /\ [PaymentsNext]_paymentsVars =>
         [section = 0 /\ section' = 1 /\ connected =>
             /\ appUsername' \in DOMAIN data
             /\ data[appUsername'].isLocked => appUsername' \in elsewhere.turned]_terminalVars
  <2> SUFFICES ASSUME ScreenInv, [PaymentsNext]_paymentsVars,
                      section = 0, section' = 1, connected
               PROVE  /\ appUsername' \in DOMAIN data
                      /\ data[appUsername'].isLocked => appUsername' \in elsewhere.turned
    OBVIOUS
  <2>1. PayInv /\ EntryNamed /\ LoginsInv /\ ~Off
    BY DEF ScreenInv, Off
  <2>2. UiStep
    BY <2>1, NetFrame, ExecFrame, OthersFrame, Steps
  <2> QED
    BY <2>1, <2>2, Entering DEF Shows, OpenHere
<1> QED
  BY <1>1, ScreenInvariant, PTL DEF PaymentsSpec, LockedStayOut

=============================================================================
