--------------------------- MODULE PaymentsProofs ---------------------------
(***************************************************************************)
(* The whole terminal: pages, client, network and accounts together, for   *)
(* every set of users and amounts, every number of requests and every way  *)
(* the connection can fail.                                                *)
(*                                                                         *)
(* The invariants of the parts, TermInv of the pages, MatchInv and OnceInv *)
(* of the client and IInv of the accounts, are joined by what one part     *)
(* owes the next: the pages ask only for what the accounts can do          *)
(* (AskedInv), the server serves requests that were made (ServedInv), and  *)
(* the reply a handler gets is of the kind it reads (RepliesInv).          *)
(***************************************************************************)
EXTENDS TerminalProofs, ClientProofs, LedgerProofs

\* No amount a user types is changed by becoming an i64.
SmallAmounts == \A n \in Typed : 2 * n < Limit

-----------------------------------------------------------------------------
(* The invariant.                                                          *)

UserNames == Users \cup {Empty}
PasswordTexts == Passwords \cup {Empty}

WellAsked(r) ==
    /\ r.user \in UserNames
    /\ \/ r.op \in {"auth", "toggle", "history", "recent"} /\ r.page # "withdraw"
       \/ r.op \in {"create", "password"} /\ r.password \in Passwords /\ r.page # "withdraw"
       \/ r.op = "change" /\ r.amount \in I64
          /\ (r.page = "withdraw" /\ SmallAmounts => r.amount < 0)
       \/ r.op = "transfer" /\ r.amount \in U64 /\ r.page # "withdraw"

\* The pages ask for what the accounts can do.
AskedInv == \A k \in 1 .. made : WellAsked(asked[k])

FormsTyped ==
    /\ deposit \in [amount : Typed \cup {Nil}, loading : BOOLEAN]
    /\ withdraw \in [amount : Typed \cup {Nil}, showConfirm : BOOLEAN, loading : BOOLEAN]
    /\ transfer \in [recipient : Users \cup {Empty}, amount : Typed \cup {Nil},
                     showConfirm : BOOLEAN, loading : BOOLEAN]

PagesTyped ==
    /\ appUsername \in UserNames
    /\ login.user \in UserNames /\ login.password \in PasswordTexts /\ login.loading \in BOOLEAN
    /\ signup.user \in UserNames /\ signup.password \in PasswordTexts
    /\ signup.loading \in BOOLEAN
    /\ settings.current \in PasswordTexts /\ settings.new \in PasswordTexts
    /\ dash \in [owner : UserNames, balance : U64, loading : BOOLEAN]
    /\ history \in [shown : BOOLEAN, owner : UserNames, loading : BOOLEAN]

\* The new password is still there when the current one has been verified.
NewPasswordKept ==
    \A i \in Waiting({"settings"}) : asked[i].op = "auth" => settings.new \in Passwords

\* What a dashboard is told is a history.
Histories == [kind : {"txns"}, value : Seq(TransactionRecord)]
RepliesInv ==
    /\ \A k \in 1 .. Len(outbox) :
           /\ outbox[k].to \in 1 .. made
           /\ asked[outbox[k].to].op = "history" => outbox[k].says \in Histories
    /\ \A e \in 1 .. Len(events) :
           IsCall(e) /\ events[e].ok => \E k \in 1 .. Len(outbox) : events[e].reply = outbox[k]

\* Only a server that is up has packets, and they are whole.
ServedInv ==
    /\ serving # <<>> \/ stream # <<>> => open /\ link = "up"
    /\ serving # <<>> => serving[1] \in 1 .. made

JoinInv == AskedInv /\ FormsTyped /\ PagesTyped /\ NewPasswordKept /\ RepliesInv /\ ServedInv
ClientInv == MatchInv(Replies) /\ OnceInv(Replies)

\* What is kept of the other sessions.
ElsewhereTyped ==
    elsewhere \in [served : 0 .. MaxOthers, paid : SUBSET Users, turned : SUBSET Users]

PayInv == TermInv /\ ClientInv /\ IInv /\ JoinInv /\ ElsewhereTyped

\* What the FTXUI thread does.
UiStep ==
    \/ (UserStep \/ PostedStep) /\ UNCHANGED forms
    \/ PaymentPages
    \/ UNCHANGED paymentsVars

LEMMA Steps ==
    ASSUME [PaymentsNext]_paymentsVars
    PROVE  \/ UiStep
           \/ ExecutePayment
           \/ (Execute \/ ServedElsewhere \/ Network) /\ UNCHANGED forms
BY DEF PaymentsNext, TerminalNext, UiStep, PaymentPages

-----------------------------------------------------------------------------
(* The accounts.                                                           *)

LEMMA UiBank == UiStep => UNCHANGED bank
<1>1. UserStep => UNCHANGED bank
  BY DEF UserStep, EditLogin, DoLogin, EditSignup, DoCreateAccount, DoRefresh, DoHistory,
         EditSettings, DoChangePassword, ToggleLockConfirm, DoLockAccount, DoLogout, Exit
<1>2. PostedStep => UNCHANGED bank
  BY DEF PostedStep, LoginReplied, SignupReplied, Refreshed, HistoryReplied,
         CurrentPasswordReplied, PasswordChanged, LockReplied, ConnectionLost, ConnectionRefused
<1>3. PaymentPages => UNCHANGED bank
  BY DEF PaymentPages, EditDeposit, DoDeposit, EditWithdraw, DoWithdraw, EditTransfer,
         RequestConfirmation, DoTransfer, DepositReplied, WithdrawReplied, TransferReplied,
         Settled, Shell
<1> QED
  BY <1>1, <1>2, <1>3 DEF UiStep, paymentsVars, terminalVars

LEMMA UiLedger == UiStep => UNCHANGED ledger
BY UiBank DEF bank

LEMMA SameLedger ==
    ASSUME IInv, UNCHANGED ledger
    PROVE  IInv'
BY UnchangedInv DEF ledger, IInv, TypeOK

\* What the pages ask for leaves the accounts sound.
LEMMA PerformSound ==
    ASSUME IInv, NEW r, WellAsked(r), Perform(r)
    PROVE  IInv'
<1>1. CASE r.op = "auth" /\ Authenticate(r.user, r.password)
  BY <1>1, AuthenticateInv
<1>2. CASE r.op = "create" /\ CreateAccount(r.user, r.password)
  BY <1>2, CreateAccountInv DEF WellAsked
<1>3. CASE r.op = "password" /\ ChangePassword(r.user, r.password)
  BY <1>3, ChangePasswordInv DEF WellAsked
<1>4. CASE r.op = "toggle" /\ ToggleAccount(r.user)
  BY <1>4, ToggleAccountInv
<1>5. CASE r.op = "history" /\ GetTransactions(r.user, 5)
  BY <1>5, GetTransactionsInv
<1>6. CASE r.op = "recent" /\ GetTransactions(r.user, 100)
  BY <1>6, GetTransactionsInv
<1> QED
  BY <1>1, <1>2, <1>3, <1>4, <1>5, <1>6 DEF Perform

LEMMA PaymentSound ==
    ASSUME IInv, NEW r, WellAsked(r),
           \/ r.op = "change" /\ ChangeBalance(r.user, r.amount)
           \/ r.op = "transfer" /\ TransferBalance(r.user, r.recipient, r.amount)
    PROVE  IInv'
<1>1. CASE r.op = "change" /\ ChangeBalance(r.user, r.amount)
  BY <1>1, ChangeBalanceInv DEF WellAsked
<1>2. CASE r.op = "transfer" /\ TransferBalance(r.user, r.recipient, r.amount)
  BY <1>2, TransferBalanceInv DEF WellAsked
<1> QED
  BY <1>1, <1>2

LEMMA LedgerStep ==
    ASSUME PayInv, [PaymentsNext]_paymentsVars
    PROVE  IInv'
<1>1. IInv
  BY DEF PayInv
<1>2. serving # <<>> => WellAsked(asked[serving[1]])
  BY DEF PayInv, JoinInv, ServedInv, AskedInv
<1>3. CASE UiStep
  BY <1>1, <1>3, UiLedger, SameLedger
<1>4. CASE ExecutePayment
  BY <1>1, <1>2, <1>4, PaymentSound DEF ExecutePayment
<1>5. CASE Execute
  BY <1>1, <1>2, <1>5, PerformSound DEF Execute
<1>6. CASE Network
  BY <1>1, <1>6, SameLedger DEF Network, bank
<1>7. CASE ServedElsewhere
  BY <1>1, <1>7, StepInv DEF ServedElsewhere
<1> QED
  BY <1>3, <1>4, <1>5, <1>6, <1>7, Steps

\* Other sessions act on the accounts there are, and a bounded number of times.
LEMMA ElsewhereStep ==
    ASSUME ElsewhereTyped, IInv', [PaymentsNext]_paymentsVars
    PROVE  ElsewhereTyped'
<1>1. CASE UNCHANGED elsewhere
  BY <1>1 DEF ElsewhereTyped
<1>2. CASE Execute
  <2>1. \E r : Informs(r)
    BY <1>2 DEF Execute
  <2>2. \E p \in SUBSET elsewhere.paid, t \in SUBSET elsewhere.turned :
            elsewhere' = [elsewhere EXCEPT !.paid = p, !.turned = t]
    BY <2>1 DEF Informs
  <2>3. PICK p \in SUBSET Users, t \in SUBSET Users :
            elsewhere' = [elsewhere EXCEPT !.paid = p, !.turned = t]
    BY <2>2 DEF ElsewhereTyped
  <2> QED
    BY <2>3 DEF ElsewhereTyped
<1>3. CASE ServedElsewhere
  <2>1. /\ elsewhere.served \in 0 .. MaxOthers /\ elsewhere.served < MaxOthers
        /\ elsewhere' = [served |-> elsewhere.served + 1,
                         paid |-> elsewhere.paid \cup Recorded(data, data'),
                         turned |-> elsewhere.turned \cup Turned(data, data')]
    BY <1>3 DEF ServedElsewhere, ElsewhereTyped
  <2>2. elsewhere.served + 1 \in 0 .. MaxOthers
    BY <2>1, TerminalAssumption
  <2>3. DOMAIN data' \subseteq Users
    BY NamesAssumption DEF IInv, TypeOK, IsAccounts
  <2>4. Recorded(data, data') \subseteq Users /\ Turned(data, data') \subseteq Users
    BY <2>3 DEF Recorded, Turned
  <2> QED
    BY <2>1, <2>2, <2>4 DEF ElsewhereTyped
<1>4. UiStep \/ ExecutePayment \/ Network => UNCHANGED elsewhere
  BY UiBank DEF bank, ExecutePayment, Network
<1> QED
  BY <1>1, <1>2, <1>3, <1>4, Steps

-----------------------------------------------------------------------------
(* The client, whose server says what the accounts reply.                  *)

LEMMA UserRuns ==
    ASSUME UserStep \/ PostedStep
    PROVE  MayRun
BY DEF MayRun, UserStep, PostedStep, EditLogin, DoLogin, EditSignup, DoCreateAccount,
       DoRefresh, DoHistory, EditSettings, DoChangePassword, ToggleLockConfirm,
       DoLockAccount, DoLogout, Exit, LoginReplied, SignupReplied, Refreshed,
       HistoryReplied, CurrentPasswordReplied, PasswordChanged, LockReplied,
       ConnectionLost, ConnectionRefused, Replied, Runs

\* The pages make a request or none, and it is one the accounts can carry out.
LEMMA UserAsksWell ==
    ASSUME TermInv, PagesTyped, NewPasswordKept, UserStep \/ PostedStep
    PROVE  AskNothing \/ \E r : Ask(r) /\ WellAsked(r)
<1> DEFINE Plain == {"auth", "toggle", "history", "recent"}
<1>1. ASSUME NEW page, NEW op \in Plain, NEW user \in UserNames, NEW password, page # "withdraw",
             Ask(Request(page, op, user, password))
      PROVE  \E r : Ask(r) /\ WellAsked(r)
  <2> DEFINE r == Request(page, op, user, password)
  <2>1. r.op = op /\ r.page = page /\ r.user = user
    BY DEF Request
  <2>2. WellAsked(r)
    BY <1>1, <2>1 DEF WellAsked
  <2> QED
    BY <1>1, <2>2
<1>2. ASSUME NEW page, NEW op \in {"create", "password"}, NEW user \in UserNames,
             NEW password \in Passwords, page # "withdraw", Ask(Request(page, op, user, password))
      PROVE  \E r : Ask(r) /\ WellAsked(r)
  <2> DEFINE r == Request(page, op, user, password)
  <2>1. r.op = op /\ r.page = page /\ r.user = user /\ r.password = password
    BY DEF Request
  <2>2. WellAsked(r)
    BY <1>2, <2>1 DEF WellAsked
  <2> QED
    BY <1>2, <2>2
<1>3. CASE DoCreateAccount
  <2>1. signup.password \in Passwords /\ signup.user \in UserNames
    BY <1>3 DEF DoCreateAccount, PagesTyped, PasswordTexts
  <2> QED
    BY <1>2, <1>3, <2>1 DEF DoCreateAccount
<1>4. CASE CurrentPasswordReplied /\ Verified
  <2>1. Ask(Request("settings", "password", appUsername, settings.new))
    BY <1>4, VerifiedStep DEF TermInv
  <2>2. Replied("settings", "auth")
    BY <1>4 DEF CurrentPasswordReplied
  <2>3. seen < Len(events) /\ seen' = seen + 1 /\ Event.kind = "call"
    BY <2>2 DEF Replied, Runs
  <2>4. Event.id \in 1 .. made /\ Awaited(Event.id)
    BY <2>1, <2>3, RunLine DEF MayAsk, TermInv
  <2>5. Event.id \in Waiting({"settings"}) /\ asked[Event.id].op = "auth"
    BY <2>2, <2>4 DEF Replied, Answered, Waiting
  <2>6. settings.new \in Passwords /\ appUsername \in UserNames
    BY <2>5 DEF NewPasswordKept, PagesTyped
  <2> QED
    BY <1>2, <2>1, <2>6
<1>5. CASE ~DoCreateAccount /\ ~(CurrentPasswordReplied /\ Verified)
  <2>1. \/ AskNothing
        \/ \E page, op, user, password :
              /\ op \in Plain /\ page # "withdraw" /\ user \in {appUsername, login.user}
              /\ Ask(Request(page, op, user, password))
    BY <1>5 DEF UserStep, PostedStep, EditLogin, DoLogin, EditSignup,
                DoRefresh, DoHistory, EditSettings, DoChangePassword, ToggleLockConfirm,
                DoLockAccount, DoLogout, Exit, LoginReplied, SignupReplied, Refreshed,
                HistoryReplied, CurrentPasswordReplied, PasswordChanged, LockReplied,
                ConnectionLost, ConnectionRefused, Refresh
  <2>2. appUsername \in UserNames /\ login.user \in UserNames
    BY DEF PagesTyped
  <2> QED
    BY <1>1, <2>1, <2>2
<1> QED
  BY <1>3, <1>4, <1>5

\* The conversions an amount goes through on its way into a request.
LEMMA Converted ==
    ASSUME NEW n \in U64
    PROVE  /\ I64Of(n) \in I64 /\ Minus(I64Of(n)) \in I64
           /\ 2 * n < Limit /\ n > 0 => Minus(I64Of(n)) < 0
BY LimitAssumption DEF U64, I64, I64Of, Minus

LEMMA TypedAmount ==
    ASSUME NEW n \in Typed \cup {Nil}
    PROVE  /\ n > 0 => n \in U64
           /\ n # Nil => n \in U64 /\ n \in Typed
           /\ SmallAmounts /\ n > 0 => 2 * n < Limit
           /\ ~(n <= 0) => n > 0
BY PaymentsAssumption DEF Nil, SmallAmounts, U64

LEMMA PaymentsAskWell ==
    ASSUME FormsTyped, PagesTyped, PaymentPages
    PROVE  AskNothing \/ \E r : Ask(r) /\ WellAsked(r)
<1>0. appUsername \in UserNames
  BY DEF PagesTyped
<1>1. CASE EditDeposit \/ EditWithdraw \/ EditTransfer \/ RequestConfirmation
  BY <1>1 DEF EditDeposit, EditWithdraw, EditTransfer, RequestConfirmation
<1>2. CASE DoDeposit
  <2> DEFINE c == I64Of(deposit.amount)
             r == Payment("deposit", "change", appUsername, NoOne, c)
  <2>1. deposit.amount \in Typed \cup {Nil} /\ deposit.amount > 0
    BY <1>2 DEF FormsTyped, DoDeposit
  <2>2. c \in I64
    BY <2>1, TypedAmount, Converted
  <2> HIDE DEF c
  <2>3. WellAsked(r)
    BY <1>0, <2>2 DEF WellAsked, Payment
  <2>4. Ask(r)
    BY <1>2 DEF DoDeposit, c
  <2> QED
    BY <2>3, <2>4
<1>3. CASE DoWithdraw
  <2> DEFINE c == Minus(I64Of(withdraw.amount))
             r == Payment("withdraw", "change", appUsername, NoOne, c)
  <2>1. CASE withdraw.amount <= 0
    BY <1>3, <2>1 DEF DoWithdraw
  <2>2. CASE ~(withdraw.amount <= 0)
    <3>1. withdraw.amount \in Typed \cup {Nil}
      BY DEF FormsTyped
    <3>2. c \in I64 /\ (SmallAmounts => c < 0)
      BY <2>2, <3>1, TypedAmount, Converted
    <3>3. Ask(r)
      BY <1>3, <2>2 DEF DoWithdraw
    <3> HIDE DEF c
    <3>4. WellAsked(r)
      BY <1>0, <3>2 DEF WellAsked, Payment
    <3> QED
      BY <3>3, <3>4
  <2> QED
    BY <2>1, <2>2
<1>4. CASE DoTransfer
  <2> DEFINE r == Payment("transfer", "transfer", appUsername, transfer.recipient, transfer.amount)
  <2>1. CASE transfer.amount = Nil
    BY <1>4, <2>1 DEF DoTransfer
  <2>2. CASE transfer.amount # Nil
    <3>1. transfer.amount \in U64
      BY <2>2, TypedAmount DEF FormsTyped
    <3>2. WellAsked(r)
      BY <1>0, <3>1 DEF WellAsked, Payment
    <3> QED
      BY <1>4, <2>2, <3>2 DEF DoTransfer
  <2> QED
    BY <2>1, <2>2
<1>5. CASE DepositReplied \/ WithdrawReplied \/ TransferReplied
  <2> DEFINE r == Request("dashboard", "history", appUsername, Empty)
  <2>1. PICK page, op : Settled(page, op)
    BY <1>5 DEF DepositReplied, WithdrawReplied, TransferReplied
  <2>2. AskNothing \/ Ask(r)
    BY <2>1 DEF Settled, RefreshAfter, Refresh
  <2>3. WellAsked(r)
    BY <1>0 DEF WellAsked, Request
  <2> QED
    BY <2>2, <2>3
<1> QED
  BY <1>1, <1>2, <1>3, <1>4, <1>5 DEF PaymentPages

LEMMA UiAsks ==
    ASSUME PayInv, UiStep
    PROVE  MayRun /\ (AskNothing \/ \E r : Ask(r) /\ WellAsked(r))
<1>1. CASE UserStep \/ PostedStep
  BY <1>1, UserRuns, UserAsksWell DEF PayInv, JoinInv
<1>2. CASE PaymentPages
  BY <1>2, PaymentsAsk, PaymentsAskWell DEF PayInv, JoinInv
<1>3. CASE UNCHANGED paymentsVars
  BY <1>3 DEF paymentsVars, terminalVars, ui, MayRun, AskNothing
<1> QED
  BY <1>1, <1>2, <1>3 DEF UiStep

LEMMA RepliesSaid ==
    ASSUME NEW r, TypeOK'
    PROVE  Says(r) \in Replies
BY DEF Says, TypeOK, Replies, Bool

LEMMA ClientStep ==
    ASSUME PayInv, IInv', [PaymentsNext]_paymentsVars
    PROVE  [ClientActs(Replies)]_clientVars
<1>1. reply' \in Replies /\ \A r : Says(r) \in Replies
  <2>1. TypeOK'
    BY DEF IInv
  <2> QED
    BY <2>1, RepliesSaid DEF TypeOK
<1>2. CASE UiStep
  <2>1. AskNothing \/ \E r : Ask(r)
    BY <1>2, UiAsks
  <2> QED
    BY <2>1 DEF AskNothing, Ask, ClientActs
<1>3. CASE ExecutePayment
  BY <1>1, <1>3 DEF ExecutePayment, ClientActs, Serves
<1>4. CASE Execute
  BY <1>1, <1>4 DEF Execute, ClientActs, Serves
<1>5. CASE Network
  BY <1>5 DEF Network, ClientActs, Serves
<1>6. CASE ServedElsewhere
  BY <1>6 DEF ServedElsewhere
<1> QED
  BY <1>2, <1>3, <1>4, <1>5, <1>6, Steps

LEMMA ClientKeeps ==
    ASSUME ~PartialWrites, PayInv, IInv', [PaymentsNext]_paymentsVars
    PROVE  ClientInv'
BY ClientStep, MatchStep, OnceStep DEF PayInv, ClientInv

\* The packet a server serves is a request.
LEMMA WholePackets ==
    ASSUME MatchInv(Replies), serving # <<>>, open, link = "up"
    PROVE  serving[1] \in 1 .. made
<1>1. PICK n \in 0 .. Len(stream) : LinedUp(n)
  BY DEF MatchInv
<1>2. ClientTypes(Replies)
  BY DEF MatchInv
<1>3. Len(serving) = 1 /\ Unread \in Nat /\ Len(writes) \in Nat /\ n \in Nat
  BY <1>2, Lengths
<1>4. serving[1] = pending[Unread + 1] /\ Len(pending) = Unread + 1 + n + Len(writes)
  BY <1>1, <1>3 DEF LinedUp
<1>5. Unread + 1 \in 1 .. Len(pending) /\ pending \in Seq(Ids)
  BY <1>2, <1>3, <1>4 DEF ClientTypes, ClientTypeOK
<1> QED
  BY <1>4, <1>5, ElementOfSeq DEF Ids

LEMMA ServedStep ==
    ASSUME ServedInv, MatchInv(Replies), MatchInv(Replies)', [ClientActs(Replies)]_clientVars
    PROVE  ServedInv'
<1> DEFINE Up == open /\ link = "up"
<1>1. (serving # <<>> \/ stream # <<>>)' => Up'
  <2>1. stream \in Seq([of : Ids, part : 1 .. 2])
    BY DEF MatchInv, ClientTypes, ClientTypeOK
  <2>2. CASE UNCHANGED <<serving, stream, open, link>>
    BY <2>2 DEF ServedInv
  <2>3. CASE Connect
    BY <2>3 DEF Connect, ServedInv, server
  <2>4. CASE Write
    BY <2>4 DEF Write, ServedInv
  <2>5. CASE ReceiveFails
    BY <2>5 DEF ReceiveFails, ServedInv, server
  <2>6. CASE Take
    <3>1. stream # <<>>
      BY <2>6 DEF Take
    <3> QED
      BY <2>6, <3>1 DEF Take, ServedInv
  <2>7. CASE \E says \in Replies : ServerAnswers(says)
    BY <2>7 DEF ServerAnswers, ServedInv
  <2>8. CASE ServerCloses
    BY <2>8 DEF ServerCloses
  <2>9. SendRequest \/ OnDisconnect \/ RunPost \/ WriteFails \/ Receive \/ UNCHANGED clientVars
            => UNCHANGED <<serving, stream, open, link>>
    BY DEF SendRequest, OnDisconnect, RunPost, WriteFails, Receive, clientVars, server
  <2> QED
    BY <2>2, <2>3, <2>4, <2>5, <2>6, <2>7, <2>8, <2>9 DEF ClientActs, IoStep, Serves
<1>2. (serving # <<>>)' => (serving[1] \in 1 .. made)'
  <2>1. ASSUME (MatchInv(Replies) /\ serving # <<>> /\ open /\ link = "up")'
        PROVE  (serving[1] \in 1 .. made)'
    BY <2>1, WholePackets, PTL
  <2> QED
    BY <1>1, <2>1
<1> QED
  BY <1>1, <1>2 DEF ServedInv

-----------------------------------------------------------------------------
(* What was asked, and what was answered.                                  *)

\* Requests are kept, and those that are made can be carried out.
LEMMA AskedKept ==
    ASSUME PayInv, UiStep
    PROVE  /\ made' >= made /\ UNCHANGED <<events, outbox>> /\ AskedInv'
           /\ \A id \in 1 .. made : asked'[id] = asked[id]
<1>1. made \in Nat /\ IsSeq(asked) /\ Len(asked) = made
  BY DEF PayInv, TermInv, LineInv, LineTypes
<1>2. CASE AskNothing
  BY <1>1, <1>2 DEF AskNothing, clientVars, io, server, PayInv, JoinInv, AskedInv
<1>3. ASSUME NEW r, Ask(r), WellAsked(r)
      PROVE  /\ made' >= made /\ UNCHANGED <<events, outbox>> /\ AskedInv'
             /\ \A id \in 1 .. made : asked'[id] = asked[id]
  <2>1. made' = made + 1 /\ UNCHANGED <<events, outbox>>
    BY <1>3 DEF Ask, SendRequest, server
  <2>2. asked'[made'] = r /\ \A id \in 1 .. made : asked'[id] = asked[id]
    BY <1>1, <1>3, <2>1, SeqAppend DEF Ask
  <2>3. \A k \in 1 .. made' : k \in 1 .. made \/ k = made'
    BY <1>1, <2>1
  <2>4. ASSUME NEW k \in 1 .. made' PROVE WellAsked(asked'[k])
    BY <1>3, <2>2, <2>3 DEF PayInv, JoinInv, AskedInv
  <2>5. \A k : WellAsked(asked[k])' <=> WellAsked(asked'[k])
    BY DEF WellAsked, SmallAmounts
  <2>6. AskedInv'
    BY <2>4, <2>5 DEF AskedInv
  <2> QED
    BY <1>1, <2>1, <2>2, <2>6
<1> QED
  BY <1>2, <1>3, UiAsks

LEMMA AskedStays ==
    ASSUME AskedInv, UNCHANGED <<asked, made>>
    PROVE  AskedInv'
BY DEF AskedInv, WellAsked, SmallAmounts

\* A reply that says what is in a history is asked for by GetTransactions.
LEMMA HistorySaid ==
    ASSUME TypeOK', NEW r, r.op = "history", Perform(r)
    PROVE  Says(r) \in Histories
<1>1. GetTransactions(r.user, 5)
  BY DEF Perform
<1>2. reply' \in Replies /\ reply'.kind = "txns"
  BY <1>1 DEF GetTransactions, Answer, TypeOK
<1>3. reply' \in Histories
  BY <1>2 DEF Replies, Histories, NoReply
<1> QED
  BY <1>3 DEF Says

LEMMA AnswerStep ==
    ASSUME RepliesInv, ServedInv, ClientTypes(Replies), NEW says, ServerAnswers(says),
           says \in Replies,
           asked[serving[1]].op = "history" => says \in Histories,
           UNCHANGED asked
    PROVE  RepliesInv'
<1> DEFINE r == [to |-> serving[1], says |-> says]
<1>1. /\ outbox' = Append(outbox, r) /\ UNCHANGED <<made, events>> /\ serving # <<>>
  BY DEF ServerAnswers, io
<1>2. r.to \in 1 .. made /\ (asked[r.to].op = "history" => r.says \in Histories)
  BY <1>1 DEF ServedInv
<1> HIDE DEF r
<1>3. outbox \in Seq(Answers(Replies))
  BY DEF ClientTypes
<1>4. /\ Len(outbox') = Len(outbox) + 1 /\ Len(outbox) \in Nat /\ outbox'[Len(outbox) + 1] = r
      /\ \A k \in 1 .. Len(outbox) : outbox'[k] = outbox[k]
  BY <1>1, <1>3, AnySeq, SeqAppend, SeqFacts
<1>5. \A k \in 1 .. Len(outbox') : k \in 1 .. Len(outbox) \/ k = Len(outbox) + 1
  BY <1>4
<1>6. \A k \in 1 .. Len(outbox) : k \in 1 .. Len(outbox')
  BY <1>4
<1> QED
  BY <1>1, <1>2, <1>4, <1>5, <1>6 DEF RepliesInv, IsCall

\* Events that are added are failures or hand over a reply.
LEMMA MoreEvents ==
    ASSUME RepliesInv, UNCHANGED <<asked, made, outbox>>, IsSeq(events), NEW new, IsSeq(new),
           events' = events \o new,
           \A k \in 1 .. Len(new) : new[k].kind = "call" /\ new[k].ok =>
               \E j \in 1 .. Len(outbox) : new[k].reply = outbox[j]
    PROVE  RepliesInv'
<1>1. /\ Len(events') = Len(events) + Len(new) /\ Len(events) \in Nat /\ Len(new) \in Nat
      /\ \A k \in 1 .. Len(events) : events'[k] = events[k]
      /\ \A k \in 1 .. Len(new) : events'[Len(events) + k] = new[k]
  BY SeqConcat, SeqFacts
<1>2. \A e \in 1 .. Len(events') :
          e \in 1 .. Len(events) \/ \E k \in 1 .. Len(new) : e = Len(events) + k
  <2> SUFFICES ASSUME NEW e \in 1 .. Len(events'), e \notin 1 .. Len(events)
               PROVE  \E k \in 1 .. Len(new) : e = Len(events) + k
    OBVIOUS
  <2>1. e - Len(events) \in 1 .. Len(new) /\ e = Len(events) + (e - Len(events))
    BY <1>1
  <2> QED
    BY <2>1
<1>3. ASSUME NEW e \in 1 .. Len(events'), events'[e].kind = "call", events'[e].ok
      PROVE  \E k \in 1 .. Len(outbox) : events'[e].reply = outbox[k]
  <2>1. CASE e \in 1 .. Len(events)
    BY <1>1, <1>3, <2>1 DEF RepliesInv, IsCall
  <2>2. CASE \E k \in 1 .. Len(new) : e = Len(events) + k
    BY <1>1, <1>3, <2>2
  <2> QED
    BY <1>2, <2>1, <2>2
<1> QED
  BY <1>3 DEF RepliesInv, IsCall

LEMMA OneMore ==
    ASSUME NEW s, NEW e, IsSeq(s)
    PROVE  /\ Append(s, e) = s \o <<e>>
           /\ IsSeq(<<e>>) /\ Len(<<e>>) = 1 /\ <<e>>[1] = e
<1> DEFINE S == {s[k] : k \in DOMAIN s} \cup {e}
<1>1. s \in Seq(S) /\ e \in S
  BY DEF IsSeq
<1> HIDE DEF S
<1>2. Append(s, e) = s \o <<e>> /\ <<e>> \in Seq(S)
  BY <1>1
<1> QED
  BY <1>2, AnySeq

LEMMA NoMore == IsSeq(<<>>) /\ Len(<<>>) = 0 /\ 1 .. Len(<<>>) = {}
<1>1. <<>> \in Seq({1})
  OBVIOUS
<1>2. IsSeq(<<>>)
  BY <1>1, AnySeq
<1> QED
  BY <1>2

LEMMA Grouped ==
    ASSUME NEW a, NEW b, NEW c, IsSeq(a), IsSeq(b), IsSeq(c)
    PROVE  (a \o b) \o c = a \o (b \o c)
<1> DEFINE S == {a[k] : k \in DOMAIN a} \cup {b[k] : k \in DOMAIN b} \cup {c[k] : k \in DOMAIN c}
<1>1. a \in Seq(S) /\ b \in Seq(S) /\ c \in Seq(S)
  BY DEF IsSeq
<1> HIDE DEF S
<1> QED
  BY <1>1, ConcatAssociative

LEMMA NetworkReplies ==
    ASSUME PayInv, Network
    PROVE  RepliesInv'
<1>1. /\ RepliesInv /\ UNCHANGED asked /\ IsSeq(events) /\ IsSeq(pending)
      /\ pending \in Seq(Ids) /\ outbox \in Seq(Answers(Replies)) /\ got \in 0 .. Len(outbox)
  BY DEF Network, ui, PayInv, JoinInv, TermInv, LineInv, LineTypes, ClientInv, MatchInv,
         ClientTypes, ClientTypeOK
<1>2. UNCHANGED <<made, outbox>>
  BY DEF Network, OnDisconnect, IoStep, Connect, RunPost, Write, WriteFails, Receive,
         ReceiveFails, Take, ServerCloses, server, io
<1> DEFINE Fine(x) == x.kind = "call" /\ x.ok => \E j \in 1 .. Len(outbox) : x.reply = outbox[j]
<1>3. ASSUME NEW x, Fine(x), events' = Append(events, x)
      PROVE  RepliesInv'
  <2>1. events' = events \o <<x>> /\ IsSeq(<<x>>) /\ Len(<<x>>) = 1 /\ <<x>>[1] = x
    BY <1>1, <1>3, OneMore
  <2>2. \A k \in 1 .. Len(<<x>>) : Fine(<<x>>[k])
    BY <1>3, <2>1
  <2> DEFINE new == <<x>>
  <2> HIDE DEF new
  <2>3. events' = events \o new /\ IsSeq(new) /\ \A k \in 1 .. Len(new) : Fine(new[k])
    BY <2>1, <2>2 DEF new
  <2> QED
    BY <1>1, <1>2, <2>3, MoreEvents
<1>4. ASSUME UNCHANGED events
      PROVE  RepliesInv'
  BY <1>1, <1>2, <1>4 DEF RepliesInv, IsCall
<1>5. Fine(Lost) /\ Fine(Refused) /\ \A id : Fine(Failed(id))
  BY DEF Lost, Refused, Failed, Called
<1>6. CASE OnDisconnect \/ Write \/ Take \/ ServerCloses
  BY <1>4, <1>6 DEF OnDisconnect, Write, Take, ServerCloses, io
<1>7. CASE Connect
  <2> HIDE DEF Fine
  <2> QED
    BY <1>3, <1>4, <1>5, <1>7 DEF Connect
<1>8. CASE RunPost
  <2> HIDE DEF Fine
  <2> QED
    BY <1>3, <1>4, <1>5, <1>8 DEF RunPost
<1>9. CASE Receive
  <2>1. CASE pending = <<>>
    BY <1>4, <1>9, <2>1 DEF Receive
  <2>2. CASE pending # <<>>
    <3> DEFINE x == Called(NextHandler, TRUE, outbox[got'])
    <3>1. events' = Append(events, x)
      BY <1>9, <2>2 DEF Receive
    <3>2. got' \in 1 .. Len(outbox)
      BY <1>1, <1>9, LenProperties DEF Receive
    <3>3. Fine(x)
      BY <3>2 DEF Called
    <3> HIDE DEF x, Fine
    <3> QED
      BY <1>3, <3>1, <3>3
  <2> QED
    BY <2>1, <2>2
<1>10. /\ IsSeq(Notice) /\ \A k \in 1 .. Len(Notice) : Fine(Notice[k])
  <2> HIDE DEF Fine
  <2>1. CASE hook = "installed"
    <3>1. Notice = <<Lost>>
      BY <2>1 DEF Notice
    <3> QED
      BY <1>1, <1>5, <3>1, OneMore
  <2>2. CASE hook # "installed"
    <3>1. Notice = <<>>
      BY <2>2 DEF Notice
    <3> QED
      BY <3>1, NoMore
  <2> QED
    BY <2>1, <2>2
<1>11. CASE WriteFails
  BY <1>1, <1>2, <1>10, <1>11, MoreEvents DEF WriteFails
<1>12. CASE ReceiveFails
  <2>1. events' = (events \o Notice) \o FailPending
    BY <1>12 DEF ReceiveFails
  <2>2. /\ IsSeq(FailPending) /\ Len(FailPending) = Len(pending)
        /\ \A k \in 1 .. Len(FailPending) : FailPending[k] = Failed(pending[k])
    <3>1. Len(pending) \in Nat
      BY <1>1, SeqFacts
    <3> DEFINE f(k) == Failed(pending[k])
    <3>2. FailPending = [k \in 1 .. Len(pending) |-> f(k)]
      BY DEF FailPending
    <3> HIDE DEF f
    <3>3. FailPending \in Seq({f(k) : k \in 1 .. Len(pending)}) /\ Len(FailPending) = Len(pending)
      BY <3>1, <3>2
    <3> QED
      BY <3>2, <3>3, AnySeq DEF f
  <2> DEFINE new == Notice \o FailPending
  <2>3. events' = events \o new
    <3>1. (events \o Notice) \o FailPending = events \o (Notice \o FailPending)
      <4>1. IsSeq(events) /\ IsSeq(Notice) /\ IsSeq(FailPending)
        BY <1>1, <1>10, <2>2
      <4> QED
        BY <4>1, Grouped
    <3> QED
      BY <2>1, <3>1
  <2>4. IsSeq(new) /\ \A k \in 1 .. Len(new) : Fine(new[k])
    <3> HIDE DEF Fine
    <3>1. \A k \in 1 .. Len(FailPending) : Fine(FailPending[k])
      BY <1>5, <2>2
    <3>2. /\ IsSeq(new) /\ Len(new) = Len(Notice) + Len(FailPending)
          /\ \A k \in 1 .. Len(Notice) : new[k] = Notice[k]
          /\ \A k \in 1 .. Len(FailPending) : new[Len(Notice) + k] = FailPending[k]
      BY <1>10, <2>2, SeqConcat
    <3>3. Len(Notice) \in Nat /\ Len(FailPending) \in Nat
      BY <1>10, <2>2, SeqFacts
    <3> HIDE DEF new
    <3>4. ASSUME NEW k \in 1 .. Len(new) PROVE Fine(new[k])
      <4>1. CASE k <= Len(Notice)
        BY <1>10, <3>2, <3>3, <4>1
      <4>2. CASE ~(k <= Len(Notice))
        <5>1. k - Len(Notice) \in 1 .. Len(FailPending) /\ k = Len(Notice) + (k - Len(Notice))
          BY <3>2, <3>3, <4>2
        <5> QED
          BY <3>1, <3>2, <5>1
      <4> QED
        BY <4>1, <4>2
    <3> QED
      BY <3>2, <3>4
  <2> HIDE DEF new
  <2> QED
    BY <1>1, <1>2, <2>3, <2>4, MoreEvents
<1> QED
  BY <1>6, <1>7, <1>8, <1>9, <1>11, <1>12 DEF Network, IoStep

\* What the network and the server do leaves the requests as they are.
LEMMA AskedStep ==
    ASSUME PayInv, [PaymentsNext]_paymentsVars
    PROVE  AskedInv'
<1>1. CASE UiStep
  BY <1>1, AskedKept
<1>2. CASE Execute \/ ExecutePayment
  <2>1. UNCHANGED <<asked, made>>
    BY <1>2 DEF Execute, ExecutePayment, ServerAnswers, ui
  <2> QED
    BY <2>1, AskedStays DEF PayInv, JoinInv
<1>3. CASE Network
  <2>1. UNCHANGED <<asked, made>>
    BY <1>3 DEF Network, OnDisconnect, IoStep, Connect, RunPost, Write, WriteFails, Receive,
                ReceiveFails, Take, ServerCloses, ui
  <2> QED
    BY <2>1, AskedStays DEF PayInv, JoinInv
<1>4. CASE ServedElsewhere
  <2>1. UNCHANGED <<asked, made>>
    BY <1>4 DEF ServedElsewhere, ui, clientVars
  <2> QED
    BY <2>1, AskedStays DEF PayInv, JoinInv
<1> QED
  BY <1>1, <1>2, <1>3, <1>4, Steps

LEMMA RepliesStep ==
    ASSUME PayInv, IInv', [PaymentsNext]_paymentsVars
    PROVE  RepliesInv'
<1>1. RepliesInv /\ ServedInv /\ ClientTypes(Replies) /\ TypeOK'
  BY DEF PayInv, JoinInv, ClientInv, MatchInv, IInv
<1>2. reply' \in Replies /\ \A r : Says(r) \in Replies
  BY <1>1, RepliesSaid DEF TypeOK
<1>3. CASE UiStep
  <2>1. /\ made' >= made /\ UNCHANGED <<events, outbox>>
        /\ \A id \in 1 .. made : asked'[id] = asked[id]
    BY <1>3, AskedKept
  <2>2. made \in Nat /\ made' \in Int
    <3>1. made \in Nat
      BY DEF PayInv, TermInv, LineInv, LineTypes
    <3>2. MayRun /\ MayAsk
      BY <1>3, UiAsks DEF MayAsk
    <3>3. made' \in {made, made + 1}
      BY <3>2, UiLine DEF PayInv, TermInv
    <3> QED
      BY <3>1, <3>3
  <2>3. \A id \in 1 .. made : id \in 1 .. made'
    BY <2>1, <2>2
  <2> QED
    BY <1>1, <2>1, <2>3 DEF RepliesInv, IsCall
<1>4. CASE Execute
  <2> DEFINE r == asked[serving[1]]
  <2>1. /\ Perform(r) /\ ServerAnswers(Says(r)) /\ UNCHANGED asked
    BY <1>4 DEF Execute, ui
  <2>2. r.op = "history" => Says(r) \in Histories
    BY <1>1, <2>1, HistorySaid
  <2> QED
    BY <1>1, <1>2, <2>1, <2>2, AnswerStep
<1>5. CASE ExecutePayment
  <2>1. asked[serving[1]].op # "history" /\ ServerAnswers(reply') /\ UNCHANGED asked
    BY <1>5 DEF ExecutePayment, ui
  <2> QED
    BY <1>1, <1>2, <2>1, AnswerStep
<1>6. CASE Network
  BY <1>6, NetworkReplies
<1>7. CASE ServedElsewhere
  <2>1. UNCHANGED <<asked, made, outbox, events>>
    BY <1>7 DEF ServedElsewhere, ui, clientVars, io, server
  <2> QED
    BY <1>1, <2>1 DEF RepliesInv, IsCall
<1> QED
  BY <1>3, <1>4, <1>5, <1>6, <1>7, Steps

-----------------------------------------------------------------------------
(* The fields of the pages.                                                *)

LEMMA FormsStep ==
    ASSUME FormsTyped, [PaymentsNext]_paymentsVars
    PROVE  FormsTyped'
<1>1. CASE UNCHANGED forms
  BY <1>1 DEF FormsTyped, forms
<1>2. CASE EditDeposit \/ DoDeposit \/ DepositReplied
  BY <1>2 DEF FormsTyped, EditDeposit, DoDeposit, DepositReplied
<1>3. CASE EditWithdraw \/ DoWithdraw \/ WithdrawReplied
  BY <1>3 DEF FormsTyped, EditWithdraw, DoWithdraw, WithdrawReplied
<1>4. CASE EditTransfer \/ RequestConfirmation \/ DoTransfer \/ TransferReplied
  BY <1>4 DEF FormsTyped, EditTransfer, RequestConfirmation, DoTransfer, TransferReplied
<1>5. CASE ExecutePayment
  BY <1>1, <1>5 DEF ExecutePayment
<1> QED
  BY <1>1, <1>2, <1>3, <1>4, <1>5 DEF PaymentsNext, paymentsVars

LEMMA NewestTyped ==
    ASSUME NEW txns \in Seq(TransactionRecord)
    PROVE  NewestBalance(txns) \in U64
<1>1. CASE txns = <<>>
  BY <1>1, LimitAssumption DEF NewestBalance, U64
<1>2. CASE txns # <<>>
  <2>1. Len(txns) \in 1 .. Len(txns)
    BY <1>2, EmptySeq, LenProperties
  <2>2. txns[Len(txns)] \in TransactionRecord
    BY <2>1, ElementOfSeq
  <2>3. txns[Len(txns)].balanceAfter \in U64
    BY <2>2 DEF TransactionRecord
  <2> QED
    BY <1>2, <2>3 DEF NewestBalance
<1> QED
  BY <1>1, <1>2

\* A dashboard that is refreshed is given a history, of a user it asked for.
LEMMA RefreshedTypes ==
    ASSUME PayInv, Refreshed
    PROVE  /\ asked[Event.id].user \in UserNames
           /\ Event.ok => NewestBalance(Event.reply.says.value) \in U64
<1>1. /\ seen < Len(events) /\ Event = events[seen + 1] /\ Event.kind = "call"
      /\ asked[Event.id].op = "history"
  BY DEF Refreshed, Replied, Runs, Event, Answered
<1>2. seen + 1 \in 1 .. Len(events)
  BY <1>1, SeqFacts DEF PayInv, TermInv, LineInv, LineTypes
<1>3. Event.id \in 1 .. made
  BY <1>1, <1>2 DEF PayInv, TermInv, LineInv, LineTypes, IsCall
<1>4. asked[Event.id].user \in UserNames
  BY <1>3 DEF PayInv, JoinInv, AskedInv, WellAsked
<1>5. ASSUME Event.ok
      PROVE  NewestBalance(Event.reply.says.value) \in U64
  <2>1. PICK k \in 1 .. Len(outbox) : Event.reply = outbox[k]
    BY <1>1, <1>2, <1>5 DEF PayInv, JoinInv, RepliesInv, IsCall
  <2>2. Event.reply.to = Event.id
    BY <1>1, <1>2 DEF PayInv, ClientInv, MatchInv, Matched
  <2>3. outbox[k].says \in Histories
    BY <1>1, <2>1, <2>2 DEF PayInv, JoinInv, RepliesInv
  <2>4. Event.reply.says.value \in Seq(TransactionRecord)
    BY <2>1, <2>3 DEF Histories
  <2> QED
    BY <2>4, NewestTyped
<1> QED
  BY <1>4, <1>5

LEMMA HistoryTypes ==
    ASSUME PayInv, HistoryReplied
    PROVE  asked[Event.id].user \in UserNames
<1>1. seen < Len(events) /\ Event = events[seen + 1] /\ Event.kind = "call"
  BY DEF HistoryReplied, Replied, Runs, Event
<1>2. seen + 1 \in 1 .. Len(events)
  BY <1>1, SeqFacts DEF PayInv, TermInv, LineInv, LineTypes
<1>3. Event.id \in 1 .. made
  BY <1>1, <1>2 DEF PayInv, TermInv, LineInv, LineTypes, IsCall
<1> QED
  BY <1>3 DEF PayInv, JoinInv, AskedInv, WellAsked

\* What the pages hold besides the dashboard and the history.
FieldsTyped ==
    /\ appUsername \in UserNames
    /\ login.user \in UserNames /\ login.password \in PasswordTexts /\ login.loading \in BOOLEAN
    /\ signup.user \in UserNames /\ signup.password \in PasswordTexts
    /\ signup.loading \in BOOLEAN
    /\ settings.current \in PasswordTexts /\ settings.new \in PasswordTexts

\* One page at a time.
LEMMA OneField ==
    ASSUME PagesTyped, appUsername' \in UserNames
    PROVE  /\ login'.user \in UserNames /\ login'.password \in PasswordTexts
                /\ login'.loading \in BOOLEAN /\ UNCHANGED <<signup, settings>> => FieldsTyped'
           /\ signup'.user \in UserNames /\ signup'.password \in PasswordTexts
                /\ signup'.loading \in BOOLEAN /\ UNCHANGED <<login, settings>> => FieldsTyped'
           /\ settings'.current \in PasswordTexts /\ settings'.new \in PasswordTexts
                /\ UNCHANGED <<login, signup>> => FieldsTyped'
BY DEF PagesTyped, FieldsTyped

LEMMA OutFields ==
    ASSUME PagesTyped, login' = [ClearedLogin EXCEPT !.status = login'.status],
           UNCHANGED <<appUsername, signup, settings>>
    PROVE  FieldsTyped'
<1>1. /\ login'.user = Empty /\ login'.password = Empty /\ login'.loading = FALSE
      /\ appUsername' \in UserNames
  BY DEF ClearedLogin, PagesTyped
<1> QED
  BY <1>1, OneField DEF UserNames, PasswordTexts

LEMMA UserFields ==
    ASSUME FieldsInv, PagesTyped, UserStep
    PROVE  FieldsTyped'
<1>0. appUsername' \in UserNames
  BY DEF PagesTyped, UserStep, EditLogin, DoLogin, EditSignup, DoCreateAccount, DoRefresh,
         DoHistory, EditSettings, DoChangePassword, ToggleLockConfirm, DoLockAccount, DoLogout, Exit
<1>1. CASE UNCHANGED <<login, signup, settings>>
  BY <1>0, <1>1, OneField DEF PagesTyped
<1>2. CASE EditLogin
  <2>1. PICK u \in Users, p \in Passwords : login' = [login EXCEPT !.user = u, !.password = p]
    BY <1>2 DEF EditLogin
  <2>2. login'.user = u /\ login'.password = p /\ login'.loading = login.loading
    BY <2>1 DEF FieldsInv
  <2> QED
    BY <1>0, <1>2, <2>2, OneField DEF EditLogin, PagesTyped, UserNames, PasswordTexts
<1>3. CASE DoLogin
  <2>1. /\ login'.user = login.user /\ login'.password = login.password
        /\ login'.loading \in {login.loading, TRUE}
    BY <1>3 DEF DoLogin, FieldsInv
  <2> QED
    BY <1>0, <1>3, <2>1, OneField DEF DoLogin, PagesTyped
<1>4. CASE EditSignup
  <2>1. PICK u \in Users, p \in Passwords : signup' = [signup EXCEPT !.user = u, !.password = p]
    BY <1>4 DEF EditSignup
  <2>2. signup'.user = u /\ signup'.password = p /\ signup'.loading = signup.loading
    BY <2>1 DEF FieldsInv
  <2> QED
    BY <1>0, <1>4, <2>2, OneField DEF EditSignup, PagesTyped, UserNames, PasswordTexts
<1>5. CASE DoCreateAccount
  <2>1. /\ signup'.user = signup.user /\ signup'.password = signup.password
        /\ signup'.loading = TRUE
    BY <1>5 DEF DoCreateAccount, FieldsInv
  <2> QED
    BY <1>0, <1>5, <2>1, OneField DEF DoCreateAccount, PagesTyped
<1>6. CASE EditSettings
  <2>1. PICK p, q \in Passwords : settings' = [settings EXCEPT !.current = p, !.new = q]
    BY <1>6 DEF EditSettings
  <2>2. settings'.current = p /\ settings'.new = q
    BY <2>1 DEF FieldsInv
  <2> QED
    BY <1>0, <1>6, <2>2, OneField DEF EditSettings, PasswordTexts
<1>7. CASE DoChangePassword \/ ToggleLockConfirm \/ DoLockAccount
  <2>1. settings'.current = settings.current /\ settings'.new = settings.new
    BY <1>7 DEF DoChangePassword, ToggleLockConfirm, DoLockAccount, FieldsInv
  <2> QED
    BY <1>0, <1>7, <2>1, OneField
       DEF DoChangePassword, ToggleLockConfirm, DoLockAccount, PagesTyped
<1>8. CASE DoLogout
  <2>1. login' = ClearedLogin
    BY <1>8 DEF DoLogout, LogOut
  <2>2. login' = [ClearedLogin EXCEPT !.status = login'.status]
    BY <2>1 DEF ClearedLogin
  <2> QED
    BY <1>8, <2>2, OutFields DEF DoLogout
<1>9. CASE DoRefresh \/ DoHistory \/ Exit
  BY <1>1, <1>9 DEF DoRefresh, DoHistory, Exit
<1> QED
  BY <1>2, <1>3, <1>4, <1>5, <1>6, <1>7, <1>8, <1>9 DEF UserStep

LEMMA PostedFields ==
    ASSUME FieldsInv, PagesTyped, PostedStep
    PROVE  FieldsTyped'
<1>0. appUsername' \in UserNames
  BY DEF PagesTyped, PostedStep, LoginReplied, SignupReplied, Refreshed, HistoryReplied,
         CurrentPasswordReplied, PasswordChanged, LockReplied, ConnectionLost, ConnectionRefused
<1>1. CASE UNCHANGED <<login, signup, settings>>
  BY <1>0, <1>1, OneField DEF PagesTyped
<1>2. CASE LoginReplied
  <2>1. login'.user = login.user /\ login'.password = login.password /\ login'.loading = FALSE
    BY <1>2 DEF LoginReplied, FieldsInv
  <2> QED
    BY <1>0, <1>2, <2>1, OneField DEF LoginReplied, PagesTyped
<1>3. CASE SignupReplied
  <2>1. /\ signup'.user = signup.user /\ signup'.password = signup.password
        /\ signup'.loading = FALSE
    BY <1>3 DEF SignupReplied, FieldsInv
  <2> QED
    BY <1>0, <1>3, <2>1, OneField DEF SignupReplied, PagesTyped
<1>4. CASE CurrentPasswordReplied \/ PasswordChanged
  <2>1. /\ settings'.current \in {settings.current, Empty}
        /\ settings'.new \in {settings.new, Empty}
    BY <1>4 DEF CurrentPasswordReplied, PasswordChanged, FieldsInv
  <2> QED
    BY <1>0, <1>4, <2>1, OneField
       DEF CurrentPasswordReplied, PasswordChanged, PagesTyped, PasswordTexts
<1>5. CASE LockReplied
  <2>1. settings'.current = settings.current /\ settings'.new = settings.new
    BY <1>5 DEF LockReplied, FieldsInv
  <2>2. login'.user \in UserNames /\ login'.password \in PasswordTexts /\ login'.loading \in BOOLEAN
    <3>1. CASE login' = ClearedLogin
      <4>1. login'.user = Empty /\ login'.password = Empty /\ login'.loading = FALSE
        BY <3>1 DEF ClearedLogin
      <4> QED
        BY <4>1 DEF UserNames, PasswordTexts
    <3>2. CASE UNCHANGED login
      BY <3>2 DEF PagesTyped
    <3> QED
      BY <1>5, <3>1, <3>2 DEF LockReplied, LogOut
  <2> QED
    BY <1>0, <1>5, <2>1, <2>2 DEF LockReplied, PagesTyped, FieldsTyped
<1>6. CASE ConnectionLost
  <2>1. login' = [ClearedLogin EXCEPT !.status = "Connection to server lost"]
    BY <1>6 DEF ConnectionLost
  <2>2. login'.status = "Connection to server lost"
    BY <2>1 DEF ClearedLogin
  <2>3. login' = [ClearedLogin EXCEPT !.status = login'.status]
    BY <2>1, <2>2
  <2> QED
    BY <1>6, <2>3, OutFields DEF ConnectionLost
<1>7. CASE Refreshed \/ HistoryReplied \/ ConnectionRefused
  BY <1>1, <1>7 DEF Refreshed, HistoryReplied, ConnectionRefused
<1> QED
  BY <1>2, <1>3, <1>4, <1>5, <1>6, <1>7 DEF PostedStep

\* The dashboard and the history, unless their replies come in.
ScreensTyped ==
    /\ dash \in [owner : UserNames, balance : U64, loading : BOOLEAN]
    /\ history \in [shown : BOOLEAN, owner : UserNames, loading : BOOLEAN]

LEMMA UserScreens ==
    ASSUME PagesTyped, UserStep \/ (PostedStep /\ ~Refreshed /\ ~HistoryReplied)
    PROVE  ScreensTyped'
BY DEF PagesTyped, ScreensTyped, UserStep, PostedStep,
       EditLogin, DoLogin, EditSignup, DoCreateAccount, DoRefresh, DoHistory, EditSettings,
       DoChangePassword, ToggleLockConfirm, DoLockAccount, DoLogout, Exit, LogOut, FirstTab,
       LoginReplied, SignupReplied, CurrentPasswordReplied, Refresh,
       PasswordChanged, LockReplied, ConnectionLost, ConnectionRefused

LEMMA RepliedScreens ==
    ASSUME PayInv, Refreshed \/ HistoryReplied
    PROVE  ScreensTyped'
<1>1. ScreensTyped
  BY DEF PayInv, JoinInv, PagesTyped, ScreensTyped
<1>2. CASE Refreshed
  <2>1. dash' \in [owner : UserNames, balance : U64, loading : BOOLEAN]
    BY <1>2, RefreshedTypes, LimitAssumption DEF Refreshed, Answered, UserNames, U64
  <2> QED
    BY <1>1, <1>2, <2>1 DEF Refreshed, ScreensTyped
<1>3. CASE HistoryReplied
  <2>1. history' \in [shown : BOOLEAN, owner : UserNames, loading : BOOLEAN]
    BY <1>1, <1>3, HistoryTypes DEF HistoryReplied, Answered, UserNames, ScreensTyped
  <2> QED
    BY <1>1, <1>3, <2>1 DEF HistoryReplied, ScreensTyped
<1> QED
  BY <1>2, <1>3

LEMMA PagesStep ==
    ASSUME PayInv, [PaymentsNext]_paymentsVars
    PROVE  PagesTyped'
<1>1. PagesTyped /\ FieldsInv
  BY DEF PayInv, TermInv, JoinInv
<1>2. CASE UserStep \/ PostedStep
  <2>1. FieldsTyped' /\ ScreensTyped'
    BY <1>1, <1>2, UserFields, PostedFields, UserScreens, RepliedScreens
  <2> QED
    BY <2>1 DEF FieldsTyped, ScreensTyped, PagesTyped
<1>3. CASE PaymentPages
  <2>1. UNCHANGED <<appUsername, login, signup, settings, history>>
    BY <1>3, PaymentsAsk
  <2>2. dash' \in [owner : UserNames, balance : U64, loading : BOOLEAN]
    <3>1. CASE DepositReplied \/ WithdrawReplied \/ TransferReplied
      BY <1>1, <3>1 DEF PagesTyped, DepositReplied, WithdrawReplied, TransferReplied, Settled,
                        RefreshAfter, Refresh
    <3>2. CASE UNCHANGED Shell
      BY <1>1, <3>2 DEF PagesTyped, Shell
    <3> QED
      BY <1>3, <3>1, <3>2 DEF PaymentPages, EditDeposit, DoDeposit, EditWithdraw, DoWithdraw,
                              EditTransfer, RequestConfirmation, DoTransfer
  <2> QED
    BY <1>1, <2>1, <2>2 DEF PagesTyped
<1>4. CASE UNCHANGED pages
  BY <1>1, <1>4 DEF pages, PagesTyped
<1>5. Execute \/ ExecutePayment \/ ServedElsewhere \/ Network \/ UNCHANGED paymentsVars
         => UNCHANGED pages
  BY DEF Execute, ExecutePayment, ServedElsewhere, Network, ui, paymentsVars, terminalVars
<1> QED
  BY <1>2, <1>3, <1>4, <1>5, Steps DEF UiStep

-----------------------------------------------------------------------------
(* The new password.                                                       *)

\* Whoever waits for a confirmation waited before, but for doChangePassword.
LEMMA WaitersKept ==
    ASSUME LineInv, NewPasswordKept, MayRun,
           AskNothing \/ \E r : Ask(r) /\ ~(r.page = "settings" /\ r.op = "auth"),
           settings'.new \in Passwords \/ settings'.new = settings.new
    PROVE  NewPasswordKept'
<1> SUFFICES ASSUME NEW id \in Waiting({"settings"})', asked'[id].op = "auth"
             PROVE  settings'.new \in Passwords
  BY DEF NewPasswordKept
<1>1. MayAsk /\ made \in Nat
  BY DEF MayAsk, LineInv, LineTypes
<1>2. /\ made' \in {made, made + 1} /\ id \in 1 .. made' /\ asked'[id].page = "settings"
      /\ \A k \in 1 .. made : asked'[k] = asked[k] /\ (Awaited(k)' => Awaited(k))
  BY <1>1, UiLine DEF Waiting
<1>3. CASE id \in 1 .. made
  <2>1. id \in Waiting({"settings"}) /\ asked[id].op = "auth"
    BY <1>2, <1>3 DEF Waiting
  <2> QED
    BY <2>1 DEF NewPasswordKept
<1>4. CASE id \notin 1 .. made
  <2>1. id = made + 1 /\ made' = made + 1
    BY <1>1, <1>2, <1>4
  <2>2. ~AskNothing
    BY <1>1, <2>1 DEF AskNothing, clientVars
  <2>3. PICK r : Ask(r) /\ ~(r.page = "settings" /\ r.op = "auth")
    BY <2>2
  <2>4. asked'[id] = r
    BY <2>1, <2>3, AskLine
  <2> QED
    BY <1>2, <2>3, <2>4
<1> QED
  BY <1>3, <1>4

LEMMA OthersDoNotConfirm ==
    ASSUME (UserStep /\ ~DoChangePassword) \/ PostedStep
    PROVE  AskNothing \/ \E r : Ask(r) /\ ~(r.page = "settings" /\ r.op = "auth")
<1>1. \/ AskNothing
      \/ \E user : Refresh(user)
      \/ \E page, op, user, password : /\ page # "settings" \/ op # "auth"
                                       /\ Ask(Request(page, op, user, password))
  BY DEF UserStep, PostedStep, EditLogin, DoLogin, EditSignup, DoCreateAccount,
         DoRefresh, DoHistory, EditSettings, ToggleLockConfirm,
         DoLockAccount, DoLogout, Exit, LoginReplied, SignupReplied, Refreshed,
         HistoryReplied, CurrentPasswordReplied, PasswordChanged, LockReplied,
         ConnectionLost, ConnectionRefused
<1>2. ASSUME NEW page, NEW op, NEW user, NEW password, page # "settings" \/ op # "auth",
             Ask(Request(page, op, user, password))
      PROVE  \E r : Ask(r) /\ ~(r.page = "settings" /\ r.op = "auth")
  <2>1. /\ Request(page, op, user, password).op = op
        /\ Request(page, op, user, password).page = page
    BY DEF Request
  <2> QED
    BY <1>2, <2>1
<1>3. ASSUME NEW user, Refresh(user)
      PROVE  \E r : Ask(r) /\ ~(r.page = "settings" /\ r.op = "auth")
  <2>1. PICK r : Ask(r) /\ r.page \notin Watched
    BY <1>3, RefreshAsks
  <2> QED
    BY <2>1 DEF Watched
<1> QED
  BY <1>1, <1>2, <1>3

LEMMA NewPasswordStep ==
    ASSUME PayInv, [PaymentsNext]_paymentsVars
    PROVE  NewPasswordKept'
<1>1. /\ LineInv /\ FieldsInv /\ SettingsInv /\ NewPasswordKept
      /\ settings.new \in PasswordTexts
  BY DEF PayInv, TermInv, PagesInv, JoinInv, PagesTyped
<1>2. CASE UserStep /\ ~DoChangePassword
  <2>1. settings'.new \in Passwords \/ settings'.new = settings.new
    BY <1>1, <1>2 DEF FieldsInv, UserStep, EditLogin, DoLogin, EditSignup, DoCreateAccount,
           DoRefresh, DoHistory, EditSettings, ToggleLockConfirm, DoLockAccount, DoLogout, Exit
  <2> QED
    BY <1>1, <1>2, <2>1, UserRuns, OthersDoNotConfirm, WaitersKept
<1>3. CASE DoChangePassword
  <2>1. settings.new # Empty /\ settings'.new = settings.new
    BY <1>1, <1>3 DEF DoChangePassword, FieldsInv
  <2> QED
    BY <1>1, <2>1 DEF PasswordTexts, NewPasswordKept
<1>4. CASE PasswordChanged
  <2>1. Waiting({"settings"})' \subseteq Waiting({"settings"}) \ {Event.id}
        /\ Event.id \in Waiting({"settings"})
    BY <1>1, <1>4, RunEnds DEF PasswordChanged
  <2>2. Waiting({"settings"})' = {}
    BY <1>1, <2>1 DEF SettingsInv
  <2> QED
    BY <2>2 DEF NewPasswordKept
<1>5. CASE PostedStep /\ ~PasswordChanged
  <2>1. settings'.new = settings.new
    BY <1>1, <1>5 DEF FieldsInv, PostedStep, LoginReplied, SignupReplied, Refreshed,
           HistoryReplied, CurrentPasswordReplied, LockReplied, ConnectionLost, ConnectionRefused
  <2> QED
    BY <1>1, <1>5, <2>1, UserRuns, OthersDoNotConfirm, WaitersKept
<1>6. CASE PaymentPages
  <2>1. /\ MayRun /\ UNCHANGED settings
        /\ AskNothing \/ (\E r : Ask(r) /\ r.page \notin Watched)
    BY <1>6, PaymentsAsk
  <2>2. AskNothing \/ \E r : Ask(r) /\ ~(r.page = "settings" /\ r.op = "auth")
    BY <2>1 DEF Watched
  <2> QED
    BY <1>1, <2>1, <2>2, WaitersKept
<1>7. CASE Execute \/ ExecutePayment \/ Network
  <2>1. UNCHANGED ui
    BY <1>7 DEF Execute, ExecutePayment, Network
  <2>2. \/ OnDisconnect \/ IoStep \/ Take \/ ServerCloses
        \/ \E says : ServerAnswers(says)
    BY <1>7 DEF Execute, ExecutePayment, Network
  <2>3. LineInv' /\ Settles
    BY <1>1, <2>1, <2>2, NetworkLine DEF ui
  <2>4. made' = made /\ UNCHANGED <<asked, settings>>
    BY <1>1, <2>1, <2>3 DEF LineInv, LineTypes, ui, pages
  <2>5. Waiting({"settings"})' \subseteq Waiting({"settings"})
    BY <2>3, <2>4 DEF Waiting, Settles
  <2> QED
    BY <1>1, <2>4, <2>5 DEF NewPasswordKept
<1>8. CASE ServedElsewhere \/ UNCHANGED paymentsVars
  <2>1. MayRun /\ AskNothing /\ UNCHANGED settings
    BY <1>8 DEF ServedElsewhere, paymentsVars, terminalVars, ui, pages, MayRun, AskNothing
  <2> QED
    BY <1>1, <2>1, WaitersKept
<1> QED
  BY <1>2, <1>3, <1>4, <1>5, <1>6, <1>7, <1>8, Steps DEF UiStep

-----------------------------------------------------------------------------
(* The invariant of the whole.                                             *)

LEMMA PayInit ==
    ASSUME PaymentsInit
    PROVE  PayInv
<1>1. TermInv
  BY TermInit
<1>2. ClientInit /\ Init
  BY DEF PaymentsInit, TerminalInit
<1>3. ClientInv
  BY <1>2, MatchInit, OnceInit DEF ClientInv
<1>4. IInv
  BY <1>2, InitInv
<1>5. FormsTyped
  BY DEF PaymentsInit, FormsTyped
<1>6. PagesTyped
  <2>1. Empty \in UserNames /\ Empty \in PasswordTexts /\ 0 \in U64
    BY LimitAssumption DEF UserNames, PasswordTexts, U64
  <2>2. /\ appUsername = Empty
        /\ login.user = Empty /\ login.password = Empty /\ login.loading = FALSE
        /\ signup.user = Empty /\ signup.password = Empty /\ signup.loading = FALSE
        /\ settings.current = Empty /\ settings.new = Empty
        /\ dash = [owner |-> Empty, balance |-> 0, loading |-> FALSE]
        /\ history = [shown |-> FALSE, owner |-> Empty, loading |-> FALSE]
    BY DEF PaymentsInit, TerminalInit, ClearedLogin
  <2> QED
    BY <2>1, <2>2 DEF PagesTyped
<1>7. made = 0 /\ Len(outbox) = 0 /\ Len(events) = 0 /\ serving = <<>> /\ stream = <<>>
  BY <1>2 DEF ClientInit
<1>8. 1 .. 0 = {}
  OBVIOUS
<1>9. AskedInv /\ NewPasswordKept /\ RepliesInv /\ ServedInv
  BY <1>7, <1>8 DEF AskedInv, NewPasswordKept, Waiting, RepliesInv, ServedInv
<1>10. ElsewhereTyped
  BY TerminalAssumption DEF PaymentsInit, TerminalInit, ElsewhereTyped
<1> QED
  BY <1>1, <1>3, <1>4, <1>5, <1>6, <1>9, <1>10 DEF PayInv, JoinInv

LEMMA PayStep ==
    ASSUME Patient, ~PartialWrites, PayInv, [PaymentsNext]_paymentsVars
    PROVE  PayInv'
<1>1. TermInv'
  BY TermStep DEF PayInv
<1>2. IInv'
  BY LedgerStep
<1>3. ClientInv'
  BY <1>2, ClientKeeps
<1>4. ServedInv'
  BY <1>2, <1>3, ClientStep, ServedStep DEF PayInv, ClientInv, JoinInv
<1>5. AskedInv' /\ RepliesInv' /\ FormsTyped' /\ PagesTyped' /\ NewPasswordKept'
  BY <1>2, AskedStep, RepliesStep, FormsStep, PagesStep, NewPasswordStep DEF PayInv, JoinInv
<1>6. ElsewhereTyped'
  BY <1>2, ElsewhereStep DEF PayInv
<1> QED
  BY <1>1, <1>2, <1>3, <1>4, <1>5, <1>6 DEF PayInv, JoinInv

LEMMA PayInvariant ==
    ASSUME Patient, ~PartialWrites
    PROVE  PaymentsSpec => []PayInv
<1>1. PaymentsInit => PayInv
  BY PayInit
<1>2. PayInv /\ [PaymentsNext]_paymentsVars => PayInv'
  BY PayStep
<1> QED
  BY <1>1, <1>2, PTL DEF PaymentsSpec

LEMMA TypesFollow ==
    ASSUME PayInv
    PROVE  TerminalTypeOK
<1>1. ClientTypeOK /\ TypeOK
  BY DEF PayInv, ClientInv, MatchInv, ClientTypes, IInv
<1>2. Len(asked) = made /\ seen \in 0 .. Len(events) /\ section \in {0, 1}
  BY DEF PayInv, TermInv, LineInv, LineTypes, FieldsInv
<1>3. PagesTyped /\ FieldsInv
  BY DEF PayInv, JoinInv, TermInv
<1>4. signup \in Fields
  BY <1>3 DEF PagesTyped, FieldsInv, Fields, UserNames, PasswordTexts
<1>5. [f \in {"user", "password", "loading"} |-> login[f]] \in Fields
  BY <1>3 DEF PagesTyped, Fields, UserNames, PasswordTexts
<1> QED
  BY <1>1, <1>2, <1>3, <1>4, <1>5
     DEF TerminalTypeOK, PagesTyped, UserNames, PasswordTexts, PayInv, ElsewhereTyped

\* The pages, the client and the accounts keep their types together: the
\* dashboard (DashboardPage::doRefresh) reads the balance out of a reply that is
\* a history, and the password SettingPage.cpp sends after the confirmation is
\* one the user typed, not the field after the reply to another change cleared it.
THEOREM TerminalTypeCorrect ==
    ASSUME Patient, ~PartialWrites
    PROVE  PaymentsSpec => []TerminalTypeOK
<1>1. PayInv => TerminalTypeOK
  BY TypesFollow
<1> QED
  BY <1>1, PayInvariant, PTL

\* In front of the accounts and below the pages too, every handler of
\* Client.cpp is called once, and with the reply to its own request.
THEOREM PagesGetTheirReplies ==
    ASSUME Patient, ~PartialWrites
    PROVE  PaymentsSpec => [](RepliesMatch /\ CalledOnce)
<1>1. PayInv => RepliesMatch /\ CalledOnce
  BY RepliesMatched, OnceCalled DEF PayInv, ClientInv
<1> QED
  BY <1>1, PayInvariant, PTL

\* Whatever the pages let a user type, the accounts behind them
\* (DbManager::processItem) stay sound: nothing they send is outside of what
\* the theorems about the accounts assume.
THEOREM PagesKeepAccountsSound ==
    ASSUME Patient, ~PartialWrites
    PROVE  PaymentsSpec => [](BalancesAgree /\ HistoryChains /\ NoOverdraft)
<1>1. PayInv => BalancesAgree /\ HistoryChains /\ NoOverdraft
  BY DEF PayInv, IInv, IsSound, IsSoundAccount, BalancesAgree, HistoryChains, NoOverdraft
<1> QED
  BY <1>1, PayInvariant, PTL

-----------------------------------------------------------------------------
(* What a withdrawal does.                                                 *)

LEMMA Debited ==
    ASSUME TypeOK, NEW u, NEW c \in I64, c < 0, ChangeBalance(u, c), data' # data
    PROVE  data'[u].balance < data[u].balance
<1>1. CanChange(u, c)
  BY DEF ChangeBalance, Refuse
<1>2. u \in DOMAIN data /\ data[u].balance \in U64 /\ IsAccounts(data)
  BY <1>1 DEF TypeOK, CanChange, Open, Exists, IsAccounts, UserState
<1> DEFINE newBal == Wrap(data[u].balance + c)
<1>3. newBal < data[u].balance
  <2>1. -c <= data[u].balance
    BY <1>1 DEF CanChange
  <2> QED
    BY <1>2, <2>1, LimitAssumption DEF U64, I64, Wrap
<1>4. \E t : data' = AppendTxn([data EXCEPT ![u].balance = newBal], u, t)
  BY <1>1 DEF ChangeBalance, Commit
<1> HIDE DEF newBal
<1>5. data'[u].balance = newBal
  BY <1>2, <1>4 DEF AppendTxn, IsAccounts, UserState
<1> QED
  BY <1>3, <1>5

LEMMA WithdrawalStep ==
    ASSUME SmallAmounts, PayInv, [PaymentsNext]_paymentsVars,
           NEW id \in Range(serving) \ Range(serving'),
           asked[id].page = "withdraw", data' # data
    PROVE  data'[asked[id].user].balance < data[asked[id].user].balance
<1>1. serving = <<id>> /\ serving[1] = id /\ serving # <<>>
  <2>1. PICK x \in DOMAIN serving : id = serving[x]
    BY DEF Range
  <2>2. PICK k : serving = <<>> \/ serving = <<k>>
    BY DEF PayInv, ClientInv, MatchInv, ClientTypes, ClientTypeOK
  <2> QED
    BY <2>1, <2>2
<1>2. WellAsked(asked[id]) /\ TypeOK
  BY <1>1 DEF PayInv, JoinInv, ServedInv, AskedInv, IInv
<1>3. CASE UiStep
  BY <1>3, UiLedger DEF ledger
<1>4. CASE Network
  BY <1>4 DEF Network, bank, ledger
<1>5. CASE Execute
  BY <1>1, <1>2, <1>5 DEF Execute, Perform, WellAsked
<1>6. CASE ExecutePayment
  <2> DEFINE r == asked[id]
  <2>1. r.op = "change" /\ r.amount \in I64 /\ r.amount < 0
    BY <1>1, <1>2, <1>6 DEF ExecutePayment, WellAsked
  <2>2. ChangeBalance(r.user, r.amount)
    BY <1>1, <1>6, <2>1 DEF ExecutePayment
  <2> QED
    BY <1>2, <2>1, <2>2, Debited
<1>7. CASE ServedElsewhere
  BY <1>7 DEF ServedElsewhere, clientVars, server
<1> QED
  BY <1>3, <1>4, <1>5, <1>6, <1>7, Steps

\* WithdrawPage.cpp: as long as the amounts typed fit in an i64, a withdrawal
\* that succeeds has taken money out of the account, also when the user who
\* asked for it has left, and one after the other if several are on the way.
THEOREM WithdrawalsDebit ==
    ASSUME Patient, ~PartialWrites, SmallAmounts
    PROVE  PaymentsSpec => WithdrawalsTakeMoney
<1> DEFINE Takes ==
        \A id \in Range(serving) \ Range(serving') :
           asked[id].page = "withdraw" /\ reply' = Bool(TRUE) /\ data' # data
               => data'[asked[id].user].balance < data[asked[id].user].balance
<1>1. PayInv /\ [PaymentsNext]_paymentsVars => [Takes]_paymentsVars
  BY WithdrawalStep
<1> QED
  BY <1>1, PayInvariant, PTL DEF PaymentsSpec, WithdrawalsTakeMoney

\* The accounts are a server that Service allows, as the client assumes of it.
THEOREM AccountsServe ==
    ASSUME Patient, ~PartialWrites
    PROVE  PaymentsSpec => ServerIsService
<1>1. PaymentsInit => Conn!Init
  BY ServiceInit DEF PaymentsInit, TerminalInit
<1>2. PayInv /\ PayInv' /\ [PaymentsNext]_paymentsVars => [Conn!Next]_(Conn!connection)
  BY ClientStep, ServiceStep DEF PayInv, ClientInv, MatchInv
<1> QED
  BY <1>1, <1>2, PayInvariant, PTL DEF PaymentsSpec, ServerIsService, Conn!Spec

=============================================================================
