------------------------------ MODULE Payments ------------------------------
(***************************************************************************)
(* The pages that move money (app/pages/DepositPage, WithdrawPage and      *)
(* TransferPage), added to Terminal.                                       *)
(*                                                                         *)
(* An amount field is empty or the number std::stoull makes of it; what it *)
(* does not parse only sets a status.  The suggestions of the transfer     *)
(* page change nothing but what the user reads and are left out.           *)
(***************************************************************************)
EXTENDS Terminal, Functions

CONSTANTS
    Typed,       \* amounts the user types
    Pays         \* what the user does: some of AllPayments

AllPayments == {"deposit", "withdraw", "transfer"}

ASSUME PaymentsAssumption == Typed \subseteq U64 /\ Pays \subseteq AllPayments

VARIABLES deposit, withdraw, transfer       \* the fields of the three pages

forms == <<deposit, withdraw, transfer>>
paymentsVars == <<terminalVars, forms>>

Nil == -1            \* the empty amount field

PaymentsInit ==
    /\ TerminalInit
    /\ deposit = [amount |-> Nil, loading |-> FALSE]
    /\ withdraw = [amount |-> Nil, showConfirm |-> FALSE, loading |-> FALSE]
    /\ transfer = [recipient |-> Empty, amount |-> Nil,
                   showConfirm |-> FALSE, loading |-> FALSE]

\* static_cast<i64> of a u64, and minus an i64, on 64 bits.
I64Of(n) == IF 2 * n < Limit THEN n ELSE n - Limit
SameSign(i) == i                                                        \* mutant
Minus(i) == IF 2 * i = -Limit THEN i ELSE -i

Payment(page, op, user, recipient, amount) ==
    [page |-> page, op |-> op, user |-> user, recipient |-> recipient, amount |-> amount]

-----------------------------------------------------------------------------
(* What the user does.                                                     *)

Pay(form) == Looping /\ section = 1 /\ form \in Pays /\ told' = FALSE
Shell == <<seen, running, section, appUsername, login, signup, settings, dash, history, bank>>

EditDeposit ==
    /\ Pay("deposit")
    /\ \E n \in Typed : deposit' = [deposit EXCEPT !.amount = n]
    /\ AskNothing
    /\ UNCHANGED <<withdraw, transfer, Shell>>

DoDeposit ==
    /\ Pay("deposit") /\ MaySubmit
    /\ deposit.amount > 0
    /\ deposit' = [deposit EXCEPT !.loading = TRUE]
    /\ Ask(Payment("deposit", "change", appUsername, NoOne, I64Of(deposit.amount)))
    /\ UNCHANGED <<withdraw, transfer, Shell>>

EditWithdraw ==
    /\ Pay("withdraw")
    /\ \/ \E n \in Typed : withdraw' = [withdraw EXCEPT !.amount = n]
       \/ withdraw' = [withdraw EXCEPT !.showConfirm = ~@]
    /\ AskNothing
    /\ UNCHANGED <<deposit, transfer, Shell>>

\* The dialog closes whether the amount was good or not.
DoWithdraw ==
    /\ Pay("withdraw") /\ MaySubmit /\ withdraw.showConfirm
    /\ IF withdraw.amount <= 0
       THEN AskNothing /\ withdraw' = [withdraw EXCEPT !.showConfirm = FALSE]
       ELSE /\ withdraw' = [withdraw EXCEPT !.showConfirm = FALSE, !.loading = TRUE]
            /\ Ask(Payment("withdraw", "change", appUsername, NoOne,
                           Minus(I64Of(withdraw.amount))))
    /\ UNCHANGED <<deposit, transfer, Shell>>

EditTransfer ==
    /\ Pay("transfer")
    /\ \/ \E u \in Users, n \in Typed :
              transfer' = [transfer EXCEPT !.recipient = u, !.amount = n]
       \/ transfer.showConfirm /\ transfer' = [transfer EXCEPT !.showConfirm = FALSE]
    /\ AskNothing
    /\ UNCHANGED <<deposit, withdraw, Shell>>

RequestConfirmation ==
    /\ Pay("transfer")
    /\ transfer.recipient \notin {Empty, appUsername}
    /\ transfer.amount > 0
    /\ transfer' = [transfer EXCEPT !.showConfirm = TRUE]
    /\ AskNothing
    /\ UNCHANGED <<deposit, withdraw, Shell>>

DoTransfer ==
    /\ Pay("transfer") /\ MaySubmit /\ transfer.showConfirm
    /\ IF transfer.amount = Nil
       THEN AskNothing /\ transfer' = [transfer EXCEPT !.showConfirm = FALSE]
       ELSE /\ transfer' = [transfer EXCEPT !.showConfirm = FALSE, !.loading = TRUE]
            /\ Ask(Payment("transfer", "transfer", appUsername, transfer.recipient,
                           transfer.amount))
    /\ UNCHANGED <<deposit, withdraw, Shell>>

-----------------------------------------------------------------------------
(* What the handlers post: after a success the dashboard is refreshed.     *)

RefreshNothing(user) == AskNothing /\ UNCHANGED dash                    \* mutant
RefreshAfter(user) == Refresh(user)

Settled(page, op) ==
    /\ Replied(page, op)
    /\ IF Succeeded THEN RefreshAfter(appUsername) ELSE AskNothing /\ UNCHANGED dash
    /\ UNCHANGED <<running, section, appUsername, login, signup, settings, history, told, bank>>

DepositReplied ==
    /\ Settled("deposit", "change")
    /\ deposit' = [deposit EXCEPT !.loading = FALSE, !.amount = IF Succeeded THEN Nil ELSE @]
    /\ UNCHANGED <<withdraw, transfer>>

WithdrawReplied ==
    /\ Settled("withdraw", "change")
    /\ withdraw' = [withdraw EXCEPT !.loading = FALSE, !.amount = IF Succeeded THEN Nil ELSE @]
    /\ UNCHANGED <<deposit, transfer>>

TransferReplied ==
    /\ Settled("transfer", "transfer")
    /\ transfer' = [transfer EXCEPT !.loading = FALSE,
                                    !.amount = IF Succeeded THEN Nil ELSE @,
                                    !.recipient = IF Succeeded THEN Empty ELSE @]
    /\ UNCHANGED <<deposit, withdraw>>

ExecutePayment ==
    /\ running /\ serving # <<>>
    /\ LET r == asked[serving[1]]
       IN \/ r.op = "change" /\ ChangeBalance(r.user, r.amount)
          \/ r.op = "transfer" /\ TransferBalance(r.user, r.recipient, r.amount)
    /\ ServerAnswers(reply')
    /\ UNCHANGED <<ui, elsewhere, forms>>

PaymentsNext ==
    \/ EditDeposit \/ DoDeposit \/ EditWithdraw \/ DoWithdraw
    \/ EditTransfer \/ RequestConfirmation \/ DoTransfer
    \/ DepositReplied \/ WithdrawReplied \/ TransferReplied \/ ExecutePayment
    \/ TerminalNext /\ UNCHANGED forms

PaymentsSpec == PaymentsInit /\ [][PaymentsNext]_paymentsVars

ReplyStep ==
    \/ DepositReplied \/ WithdrawReplied \/ TransferReplied
    \/ PostedStep /\ UNCHANGED forms

\* The client's io thread and the server's go on, and so does the network while
\* it is up; which of the things that are ready comes first is left open.
IoRuns == running /\ IoStep /\ UNCHANGED <<ui, forms, bank>>
ServerRuns ==
    \/ ExecutePayment
    \/ Execute /\ UNCHANGED forms
    \/ running /\ Take /\ UNCHANGED <<ui, forms, bank>>

PaymentsFairness ==
    WF_paymentsVars(ReplyStep) /\ WF_paymentsVars(IoRuns) /\ WF_paymentsVars(ServerRuns)

FairPaymentsSpec == PaymentsSpec /\ PaymentsFairness

-----------------------------------------------------------------------------
(* Properties.                                                             *)

\* When nothing is under way and the last refresh went through, the dashboard
\* shows the account of the user logged in and its balance: every page that
\* moved money asked for a refresh, also for a user who had left, and its reply
\* was not overtaken by an older one.  The balance is the one the account has,
\* unless another session paid from it or to it after the last refresh had been
\* served: nothing tells this terminal of that (Server.cpp:240).
ShownBalanceCurrent ==
    section = 1 /\ seen = Len(events) /\ connected
      /\ (\A id \in 1 .. made : Calls(id) # {}) /\ dash.owner # Empty
        => /\ dash.owner = appUsername
           /\ appUsername \notin elsewhere.paid => dash.balance = data[appUsername].balance

\* WithdrawPage: "Withdrawal successful!".  When the server serves a withdrawal
\* and it succeeds, money leaves the account, by the time the amount typed has
\* become a u64, an i64, its negation and a signed payload.
WithdrawalsTakeMoney ==
    [][\A id \in Range(serving) \ Range(serving') :
          asked[id].page = "withdraw" /\ reply' = Bool(TRUE) /\ data' # data
              => data'[asked[id].user].balance < data[asked[id].user].balance]_paymentsVars

\* No page is left waiting: a reply or the loss of the connection comes, for
\* every page that turns a spinner while it waits.  One of the two entry pages
\* turns at a time, if the user is patient.
SpinnersStop ==
    /\ login.loading \/ signup.loading ~> ~(login.loading \/ signup.loading) \/ ~running
    /\ settings.loading ~> ~settings.loading \/ ~running
    /\ dash.loading ~> ~dash.loading \/ ~running
    /\ history.loading ~> ~history.loading \/ ~running
    /\ deposit.loading ~> ~deposit.loading \/ ~running
    /\ withdraw.loading ~> ~withdraw.loading \/ ~running
    /\ transfer.loading ~> ~transfer.loading \/ ~running

=============================================================================
