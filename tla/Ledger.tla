------------------------------- MODULE Ledger -------------------------------
(***************************************************************************)
(* The accounts of the bank as the database worker sees them: the map      *)
(* `_data` of server/Database.hpp and the effect of every operation that   *)
(* DbManager::processItem (server/Database.cpp) carries out on it.         *)
(*                                                                         *)
(* One thread executes the operations one after the other, so an operation *)
(* is one action.  `reply` is the value handed to the callback that the    *)
(* operation posts.  Module Database adds the queue in front of these      *)
(* actions and the files behind them.                                      *)
(*                                                                         *)
(* Abstractions: a stored salt-and-hash is the password it verifies; a     *)
(* search prefix is the set of names that start with it; the text forms of *)
(* replies, the timestamps and the per-account log lines are left out.     *)
(***************************************************************************)
EXTENDS Integers, Sequences, FiniteSets, FiniteSetsExt

CONSTANTS
    Users,           \* account names a client can send
    SafeUsers,       \* the names isSafePathComponent accepts
    Passwords,
    Limit,           \* 2^64: balances are u64, a changeBalance argument is i64
    DefaultBalance,
    Changes,         \* changeBalance arguments tried
    Amounts,         \* transferBalance amounts tried
    Counts,          \* getTransactions counts tried
    Prefixes,        \* searchUsers prefixes tried, as sets of names
    Seed,            \* the accounts found in the data files at the first start
    MaxTxns          \* bound: the longest history an account can reach

U64 == 0 .. Limit - 1
I64 == { n \in Int : -Limit <= 2 * n /\ 2 * n < Limit }

\* Addition of a u64 and an i64 or u64, reduced to 64 bits.  The casts of
\* changeBalance and the += of transferBalance both compute it (the signed
\* overflow in changeBalance wraps in the builds CMakeLists.txt describes).
Unwrapped(n) == n                                                       \* mutant
Wrap(n) == IF n < 0 THEN n + Limit ELSE IF n >= Limit THEN n - Limit ELSE n

\* isSafePathComponent: a name that may become part of a file name.
IsSafe(username) == username \in SafeUsers

\* A salted hash stands for the one password it verifies.
Hashed(password) == password
Verifies(password, stored) == stored = Hashed(password)

TxnTypes == {"deposit", "withdraw", "transfer_out", "transfer_in"}

NoOne == "none"      \* the empty counterparty of a deposit or a withdrawal

TransactionRecord ==
    [type : TxnTypes, counterparty : Users \cup {NoOne},
     amount : U64, balanceAfter : U64]

UserState ==
    [password : Passwords, balance : U64, isLocked : BOOLEAN,
     txns : Seq(TransactionRecord)]

\* What _data can hold: a map from some of the names to their states.
IsAccounts(d) ==
    /\ DOMAIN d \subseteq SafeUsers
    /\ d = [u \in DOMAIN d |-> d[u]]
    /\ \A u \in DOMAIN d : d[u] \in UserState

-----------------------------------------------------------------------------
(* What a history says about a balance.                                    *)

\* What a record says the account `u` gained or lost.  A transfer to oneself
\* leaves two records and neither moves the balance.
Net(u, t) ==
    IF t.counterparty = u THEN 0
    ELSE IF t.type \in {"deposit", "transfer_in"} THEN t.amount
    ELSE -t.amount

\* Each record's balanceAfter continues the one before it.
ChainsFor(u, txns) ==
    \A k \in 2 .. Len(txns) :
        txns[k].balanceAfter = Wrap(txns[k - 1].balanceAfter + Net(u, txns[k]))

\* Nothing left the account that it did not hold.
CoveredFor(txns) ==
    \A k \in 2 .. Len(txns) :
        txns[k].type \in {"withdraw", "transfer_out"}
            => txns[k].amount <= txns[k - 1].balanceAfter

\* The last record agrees with the balance.
AgreesWithBalance(a) ==
    a.txns # <<>> => a.txns[Len(a.txns)].balanceAfter = a.balance

IsSoundAccount(u, a) ==
    /\ AgreesWithBalance(a)
    /\ ChainsFor(u, a.txns)
    /\ CoveredFor(a.txns)

IsSound(d) == \A u \in DOMAIN d : IsSoundAccount(u, d[u])

ASSUME LimitAssumption == Limit \in Nat /\ Limit > 1
ASSUME NamesAssumption == SafeUsers \subseteq Users /\ NoOne \notin Users
ASSUME InputsAssumption ==
    /\ DefaultBalance \in U64
    /\ Changes \subseteq I64
    /\ Amounts \subseteq U64
    /\ Counts \subseteq Nat
    /\ MaxTxns \in Nat
    /\ Prefixes \subseteq SUBSET Users
\* The data generator writes histories that add up, and so does save().
ASSUME SeedAssumption == IsAccounts(Seed) /\ IsSound(Seed)

-----------------------------------------------------------------------------
VARIABLES
    data,     \* DbManager::_data
    dirty,    \* DbManager::_dirty
    reply     \* what the operation just executed answers its callback

ledger == <<data, dirty, reply>>

Bool(b) == [kind |-> "bool", value |-> b]
NoReply == [kind |-> "none", value |-> FALSE]

Replies ==
    [kind : {"bool"}, value : BOOLEAN] \cup [kind : {"u64"}, value : U64]
      \cup [kind : {"txns"}, value : Seq(TransactionRecord)]
      \cup [kind : {"names"}, value : SUBSET Users] \cup {NoReply}

Exists(u) == u \in DOMAIN data
Open(u) == Exists(u) /\ ~data[u].isLocked

Init ==
    /\ data = Seed
    /\ dirty = FALSE
    /\ reply = NoReply

Refuse ==
    /\ reply' = Bool(FALSE)
    /\ UNCHANGED <<data, dirty>>

CommitClean(d) ==                                                       \* mutant
    /\ data' = d
    /\ reply' = Bool(TRUE)
    /\ UNCHANGED dirty
Commit(d) ==
    /\ data' = d
    /\ dirty' = TRUE
    /\ reply' = Bool(TRUE)

Answer(kind, v) ==
    /\ reply' = [kind |-> kind, value |-> v]
    /\ UNCHANGED <<data, dirty>>

Txn(type, counterparty, amount, balanceAfter) ==
    [type |-> type, counterparty |-> counterparty,
     amount |-> amount, balanceAfter |-> balanceAfter]

HasRoom(d, u) == Len(d[u].txns) < MaxTxns

PrependTxn(d, u, t) == [d EXCEPT ![u].txns = <<t>> \o @]                \* mutant
AppendTxn(d, u, t) == [d EXCEPT ![u].txns = Append(@, t)]

MayEnterLocked(username, password) ==                                   \* mutant
    Exists(username) /\ Verifies(password, data[username].password)
MayEnter(username, password) ==
    Open(username) /\ Verifies(password, data[username].password)

Authenticate(username, password) ==
    Answer("bool", MayEnter(username, password))

ChangePassword(username, newPassword) ==
    \/ ~Exists(username) /\ Refuse
    \/ /\ Exists(username)
       /\ Commit([data EXCEPT ![username].password = Hashed(newPassword)])

CanCreate(username) == IsSafe(username) /\ ~Exists(username)

CreateAccount(username, password) ==
    \/ ~CanCreate(username) /\ Refuse
    \/ /\ CanCreate(username)
       /\ LET opened ==
                [password |-> Hashed(password), balance |-> DefaultBalance,
                 isLocked |-> FALSE,
                 txns |-> <<Txn("deposit", NoOne, DefaultBalance, DefaultBalance)>>]
          IN Commit([u \in DOMAIN data \cup {username} |->
                        IF u = username THEN opened ELSE data[u]])

ToggleAccount(username) ==
    \/ ~Exists(username) /\ Refuse
    \/ Exists(username) /\ Commit([data EXCEPT ![username].isLocked = ~@])

GetBalance(username) ==
    Answer("u64", IF Exists(username) THEN data[username].balance ELSE 0)

CanChange(username, change) ==
    /\ Open(username)
    /\ change < 0 => -change <= data[username].balance

ChangeBalance(username, change) ==
    \/ ~CanChange(username, change) /\ Refuse
    \/ /\ CanChange(username, change) /\ HasRoom(data, username)
       /\ LET newBal == Wrap(data[username].balance + change)
              type == IF change >= 0 THEN "deposit" ELSE "withdraw"
              amount == IF change < 0 THEN -change ELSE change
              changed == [data EXCEPT ![username].balance = newBal]
          IN Commit(AppendTxn(changed, username, Txn(type, NoOne, amount, newBal)))

CanTransferToLocked(sender, recipient, amount) ==                       \* mutant
    /\ Open(sender) /\ Exists(recipient)
    /\ amount <= data[sender].balance
CanTransferUncovered(sender, recipient, amount) ==                      \* mutant
    Open(sender) /\ Open(recipient)
CanTransfer(sender, recipient, amount) ==
    /\ Open(sender) /\ Open(recipient)
    /\ amount <= data[sender].balance

\* The debit and then the credit, in place: when the two names are the same
\* the credit starts from the debited balance.
MoveFromCopies(d, sender, recipient, amount) ==                         \* mutant
    [d EXCEPT ![sender].balance = Wrap(@ - amount),
              ![recipient].balance = Wrap(d[recipient].balance + amount)]
MoveWithoutCredit(d, sender, recipient, amount) ==                      \* mutant
    [d EXCEPT ![sender].balance = Wrap(@ - amount)]
MoveMoney(d, sender, recipient, amount) ==
    LET debited == [d EXCEPT ![sender].balance = Wrap(@ - amount)]
    IN [debited EXCEPT ![recipient].balance = Wrap(@ + amount)]

\* Both records are written after both balances have moved.
LogSenderOnly(d, sender, recipient, amount) ==                          \* mutant
    AppendTxn(d, sender, Txn("transfer_out", recipient, amount, d[sender].balance))
LogTransfer(d, sender, recipient, amount) ==
    LET out == Txn("transfer_out", recipient, amount, d[sender].balance)
        in == Txn("transfer_in", sender, amount, d[recipient].balance)
    IN AppendTxn(AppendTxn(d, sender, out), recipient, in)

TransferBalance(sender, recipient, amount) ==
    \/ ~CanTransfer(sender, recipient, amount) /\ Refuse
    \/ /\ CanTransfer(sender, recipient, amount)
       /\ LET moved == MoveMoney(data, sender, recipient, amount)
              logged == LogTransfer(moved, sender, recipient, amount)
          IN /\ \A u \in {sender, recipient} : Len(logged[u].txns) <= MaxTxns
             /\ Commit(logged)

\* The last `count` records.
GetTransactions(username, count) ==
    LET txns == IF Exists(username) THEN data[username].txns ELSE <<>>
        start == IF Len(txns) > count THEN Len(txns) - count ELSE 0
    IN Answer("txns", SubSeq(txns, start + 1, Len(txns)))

SearchUsers(prefix) == Answer("names", DOMAIN data \cap prefix)

Next ==
    \/ \E u \in Users, p \in Passwords :
           \/ Authenticate(u, p)
           \/ ChangePassword(u, p)
           \/ CreateAccount(u, p)
    \/ \E u \in Users : ToggleAccount(u) \/ GetBalance(u)
    \/ \E u \in Users, c \in Changes : ChangeBalance(u, c)
    \/ \E s, r \in Users, a \in Amounts : TransferBalance(s, r, a)
    \/ \E u \in Users, n \in Counts : GetTransactions(u, n)
    \/ \E p \in Prefixes : SearchUsers(p)

Spec == Init /\ [][Next]_ledger

-----------------------------------------------------------------------------
(* Properties.                                                             *)

\* The map holds well-formed records: every balance and amount fits in 64
\* bits after any sequence of deposits, withdrawals and transfers.
TypeOK ==
    /\ IsAccounts(data)
    /\ dirty \in BOOLEAN
    /\ reply \in Replies

\* The history page and the dashboard read the newest record's balanceAfter
\* as the balance: processItem keeps it equal to the stored balance.
BalancesAgree == \A u \in DOMAIN data : AgreesWithBalance(data[u])

\* A history can be replayed: each record's balanceAfter is the previous one
\* plus what the record moved (modulo 2^64), for deposits, withdrawals and
\* both sides of a transfer, self-transfers included.
HistoryChains == \A u \in DOMAIN data : ChainsFor(u, data[u].txns)

\* No withdrawal and no transfer ever took out more than the account held.
NoOverdraft == \A u \in DOMAIN data : CoveredFor(data[u].txns)

\* Where a history says it sent something to `to` or received it from `from`.
Sent(txns, to) ==
    { k \in DOMAIN txns : txns[k].type = "transfer_out" /\ txns[k].counterparty = to }
Received(txns, from) ==
    { k \in DOMAIN txns : txns[k].type = "transfer_in" /\ txns[k].counterparty = from }

\* The one's transfers to the other and what the other received, one by one.
InStep(a, b, sender, recipient) ==
    LET sent == Sent(a, recipient)
        received == Received(b, sender)
    IN \E pair \in [sent -> received] :
           /\ \A k \in received : \E j \in sent : pair[j] = k
           /\ \A j, k \in sent : j < k => pair[j] < pair[k]
           /\ \A k \in sent : a[k].amount = b[pair[k]].amount

\* Every transfer is in both histories: what `a` sent to `b`, in order and
\* amount by amount, is what `b` received from `a`.
IsPaired(d) == \A a, b \in DOMAIN d : InStep(d[a].txns, d[b].txns, a, b)

TransfersPaired == IsPaired(data)

\* A locked account's balance and history stand still: neither its owner nor
\* anyone who sends to it can move them (README, Security Notes: "Locked
\* accounts cannot authenticate, change balance, or perform transfers").
Freezes(d, e) ==
    \A u \in DOMAIN d :
        d[u].isLocked =>
            /\ u \in DOMAIN e
            /\ e[u].balance = d[u].balance
            /\ e[u].txns = d[u].txns

LockedAccountsFrozen == [][Freezes(data, data')]_ledger

\* Histories are append-only and accounts are never dropped or re-created:
\* creating an account under a taken name changes nothing.
Extends(d, e) ==
    \A u \in DOMAIN d :
        /\ u \in DOMAIN e
        /\ Len(d[u].txns) <= Len(e[u].txns)
        /\ \A k \in 1 .. Len(d[u].txns) : e[u].txns[k] = d[u].txns[k]

HistoryOnlyGrows == [][Extends(data, data')]_ledger

TotalBalance(d) == MapThenSumSet(LAMBDA u : d[u].balance, DOMAIN d)

\* The records of `e` that `d` does not have yet, as <<account, position>>.
NewTxns(d, e) ==
    UNION { { <<u, k>> : k \in (IF u \in DOMAIN d THEN Len(d[u].txns) + 1 ELSE 1)
                                   .. Len(e[u].txns) } : u \in DOMAIN e }

\* What the new deposits brought into the bank less what withdrawals took out.
CashFlow(d, e) ==
    MapThenSumSet(LAMBDA r : Net(r[1], e[r[1]].txns[r[2]]),
                  { r \in NewTxns(d, e) :
                      e[r[1]].txns[r[2]].type \in {"deposit", "withdraw"} })

\* Money enters and leaves the bank only through recorded deposits and
\* withdrawals: a transfer, whoever its two ends are, moves what it debits and
\* nothing else.  Sums are compared modulo 2^64.
MoneyConserved ==
    [][(TotalBalance(data') - TotalBalance(data) - CashFlow(data, data'))
           % Limit = 0]_ledger

=============================================================================
