----------------------------- MODULE DatabaseMC -----------------------------
(* Small instances of Database. *)
EXTENDS Database

CONSTANTS ann, bob, p

MCUsers == {ann, bob}
MCPasswords == {p}
MCRank == [u \in MCUsers |-> IF u = ann THEN 1 ELSE 2]
MCPrefixes == {{}}

\* Both accounts as createAccount leaves them.
MCSeed ==
    [u \in MCUsers |->
        [password |-> p, balance |-> 3, isLocked |-> FALSE,
         txns |-> <<Txn("deposit", NoOne, 3, 3)>>]]

\* `ann` alone, so that the other account is made while the server runs.
MCAnnSeed == [u \in {ann} |-> MCSeed[u]]

Transfer == [op |-> "TransferBalanceOp", sender |-> ann, recipient |-> bob, amount |-> 1]
Deposit == [op |-> "ChangeBalanceOp", username |-> bob, change |-> 2]
Create == [op |-> "CreateAccountOp", username |-> bob, password |-> p]
Toggle == [op |-> "ToggleAccountOp", username |-> ann]
NewPassword == [op |-> "ChangePasswordOp", username |-> bob, password |-> p]
Login == [op |-> "AuthOp", username |-> ann, password |-> p]
Balance == [op |-> "GetBalanceOp", username |-> bob]
History == [op |-> "GetTxnHistoryOp", username |-> bob, count |-> 1]
Search == [op |-> "SearchUsersOp", prefix |-> {}]

MCMoves == {Transfer, Deposit, Balance}
MCOpens == {Create, Transfer, Toggle}
MCAll == {Transfer, Deposit, Create, Toggle, NewPassword, Login, Balance, History, Search}

=============================================================================
