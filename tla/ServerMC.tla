------------------------------ MODULE ServerMC ------------------------------
(* Small instances of Server. *)
EXTENDS Server, TLC

CONSTANTS ann, bob, p, s1, s2

MCUsers == {ann, bob}
MCPasswords == {p}
MCRank == [u \in MCUsers |-> IF u = ann THEN 1 ELSE 2]
MCPrefixes == {{}}
MCSessions == {s1, s2}

MCSeed ==
    [u \in MCUsers |->
        [password |-> p, balance |-> 3, isLocked |-> FALSE,
         txns |-> <<Txn("deposit", NoOne, 3, 3)>>]]

Transfer == [op |-> "TransferBalanceOp", sender |-> ann, recipient |-> bob, amount |-> 1]
Toggle == [op |-> "ToggleAccountOp", username |-> ann]
MCRequests == {Transfer, Toggle}

Bad(type) == [type |-> type, request |-> Malformed]

MCPackets ==
    { [type |-> "balance_transfer", request |-> Transfer],
      Bad("txn_history_req"), Bad(Unknown) }
MCAllPackets ==
    { [type |-> "balance_transfer", request |-> Transfer],
      [type |-> "account_toggle", request |-> Toggle],
      Bad("balance_transfer"), Bad("txn_history_req"),
      Bad("ping"), Bad("log_req"), Bad(Unknown) }

MCSymmetry == Permutations(MCSessions)

=============================================================================
