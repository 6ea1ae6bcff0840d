------------------------------ MODULE LedgerMC ------------------------------
(* Small instances of Ledger. *)
EXTENDS Ledger

CONSTANTS ann, bob, dots, p, q

\* `dots` is a name with ".." in it.
MCUsers == {ann, bob, dots}
MCSafeUsers == {ann, bob}
MCPasswords == {p, q}
MCOnePassword == {p}
MCPrefixes == {{}, {ann}, {ann, bob, dots}}
MCChanges == {-4, 0, 3}     \* -4 and 3 are the ends of an i64 when Limit = 8

MCNoSeed == [u \in {} |-> 0]
\* What tests/generate_test_data.cpp leaves for its account `locked`: a
\* balance, no history, and the lock on.
MCLockedSeed ==
    [u \in {bob} |->
        [password |-> p, balance |-> 1, isLocked |-> TRUE, txns |-> <<>>]]

=============================================================================
