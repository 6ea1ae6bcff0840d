----------------------------- MODULE PaymentsMC -----------------------------
(* Small instances of Payments, and of Terminal within it. *)
EXTENDS Payments, TLC

CONSTANTS ann, bob, p

MCUsers == {ann, bob}
Swap == Permutations(MCUsers)
OnePassword == {p}

Account(locked) ==
    [password |-> p, balance |-> 2, isLocked |-> locked,
     txns |-> <<Txn("deposit", NoOne, 2, 2)>>]

Both == [u \in MCUsers |-> Account(FALSE)]
BobLocked == [u \in MCUsers |-> Account(u = bob)]
OnlyAnn == [u \in {ann} |-> Account(FALSE)]

Login == {"login"}
Visits == {"login", "refresh", "history", "password", "logout"}
Signups == {"login", "signup", "logout"}
Nothing == {}
Entering == {"login", "signup", "lock", "history"}
OneAccount == {"withdraw"}

=============================================================================
