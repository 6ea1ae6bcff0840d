--------------------------- MODULE DurableLedger ---------------------------
(***************************************************************************)
(* What the server promises about the accounts over its whole life, crash  *)
(* and restart included: at any moment they are what some earlier moment   *)
(* left and what happened since, never a mixture of two moments.           *)
(*                                                                         *)
(* `accounts` are the accounts clients see, or would see if the server     *)
(* were started; `saved` are those the next start would find.  Operations  *)
(* only open accounts, append to histories and respect locks; Checkpoint   *)
(* makes the present the next start's; Lose is what a crash does.          *)
(***************************************************************************)
CONSTANTS
    Start,              \* the accounts of the data directory
    MayFollow(_, _)     \* what one operation may make of the accounts

VARIABLES accounts, saved

Init == accounts = Start /\ saved = Start

Operate ==
    /\ MayFollow(accounts, accounts')
    /\ UNCHANGED saved

Checkpoint ==
    /\ saved' = accounts
    /\ UNCHANGED accounts

Lose ==
    /\ accounts' = saved
    /\ UNCHANGED saved

Next == Operate \/ Checkpoint \/ Lose

Spec == Init /\ [][Next]_<<accounts, saved>>

=============================================================================
