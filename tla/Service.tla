------------------------------- MODULE Service -------------------------------
(***************************************************************************)
(* What one connection to the server promises its client: packets are      *)
(* taken in the order they arrive, one at a time, and each is answered     *)
(* before the next is taken, until the connection closes for good.         *)
(***************************************************************************)
EXTENDS Naturals, Sequences

CONSTANTS
    Nothing,
    MayAnswer(_, _)      \* is this reply one to this packet?

VARIABLES
    inbox,       \* packets that have arrived and were not taken
    serving,     \* the packet being served, or Nothing
    outbox,      \* replies sent, oldest first
    open

connection == <<inbox, serving, outbox, open>>

Init == inbox = <<>> /\ serving = Nothing /\ outbox = <<>> /\ open = TRUE

Arrive ==
    /\ open
    /\ Len(inbox') = Len(inbox) + 1 /\ SubSeq(inbox', 1, Len(inbox)) = inbox
    /\ UNCHANGED <<serving, outbox, open>>

Take ==
    /\ open /\ serving = Nothing /\ inbox # <<>>
    /\ serving' = Head(inbox) /\ inbox' = Tail(inbox)
    /\ UNCHANGED <<outbox, open>>

Answer ==
    /\ open /\ serving # Nothing
    /\ Len(outbox') = Len(outbox) + 1 /\ SubSeq(outbox', 1, Len(outbox)) = outbox
    /\ MayAnswer(serving, outbox'[Len(outbox')])
    /\ serving' = Nothing
    /\ UNCHANGED <<inbox, open>>

\* Whatever has not been answered is lost with the connection.
Close ==
    /\ open' = FALSE /\ inbox' = <<>> /\ serving' = Nothing
    /\ UNCHANGED outbox

Next == Arrive \/ Take \/ Answer \/ Close

Spec == Init /\ [][Next]_connection

=============================================================================
