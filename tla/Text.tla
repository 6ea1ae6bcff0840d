-------------------------------- MODULE Text --------------------------------
(***************************************************************************)
(* base::BasicString (string.hpp): up to SsoCapacity characters live in    *)
(* the object itself, more of them in an allocation that the same bytes    *)
(* then point to; `_isLong` says which it is.                              *)
(*                                                                         *)
(* `cells` are the characters up to the capacity and one for the           *)
(* terminator; `block` is the allocation, 0 when there is none.            *)
(***************************************************************************)
EXTENDS Collections

CONSTANT SsoCapacity     \* SSO_Capacity, (8 + 8) / 1 - 1 = 15 in the code

ASSUME TextAssumption == SsoCapacity \in Nat \ {0}

VARIABLES
    text,      \* [Objects -> [isLong, block, size, cells]]
    blocks     \* the allocations not yet freed

textVars == <<text, blocks, items>>

Terminator == 0
Garbage == -1            \* characters nobody has written
SmallStep == [i \in 1 .. SsoCapacity + 1 |-> IF i = 1 THEN Terminator ELSE Garbage]
EmptyText == [isLong |-> FALSE, block |-> 0, size |-> 0, cells |-> SmallStep]

TextInit == text = [o \in Objects |-> EmptyText] /\ blocks = {} /\ ItemsInit

-----------------------------------------------------------------------------
(* The private state.                                                      *)

TextCapacity(t) == IF t.isLong THEN Len(t.cells) - 1 ELSE SsoCapacity
Content(t) == SubSeq(t.cells, 1, t.size)
NewBlock == CHOOSE b \in 1 .. 3 : b \notin blocks

\* Characters and the terminator, in as many cells as there are.
Written(s, n) == [i \in 1 .. n |-> IF i <= Len(s) THEN s[i] ELSE IF i = Len(s) + 1 THEN Terminator ELSE Garbage]
Overwrite(t, s) == [t EXCEPT !.size = Len(s),
                             !.cells = [i \in DOMAIN @ |-> IF i <= Len(s) THEN s[i]
                                                           ELSE IF i = Len(s) + 1 THEN Terminator ELSE @[i]]]
InBlock(s, cap) == [isLong |-> TRUE, block |-> NewBlock, size |-> Len(s), cells |-> Written(s, cap + 1)]

\* The constructors: in the object when the text fits there.
Constructed(s) == IF Len(s) <= SsoCapacity THEN Overwrite(EmptyText, s) ELSE InBlock(s, Len(s))

ReserveKeepsShort(t, cap) ==                                            \* mutant
    IF cap <= TextCapacity(t) THEN t ELSE [InBlock(Content(t), cap) EXCEPT !.isLong = t.isLong]
\* reserve: the old block is freed when the text takes its new one.
ReserveText(t, cap) == IF cap <= TextCapacity(t) THEN t ELSE InBlock(Content(t), cap)

\* push_back asks for twice the size it needs.
PushChar(t, c) ==
    LET n == t.size + 1
    IN Overwrite(IF n > TextCapacity(t) THEN ReserveText(t, 2 * n) ELSE t, Append(Content(t), c))

\* operator+= asks for twice the capacity, or for what it needs if that is more.
AppendText(t, s) ==
    LET n == t.size + Len(s)
        cap == IF 2 * TextCapacity(t) > n THEN 2 * TextCapacity(t) ELSE n
    IN Overwrite(IF n > TextCapacity(t) THEN ReserveText(t, cap) ELSE t, Content(t) \o s)

-----------------------------------------------------------------------------
(* The calls.                                                              *)

\* A block the object no longer points to has been freed.
BecomesText(o, t) ==
    /\ text' = [text EXCEPT ![o] = t]
    /\ blocks' = (blocks \ {text[o].block}) \cup ({t.block} \ {0})

TextConstruct(o, s) ==
    /\ Len(s) + Len(items[Peer(o)]) <= MaxItems
    /\ BecomesText(o, Constructed(s)) /\ ItemsBecome(o, s)

TextPushBack(o, c) ==
    Room(1) /\ BecomesText(o, PushChar(text[o], c)) /\ ItemsBecome(o, Append(items[o], c))

TextPopBack(o) ==
    /\ text[o].size > 0
    /\ BecomesText(o, Overwrite(text[o], Front(Content(text[o])))) /\ ItemsBecome(o, Front(items[o]))

\* The cap on the request is the model's.
TextReserve(o, n) == BecomesText(o, ReserveText(text[o], n)) /\ UNCHANGED items

\* clear gives the block back, unlike the standard's.
TextClear(o) == BecomesText(o, Overwrite(IF text[o].isLong THEN EmptyText ELSE text[o], <<>>)) /\ ItemsBecome(o, <<>>)

TextCopyConstruct(o) == TextConstruct(o, Content(text[Peer(o)]))

\* The copy assignment clears first, so it fits or takes a block of its own.
TextCopyAssign(o) ==
    LET s == Content(text[Peer(o)])
    IN /\ 2 * Len(s) <= MaxItems
       /\ BecomesText(o, IF Len(s) <= SsoCapacity
                         THEN Overwrite(IF text[o].isLong THEN EmptyText ELSE text[o], s)
                         ELSE InBlock(s, Len(s)))
       /\ ItemsBecome(o, s)

\* The move constructor and assignment copy the bytes, then make the other short.
TextMove(o) ==
    /\ text' = [text EXCEPT ![o] = text[Peer(o)], ![Peer(o)] = EmptyText]
    /\ blocks' = blocks \ {text[o].block}
    /\ ItemsBothBecome(o, items[Peer(o)], <<>>)

\* += of the other text, or of the text itself.
TextAppend(o, p) ==
    LET s == Content(text[p])
    IN /\ Room(Len(s))
       /\ BecomesText(o, AppendText(text[o], s)) /\ ItemsBecome(o, items[o] \o s)

\* substr(pos, n) into the other text; pos beyond the end throws.
TextSubstr(o, pos, n) ==
    LET t == text[Peer(o)]
        m == IF n < t.size - pos THEN n ELSE t.size - pos
    IN /\ pos <= t.size
       /\ TextConstruct(o, SubSeq(t.cells, pos + 1, pos + m))

TextNext ==
    \E o \in Objects :
        \/ \E c \in Values : TextPushBack(o, c) \/ TextConstruct(o, <<c, 1, c>>)
        \/ \E n \in {SsoCapacity, MaxItems + 1} : TextReserve(o, n)
        \/ \E n, pos \in 0 .. MaxItems : TextSubstr(o, pos, n)
        \/ \E p \in Objects : TextAppend(o, p)
        \/ TextPopBack(o) \/ TextClear(o) \/ TextCopyConstruct(o) \/ TextCopyAssign(o) \/ TextMove(o)

\* The texts by themselves.
TextSpec == TextInit /\ subject = "text" /\ [][TextNext /\ UNCHANGED subject]_<<textVars, subject>>

-----------------------------------------------------------------------------
(* Properties.                                                             *)

\* Whatever was appended, reserved, copied and moved across the border of
\* SSO_Capacity, each text holds the characters the calls should have left and
\* a terminator behind them, and every allocation has exactly one owner.
TextHolds ==
    /\ \A o \in Objects :
           LET t == text[o]
           IN /\ t.size <= TextCapacity(t) /\ Content(t) = items[o]
              /\ t.cells[t.size + 1] = Terminator
              /\ t.isLong <=> t.block # 0
    /\ blocks = {text[o].block : o \in Objects} \ {0}
    /\ text["a"].isLong => text["a"].block # text["b"].block

\* A text keeps its characters, its terminator and its own allocation across
\* the border of what fits in the object.
TextsHold == subject = "text" => TextHolds

=============================================================================
