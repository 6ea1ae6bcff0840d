---------------------------- MODULE Collections ----------------------------
(***************************************************************************)
(* What the containers of libs/base promise, whatever they are made of: a  *)
(* map is a function from keys to values, a list a sequence, and a call    *)
(* does to them what the standard container of that name would do.         *)
(*                                                                         *)
(* Every container is driven through two objects of its type, which copy,  *)
(* move and swap with each other.  `dict` and `items` are what the calls   *)
(* made so far should have left in them; a container's invariant compares  *)
(* them with what is really found in its nodes, chains or cells.           *)
(***************************************************************************)
EXTENDS Integers, FiniteSets, Sequences, SequencesExt, Functions, TLC

CONSTANTS
    Keys,      \* the keys of maps and sets
    Values,    \* the values they map to, and the elements of sequences
    MaxItems,  \* bound: elements in the two objects together
    Risky      \* calls the run makes although the code gets them wrong

ASSUME CollectionsAssumption ==
    /\ Keys \subseteq Nat \ {0} /\ Values \subseteq Nat \ {0}
    /\ MaxItems \in Nat /\ Risky \subseteq STRING

VARIABLES
    subject,   \* the container that `dict` and `items` are the reference of
    dict,      \* [Objects -> functions from keys to values]
    items      \* [Objects -> sequences of elements]

Objects == {"a", "b"}
Peer(o) == CHOOSE p \in Objects : p # o

NoEntries == [k \in {} |-> k]
DictInit == dict = [o \in Objects |-> NoEntries]
ItemsInit == items = [o \in Objects |-> <<>>]

DictSize == Cardinality(DOMAIN dict["a"]) + Cardinality(DOMAIN dict["b"])
ItemsSize == Len(items["a"]) + Len(items["b"])

\* An entry that is there keeps its value, or takes the new one.
Extended(d, k, v) == [x \in DOMAIN d \cup {k} |-> IF x \in DOMAIN d THEN d[x] ELSE v]
Updated(d, k, v) == [x \in DOMAIN d \cup {k} |-> IF x = k THEN v ELSE d[x]]

DictInsert(o, k, v) == dict' = [dict EXCEPT ![o] = Extended(@, k, v)]
DictAssign(o, k, v) == dict' = [dict EXCEPT ![o] = Updated(@, k, v)]
DictErase(o, ks) == dict' = [dict EXCEPT ![o] = Restrict(@, DOMAIN @ \ ks)]
DictCopy(o) == dict' = [dict EXCEPT ![o] = dict[Peer(o)]]
DictMove(o) == dict' = [dict EXCEPT ![o] = dict[Peer(o)], ![Peer(o)] = NoEntries]
DictSwap == dict' = [o \in Objects |-> dict[Peer(o)]]

\* Places to insert at or to erase from, and what the standard calls make of a
\* sequence there.
Room(n) == ItemsSize + n <= MaxItems
SpliceIn(s, i, t) == SubSeq(s, 1, i - 1) \o t \o SubSeq(s, i, Len(s))
Cut(s, i, j) == SubSeq(s, 1, i - 1) \o SubSeq(s, j, Len(s))
Resized(s, n, v) == [i \in 1 .. n |-> IF i <= Len(s) THEN s[i] ELSE v]
Sorted(s) == \A i \in 1 .. Len(s) - 1 : s[i] <= s[i + 1]
SortedItems(s) == SortSeq(s, LAMBDA x, y : x < y)
UniqueItems(s) ==
    LET kept == SelectSeq([i \in DOMAIN s |-> i], LAMBDA i : i = 1 \/ s[i] # s[i - 1])
    IN [i \in DOMAIN kept |-> s[kept[i]]]

ItemsBecome(o, s) == items' = [items EXCEPT ![o] = s]
ItemsBothBecome(o, s, t) == items' = [items EXCEPT ![o] = s, ![Peer(o)] = t]

=============================================================================
