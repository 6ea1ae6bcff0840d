----------------------------- MODULE Algorithms -----------------------------
(***************************************************************************)
(* The algorithms of libs/base: base::sort (algorithm.hpp), and Sha256.    *)
(***************************************************************************)
EXTENDS Collections, Sha256

CONSTANTS
    Insertion,     \* ranges up to this size are sorted by insertion, 16 in the code
    MaxSorted      \* bound: elements of a sorted range

ASSUME AlgorithmsAssumption == Insertion \in Nat \ {0} /\ MaxSorted \in Nat

VARIABLE sorted    \* what sort made of the range in `items`

algorithmVars == <<sorted, digest, items>>

-----------------------------------------------------------------------------
(* sort                                                                    *)

Exchange(s, i, j) == [s EXCEPT ![i] = s[j], ![j] = s[i]]

\* The inner loop: the element at j goes down past greater ones.
RECURSIVE SinkDown(_, _, _)
SinkDown(s, first, j) ==
    IF j # first /\ s[j] < s[j - 1] THEN SinkDown(Exchange(s, j, j - 1), first, j - 1) ELSE s
InsertionSort(s, first, last) ==
    FoldLeft(LAMBDA t, i : SinkDown(t, first, i), s, [k \in 1 .. last - first - 1 |-> first + k])

RECURSIVE UpTo(_, _, _), DownTo(_, _, _)
UpTo(s, pivot, f) == IF s[f] < pivot THEN UpTo(s, pivot, f + 1) ELSE f
DownTo(s, pivot, l) == IF pivot < s[l] THEN DownTo(s, pivot, l - 1) ELSE l

PartitionKeepsPlaces(s, pivot, f, l) ==                                 \* mutant
    [range |-> s, f |-> UpTo(s, pivot, f), l |-> UpTo(s, pivot, f)]
RECURSIVE Partition(_, _, _, _)
Partition(s, pivot, f, l) ==
    LET f1 == UpTo(s, pivot, f)
        l1 == DownTo(s, pivot, l)
    IN IF f1 >= l1 THEN [range |-> s, f |-> f1, l |-> l1]
       ELSE Partition(Exchange(s, f1, l1), pivot, f1 + 1, l1 - 1)

\* Of the elements from `first` to before `last`.
RECURSIVE SortRange(_, _, _)
SortRange(s, first, last) ==
    LET size == last - first
        p == Partition(s, s[first + (size \div 2)], first, last - 1)
        low == IF p.f - first > 1 THEN SortRange(p.range, first, p.f) ELSE p.range
    IN IF size <= 1 THEN s
       ELSE IF size <= Insertion THEN InsertionSort(s, first, last)
       ELSE IF last - p.l > 1 THEN SortRange(low, p.l + 1, last) ELSE low

Sort(s) ==
    /\ items["a"] = <<>>
    /\ sorted' = SortRange(s, 1, Len(s) + 1)
    /\ ItemsBecome("a", s)
    /\ UNCHANGED digest

AlgorithmsInit == sorted = <<>> /\ Sha256Init /\ ItemsInit

\* A range is sorted or a message is hashed.
AlgorithmsNext ==
    \/ digest = NewDigest /\ \E s \in SeqOf(1 .. 3, MaxSorted) : Sort(s)
    \/ sorted = <<>> /\ Sha256Next /\ UNCHANGED <<sorted, items>>

-----------------------------------------------------------------------------
(* Properties.                                                             *)

\* Ranges of every order, ties included and on both sides of the size where
\* insertion takes over, come out in order with the elements they had.
SortHolds == sorted = SortedItems(items["a"])

=============================================================================
