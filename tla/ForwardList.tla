---------------------------- MODULE ForwardList ----------------------------
(***************************************************************************)
(* base::ForwardList (forward_list.hpp), pointer by pointer: a chain that  *)
(* starts at a head in the list object and ends at a null pointer.         *)
(***************************************************************************)
EXTENDS Collections

VARIABLES
    chains,    \* [next, value], each [ChainCells -> ...]
    count      \* [Objects -> Nat]: _size

forwardVars == <<chains, count, items>>

HeadOf(o) == IF o = "a" THEN 0 ELSE -1
Links == 1 .. MaxItems + 1
ChainCells == Links \cup {0, -1}
Null == -2
Unused == -3    \* `next` of a node that is not allocated

ForwardInit ==
    /\ chains = [next |-> [n \in ChainCells |-> IF n \in Links THEN Unused ELSE Null],
                 value |-> [n \in ChainCells |-> 0]]
    /\ count = [o \in Objects |-> 0]
    /\ ItemsInit

-----------------------------------------------------------------------------
(* Chains.                                                                 *)

\* What a loop from `n` up to the null pointer visits, cut off after more
\* steps than there are cells.
Follow(c, n) ==
    FoldLeft(LAMBDA p, i : IF p # <<>> /\ c.next[Last(p)] \notin Links THEN p
                           ELSE Append(p, c.next[Last(p)]),
             IF n \in Links THEN <<n>> ELSE <<>>,
             IF n \in Links THEN [i \in 1 .. MaxItems + 3 |-> i] ELSE <<>>)
ChainOf(c, o) == Follow(c, c.next[HeadOf(o)])
Elements(c, ns) == [i \in DOMAIN ns |-> c.value[ns[i]]]

\* before_begin() for 0, or the i-th element.
Before(c, o, i) == (<<HeadOf(o)>> \o ChainOf(c, o))[i + 1]

\* _create_node and the link behind `pos`.
InsertAfter(c, pos, v) ==
    LET n == CHOOSE m \in Links : c.next[m] = Unused /\ \A l \in 1 .. m - 1 : c.next[l] # Unused
    IN [c EXCEPT !.next[n] = c.next[pos], !.value[n] = v, !.next[pos] = n]

\* Several values, each after the one before it: the last goes in first here.
InsertAllAfter(c, pos, s) == FoldRight(LAMBDA v, d : InsertAfter(d, pos, v), s, c)

\* The node after `pos` is taken out and destroyed.
EraseAfter(c, pos) ==
    LET target == c.next[pos]
    IN [c EXCEPT !.next[pos] = c.next[target], !.next[target] = Unused, !.value[target] = 0]

RECURSIVE EraseUntil(_, _, _)
EraseUntil(c, pos, last) ==
    IF c.next[pos] = last THEN c ELSE EraseUntil(EraseAfter(c, pos), pos, last)

\* The loop of merge: `tail` is the cell whose pointer is written next.
RECURSIVE MergeChains(_, _, _, _)
MergeChains(c, tail, m, n) ==
    IF m = Null \/ n = Null THEN [c EXCEPT !.next[tail] = IF m # Null THEN m ELSE n]
    ELSE IF c.value[m] < c.value[n] THEN MergeChains([c EXCEPT !.next[tail] = m], m, c.next[m], n)
    ELSE MergeChains([c EXCEPT !.next[tail] = n], n, m, c.next[n])

-----------------------------------------------------------------------------
(* The calls.                                                              *)

BecomesChain(o, c, n) == chains' = c /\ count' = [count EXCEPT ![o] = n]

\* insert_after of one or several values, emplace_after, push_front.
ForwardInsert(o, i, s) ==
    /\ Room(Len(s))
    /\ BecomesChain(o, InsertAllAfter(chains, Before(chains, o, i), s), count[o] + Len(s))
    /\ ItemsBecome(o, SpliceIn(items[o], i + 1, s))

\* erase_after(first, last) of the elements between two places, pop_front, clear.
ForwardErase(o, i, j) ==
    LET first == Before(chains, o, i)
        last == IF j > count[o] THEN Null ELSE Before(chains, o, j)
    IN /\ i < j
       /\ BecomesChain(o, EraseUntil(chains, first, last), count[o] - (j - i - 1))
       /\ ItemsBecome(o, Cut(items[o], i + 1, j))

ForwardResize(o, n, v) ==
    /\ Room(n - count[o])
    /\ BecomesChain(o, IF n < count[o] THEN EraseUntil(chains, Before(chains, o, n), Null)
                       ELSE InsertAllAfter(chains, Before(chains, o, count[o]),
                                           [i \in 1 .. n - count[o] |-> v]), n)
    /\ ItemsBecome(o, Resized(items[o], n, v))

\* The copy constructor and assignment, and the assignment from a list of values.
ForwardAssign(o, s) ==
    /\ Len(s) + count[Peer(o)] <= MaxItems
    /\ BecomesChain(o, InsertAllAfter(EraseUntil(chains, HeadOf(o), Null), HeadOf(o), s), Len(s))
    /\ ItemsBecome(o, s)
ForwardCopy(o) == ForwardAssign(o, Elements(chains, ChainOf(chains, Peer(o))))

ForwardMove(o) ==
    LET p == Peer(o)
        c == EraseUntil(chains, HeadOf(o), Null)
    IN /\ chains' = [c EXCEPT !.next[HeadOf(o)] = c.next[HeadOf(p)], !.next[HeadOf(p)] = Null]
       /\ count' = [count EXCEPT ![o] = count[p], ![p] = 0]
       /\ ItemsBothBecome(o, items[p], <<>>)

ForwardSwap ==
    /\ chains' = [chains EXCEPT !.next[0] = chains.next[-1], !.next[-1] = chains.next[0]]
    /\ count' = [o \in Objects |-> count[Peer(o)]]
    /\ items' = [o \in Objects |-> items[Peer(o)]]

ForwardReverse(o) ==
    LET ns == ChainOf(chains, o)
        turned == [c \in DOMAIN chains.next |->
                      IF \E i \in DOMAIN ns : c = ns[i]
                      THEN (<<Null>> \o ns)[CHOOSE i \in DOMAIN ns : c = ns[i]]
                      ELSE IF c = HeadOf(o) THEN Last(<<Null>> \o ns) ELSE chains.next[c]]
    IN BecomesChain(o, [chains EXCEPT !.next = turned], count[o]) /\ ItemsBecome(o, Reverse(items[o]))

\* remove_if: the node after `pos` goes, or `pos` moves on.
RECURSIVE RemoveFrom(_, _, _)
RemoveFrom(c, pos, v) ==
    LET target == c.next[pos]
    IN IF target = Null THEN c
       ELSE IF c.value[target] = v THEN RemoveFrom(EraseAfter(c, pos), pos, v)
       ELSE RemoveFrom(c, target, v)

RECURSIVE UniqueAfter(_, _)
UniqueAfter(c, pos) ==
    LET target == c.next[pos]
    IN IF pos = Null \/ target = Null THEN c
       ELSE IF c.value[pos] = c.value[target] THEN UniqueAfter(EraseAfter(c, pos), pos)
       ELSE UniqueAfter(c, target)

\* Every destroyed node is counted down.
Freed(c) == Cardinality({n \in Links : c.next[n] = Unused /\ chains.next[n] # Unused})

ForwardRemove(o, v) ==
    LET c == RemoveFrom(chains, HeadOf(o), v)
    IN /\ BecomesChain(o, c, count[o] - Freed(c))
       /\ ItemsBecome(o, SelectSeq(items[o], LAMBDA x : x # v))

ForwardUnique(o) ==
    LET c == UniqueAfter(chains, chains.next[HeadOf(o)])
    IN /\ count[o] > 0
       /\ BecomesChain(o, c, count[o] - Freed(c))
       /\ ItemsBecome(o, UniqueItems(items[o]))

\* merge of the other list into this one.
ForwardMerge(o) ==
    LET p == Peer(o)
        c == MergeChains(chains, HeadOf(o), chains.next[HeadOf(o)], chains.next[HeadOf(p)])
    IN /\ Sorted(items[o]) /\ Sorted(items[p])
       /\ chains' = [c EXCEPT !.next[HeadOf(p)] = Null]
       /\ count' = [count EXCEPT ![o] = @ + count[p], ![p] = 0]
       /\ ItemsBothBecome(o, SortedItems(items[o] \o items[p]), <<>>)

\* merge of a list into itself, which the standard's does nothing for: the
\* nodes are left unreachable.
ForwardMergeItself(o) ==
    LET first == chains.next[HeadOf(o)]
        c == MergeChains(chains, HeadOf(o), first, first)
    IN /\ count[o] = 0 \/ "merge itself" \in Risky
       /\ chains' = [c EXCEPT !.next[HeadOf(o)] = Null]
       /\ count' = [count EXCEPT ![o] = 0]
       /\ UNCHANGED items

ForwardNext ==
    \/ \E o \in Objects :
           \/ \E i \in 0 .. count[o], v \in Values : ForwardInsert(o, i, <<v>>) \/ ForwardInsert(o, i, <<v, 1>>)
           \/ \E i \in 0 .. count[o], j \in 1 .. count[o] + 1 : ForwardErase(o, i, j)
           \/ \E n \in 0 .. MaxItems, v \in Values : ForwardResize(o, n, v)
           \/ \E v \in Values : ForwardAssign(o, <<v, v>>) \/ ForwardRemove(o, v)
           \/ ForwardCopy(o) \/ ForwardMove(o) \/ ForwardReverse(o) \/ ForwardUnique(o)
           \/ ForwardMerge(o) \/ ForwardMergeItself(o)
    \/ ForwardSwap

-----------------------------------------------------------------------------
(* Properties.                                                             *)

\* Whatever was inserted, erased, merged and moved, each list is a chain that
\* ends, holds the elements the calls should have left and as many as `_size`
\* says, and no allocated node is out of reach of both heads.
ForwardHolds ==
    /\ \A o \in Objects :
           LET ns == ChainOf(chains, o)
           IN Elements(chains, ns) = items[o] /\ count[o] = Len(ns)
    /\ Cardinality({n \in Links : chains.next[n] # Unused}) = ItemsSize

=============================================================================
