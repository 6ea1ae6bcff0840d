-------------------------------- MODULE List --------------------------------
(***************************************************************************)
(* base::List (list.hpp), pointer by pointer: a ring of nodes closed by a  *)
(* sentinel that lives in the list object, so that two lists are two rings *)
(* in one heap and nodes pass from one to the other by relinking.          *)
(*                                                                         *)
(* A node that is not allocated is a ring of its own.                      *)
(***************************************************************************)
EXTENDS Collections

VARIABLES
    heap,      \* [next, prev, value], each [ListCells -> ...]
    length     \* [Objects -> Nat]: _size

listVars == <<heap, length, items>>

Sentinel == [o \in Objects |-> IF o = "a" THEN 0 ELSE -1]
Pool == 1 .. MaxItems + 1
ListCells == Pool \cup {0, -1}

ListInit ==
    /\ heap = [next |-> [n \in ListCells |-> n], prev |-> [n \in ListCells |-> n],
               value |-> [n \in ListCells |-> 0]]
    /\ length = [o \in Objects |-> 0]
    /\ ItemsInit

-----------------------------------------------------------------------------
(* The private members.                                                    *)

Join(h, m, n) == [h EXCEPT !.next[m] = n, !.prev[n] = m]

\* What a loop from `n` up to `end` visits, cut off after more steps than there
\* are cells: a loop that is cut off does not end.
Walk(h, n, end) ==
    LET path == FoldLeft(LAMBDA p, i : IF Last(p) = end THEN p
                                       ELSE Append(p, h.next[Last(p)]),
                         <<n>>, [i \in 1 .. MaxItems + 4 |-> i])
    IN IF Last(path) = end THEN Front(path) ELSE path
ListNodes(h, o) == Walk(h, h.next[Sentinel[o]], Sentinel[o])
ValuesOf(h, ns) == [i \in DOMAIN ns |-> h.value[ns[i]]]

\* An iterator to the i-th element, end() after the last.
NodeAt(h, o, i) == Append(ListNodes(h, o), Sentinel[o])[i]

LinkBefore(h, pos, n) == Join(Join(h, h.prev[pos], n), n, pos)
LinkBlockBefore(h, pos, first, last) == Join(Join(h, h.prev[pos], first), last, pos)
UnlinkOneWay(h, n) == [h EXCEPT !.next[h.prev[n]] = h.next[n]]         \* mutant
Unlink(h, n) == Join(h, h.prev[n], h.next[n])

FreeNode(h) == CHOOSE n \in Pool : h.next[n] = n /\ \A m \in 1 .. n - 1 : h.next[m] # m
CreateBefore(h, pos, v) == LinkBefore([h EXCEPT !.value[FreeNode(h)] = v], pos, FreeNode(h))
CreateAllBefore(h, pos, s) == FoldLeft(LAMBDA g, v : CreateBefore(g, pos, v), h, s)

DestroyNode(h, n) == [h EXCEPT !.next[n] = n, !.prev[n] = n, !.value[n] = 0]
DestroyNodes(h, ns) == FoldLeft(DestroyNode, h, ns)
EraseNodes(h, first, last) ==
    LET erased == Walk(h, first, last)
    IN DestroyNodes(Join(h, h.prev[first], last), erased)
DestroyAll(h, o) == EraseNodes(h, h.next[Sentinel[o]], Sentinel[o])

\* The sentinel of `o` closes the ring that `first` and `last` end, or none.
Close(h, o, first, last) ==
    IF first \in Pool THEN Join(Join(h, Sentinel[o], first), last, Sentinel[o])
    ELSE Join(h, Sentinel[o], Sentinel[o])
TakeRing(h, g, o) == Close(h, o, g.next[Sentinel[Peer(o)]], g.prev[Sentinel[Peer(o)]])

\* The loop of merge and of _sorted_merge: b's node goes first unless a's is
\* less.  `stop` ends a, `end` ends b.
RECURSIVE MergeNodes(_, _, _, _, _, _)
MergeNodes(h, tail, a, stop, b, end) ==
    IF a = stop \/ b = end THEN Join(h, tail, IF a # stop THEN a ELSE b)
    ELSE IF h.value[a] < h.value[b] THEN MergeNodes(Join(h, tail, a), a, h.next[a], stop, b, end)
    ELSE MergeNodes(Join(h, tail, b), b, a, stop, h.next[b], end)

\* _merge_sort of the nodes of a sublist that ends at the sentinel; it returns
\* the heap and the first node.  `result` stands for the local head, for which
\* the sentinel's place is borrowed: sort() relinks it at the end.
RECURSIVE MergeSort(_, _, _)
MergeSort(h, o, first) ==
    LET end == Sentinel[o]
        ns == Walk(h, first, end)
        half == (Len(ns) + 1) \div 2
        second == ns[half + 1]
        left == MergeSort([h EXCEPT !.next[ns[half]] = end, !.prev[second] = end], o, first)
        right == MergeSort(left.heap, o, second)
        merged == MergeNodes(right.heap, end, left.first, end, right.first, end)
    IN IF Len(ns) <= 1 THEN [heap |-> h, first |-> first]
       ELSE [heap |-> merged, first |-> merged.next[end]]

\* _rebuild_tail; `next` of the last node already is the sentinel.
RebuildTail(h, o) == [h EXCEPT !.prev[Sentinel[o]] = Last(<<Sentinel[o]>> \o ListNodes(h, o))]

-----------------------------------------------------------------------------
(* The calls.                                                              *)

Places(o) == 1 .. length[o] + 1
Changes(h, o, n) == heap' = h /\ length' = [length EXCEPT ![o] = n]

\* insert and emplace at any place, push_front, push_back; one value or several.
ListInsert(o, i, s) ==
    /\ Room(Len(s))
    /\ Changes(CreateAllBefore(heap, NodeAt(heap, o, i), s), o, length[o] + Len(s))
    /\ ItemsBecome(o, SpliceIn(items[o], i, s))

\* erase of the elements from i to before j, pop_front, pop_back, clear.
ListErase(o, i, j) ==
    /\ i < j
    /\ Changes(EraseNodes(heap, NodeAt(heap, o, i), NodeAt(heap, o, j)), o, length[o] - (j - i))
    /\ ItemsBecome(o, Cut(items[o], i, j))

\* resize(n, v); values the list has no room for are left out of the model.
ListResize(o, n, v) ==
    /\ Room(n - length[o])
    /\ Changes(IF n < length[o] THEN EraseNodes(heap, NodeAt(heap, o, n + 1), Sentinel[o])
               ELSE CreateAllBefore(heap, Sentinel[o], [i \in 1 .. n - length[o] |-> v]), o, n)
    /\ ItemsBecome(o, Resized(items[o], n, v))

\* assign, and the copy constructor and assignment, which walk the other list.
ListAssign(o, s) ==
    /\ Len(s) + length[Peer(o)] <= MaxItems
    /\ Changes(CreateAllBefore(DestroyAll(heap, o), Sentinel[o], s), o, Len(s))
    /\ ItemsBecome(o, s)
ListCopy(o) == ListAssign(o, ValuesOf(heap, ListNodes(heap, Peer(o))))

\* The move assignment; the move constructor is the same on an empty list.
ListMove(o) ==
    LET h == DestroyAll(heap, o)
    IN /\ heap' = Close(TakeRing(h, h, o), Peer(o), Sentinel[o], Sentinel[o])
       /\ length' = [length EXCEPT ![o] = length[Peer(o)], ![Peer(o)] = 0]
       /\ ItemsBothBecome(o, items[Peer(o)], <<>>)

ListSwap ==
    /\ heap' = TakeRing(TakeRing(heap, heap, "a"), heap, "b")
    /\ length' = [o \in Objects |-> length[Peer(o)]]
    /\ items' = [o \in Objects |-> items[Peer(o)]]

\* Each node and the sentinel exchange their two pointers.
ListReverse(o) ==
    LET turned == {Sentinel[o]} \cup ToSet(ListNodes(heap, o))
        turn(f, g) == [n \in ListCells |-> IF n \in turned THEN g[n] ELSE f[n]]
    IN /\ Changes([heap EXCEPT !.next = turn(@, heap.prev), !.prev = turn(@, heap.next)],
                  o, length[o])
       /\ ItemsBecome(o, Reverse(items[o]))

\* remove_if and remove.
ListRemove(o, v) ==
    LET gone == SelectSeq(ListNodes(heap, o), LAMBDA n : heap.value[n] = v)
    IN /\ Changes(FoldLeft(LAMBDA h, n : DestroyNode(Unlink(h, n), n), heap, gone),
                  o, length[o] - Len(gone))
       /\ ItemsBecome(o, SelectSeq(items[o], LAMBDA x : x # v))

\* unique: the later of two equal neighbours goes, and the next is compared
\* with the one that stays.
RECURSIVE UniqueFrom(_, _, _)
UniqueFrom(h, o, n) ==
    LET target == h.next[n]
    IN IF n = Sentinel[o] \/ target = Sentinel[o] THEN h
       ELSE IF h.value[n] = h.value[target]
       THEN UniqueFrom(DestroyNode(Unlink(h, target), target), o, n)
       ELSE UniqueFrom(h, o, target)
ListUnique(o) ==
    LET h == UniqueFrom(heap, o, heap.next[Sentinel[o]])
    IN /\ Changes(h, o, length[o] - Cardinality({n \in Pool : h.next[n] = n /\ heap.next[n] # n}))
       /\ ItemsBecome(o, UniqueItems(items[o]))

ListSort(o) ==
    LET sorted == MergeSort(heap, o, heap.next[Sentinel[o]])
    IN /\ length[o] > 1
       /\ Changes(RebuildTail(Join(sorted.heap, Sentinel[o], sorted.first), o), o, length[o])
       /\ ItemsBecome(o, SortedItems(items[o]))

\* merge: when the other list's elements come last, their chain ends at the
\* other sentinel, and the walk of _rebuild_tail goes round through it.
ListMerge(o) ==
    LET p == Peer(o)
        zipped == MergeNodes(heap, Sentinel[o], heap.next[Sentinel[o]], Sentinel[o],
                      heap.next[Sentinel[p]], Sentinel[p])
        comesLast == items[o] = <<>> \/ Last(items[p]) > Last(items[o])
    IN /\ Sorted(items[o]) /\ Sorted(items[p]) /\ items[p] # <<>>
       /\ ~comesLast \/ "merge" \in Risky
       /\ heap' = Join(RebuildTail(zipped, o), Sentinel[p], Sentinel[p])
       /\ length' = [length EXCEPT ![o] = @ + length[p], ![p] = 0]
       /\ ItemsBothBecome(o, SortedItems(items[o] \o items[p]), <<>>)

\* splice of the whole other list.
ListSplice(o, i) ==
    LET p == Peer(o)
        h == Join(heap, Sentinel[p], Sentinel[p])
    IN /\ length[p] > 0
       /\ heap' = LinkBlockBefore(h, NodeAt(heap, o, i), heap.next[Sentinel[p]], heap.prev[Sentinel[p]])
       /\ length' = [length EXCEPT ![o] = @ + length[p], ![p] = 0]
       /\ ItemsBothBecome(o, SpliceIn(items[o], i, items[p]), <<>>)

\* splice of the elements from j to before k of the other list; of one element
\* too, which relinks the node instead of a block.
ListSpliceRange(o, i, j, k) ==
    LET p == Peer(o)
        first == NodeAt(heap, p, j)
        last == NodeAt(heap, p, k)
        pos == NodeAt(heap, o, i)
        block == SubSeq(items[p], j, k - 1)
    IN /\ j < k
       /\ heap' = IF k = j + 1 THEN LinkBefore(Unlink(heap, first), pos, first)
                  ELSE LinkBlockBefore(Join(heap, heap.prev[first], last), pos, first, heap.prev[last])
       /\ length' = [length EXCEPT ![o] = @ + Len(block), ![p] = @ - Len(block)]
       /\ ItemsBothBecome(o, SpliceIn(items[o], i, block), Cut(items[p], j, k))

\* splice of one element within its list.  At its own place the node becomes a
\* ring of its own and is lost.
ListSpliceWithin(o, i, j) ==
    LET node == NodeAt(heap, o, j)
        rest == RemoveAt(items[o], j)
    IN /\ j <= length[o]
       /\ i # j \/ "splice" \in Risky
       /\ heap' = LinkBefore(Unlink(heap, node), NodeAt(heap, o, i), node)
       /\ ItemsBecome(o, SpliceIn(rest, IF i > j THEN i - 1 ELSE i, <<items[o][j]>>))
       /\ UNCHANGED length

ListNext ==
    \E o \in Objects :
        \/ \E i \in Places(o), v \in Values : ListInsert(o, i, <<v>>) \/ ListInsert(o, i, <<v, 1>>)
        \/ \E i, j \in Places(o) : ListErase(o, i, j) \/ ListSpliceWithin(o, i, j)
        \/ \E n \in 0 .. MaxItems, v \in Values : ListResize(o, n, v)
        \/ \E v \in Values : ListAssign(o, <<v, v>>) \/ ListRemove(o, v)
        \/ \E i \in Places(o) :
               \/ ListSplice(o, i)
               \/ \E j, k \in Places(Peer(o)) : ListSpliceRange(o, i, j, k)
        \/ ListCopy(o) \/ ListMove(o) \/ ListReverse(o) \/ ListUnique(o) \/ ListSort(o) \/ ListMerge(o)
        \/ ListSwap

-----------------------------------------------------------------------------
(* Properties.                                                             *)

\* Whatever was spliced, merged, sorted and moved between two lists, each is a
\* ring through its own sentinel that reads the same from both ends and as long
\* as `_size` says, and no node is left outside both.
ListHolds ==
    /\ \A o \in Objects :
           LET ns == ListNodes(heap, o)
           IN /\ ValuesOf(heap, ns) = items[o] /\ length[o] = Len(ns)
              /\ \A n \in {Sentinel[o]} \cup ToSet(ns) : heap.prev[heap.next[n]] = n
    /\ Cardinality({n \in Pool : heap.next[n] # n}) = ItemsSize

=============================================================================
