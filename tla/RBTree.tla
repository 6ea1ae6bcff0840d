------------------------------- MODULE RBTree -------------------------------
(***************************************************************************)
(* base::RedBlackTree with Map and Set on it (rbtree.hpp, map.hpp,         *)
(* set.hpp), pointer by pointer.                                           *)
(*                                                                         *)
(* The header of a tree is its nil: `_parent` is the root, `_left` and     *)
(* `_right` the extremes, and every missing child or parent points to it.  *)
(* A node is known by its key, a header by Header[o]; moving or swapping   *)
(* trees leaves nodes that point to the other header until they are        *)
(* relinked.  The fields of a node that is not in the tree are those of    *)
(* `Blank`.                                                                *)
(***************************************************************************)
EXTENDS Collections

CONSTANTS
    MaxTreeKey,     \* nodes have keys from 1 to this one
    TreeSeeds       \* the ranges a tree is constructed from

VARIABLE tree       \* [Objects -> trees]

treeVars == <<tree, dict>>

Header == [o \in Objects |-> IF o = "a" THEN 0 ELSE -1]
TreeKeys == 1 .. MaxTreeKey
Cells == TreeKeys \cup {0, -1}

\* _init_header
FreshTree(nil) ==
    [nil |-> nil, size |-> 0, value |-> [n \in Cells |-> 0],
     black |-> [n \in Cells |-> n = nil],
     parent |-> [n \in Cells |-> nil], left |-> [n \in Cells |-> nil],
     right |-> [n \in Cells |-> nil]]

Root(t) == t.parent[t.nil]
IsNode(t, n) == n # t.nil
Opposite(side) == IF side = "left" THEN "right" ELSE "left"

-----------------------------------------------------------------------------
(* Walking.                                                                *)

\* _minimum and _maximum: all the way down one side.
RECURSIVE Furthest(_, _, _)
Furthest(t, n, side) ==
    IF IsNode(t, n) /\ IsNode(t, t[side][n]) THEN Furthest(t, t[side][n], side) ELSE n

\* The first ancestor that has the node on its other side.
RECURSIVE Ascend(_, _, _)
Ascend(t, n, side) ==
    LET p == t.parent[n]
    IN IF IsNode(t, p) /\ n = t[side][p] THEN Ascend(t, p, side) ELSE p

\* operator++, which is also _successor, and operator-- between nodes.
Step(t, n, side) ==
    IF IsNode(t, t[side][n]) THEN Furthest(t, t[side][n], Opposite(side)) ELSE Ascend(t, n, side)
Increment(t, n) == IF IsNode(t, n) THEN Step(t, n, "right") ELSE n
Decrement(t, n) == IF IsNode(t, n) THEN Step(t, n, "left") ELSE Furthest(t, Root(t), "right")

\* What a loop from `n` visits before it is back at the header, cut off after
\* more steps than there can be nodes.
RECURSIVE Visit(_, _, _, _)
Visit(t, n, side, fuel) ==
    IF ~IsNode(t, n) \/ fuel = 0 THEN <<>>
    ELSE <<n>> \o Visit(t, Step(t, n, side), side, fuel - 1)
Fuel == MaxTreeKey + 1
Forward(t) == Visit(t, t.left[t.nil], "right", Fuel)
Backward(t) == Visit(t, Decrement(t, t.nil), "left", Fuel)

\* The end of a search: the node of the key, or the last one passed.
RECURSIVE Search(_, _, _, _)
Search(t, k, x, y) ==
    IF ~IsNode(t, x) THEN [at |-> x, under |-> y]
    ELSE IF k < x THEN Search(t, k, t.left[x], x)
    ELSE IF x < k THEN Search(t, k, t.right[x], x)
    ELSE [at |-> x, under |-> y]
FindNode(t, k) == Search(t, k, Root(t), t.nil).at

\* _lower_bound and _upper_bound: the first node the search could stop at.
RECURSIVE Bound(_, _, _, _)
Bound(t, past, n, result) ==
    IF ~IsNode(t, n) THEN result
    ELSE IF n \in past THEN Bound(t, past, t.right[n], result)
    ELSE Bound(t, past, t.left[n], n)
LowerBound(t, k) == Bound(t, {n \in TreeKeys : n < k}, Root(t), t.nil)
UpperBound(t, k) == Bound(t, {n \in TreeKeys : n <= k}, Root(t), t.nil)

-----------------------------------------------------------------------------
(* Linking.                                                                *)

UpdateExtremes(t) ==
    [t EXCEPT !.left[t.nil] = Furthest(t, Root(t), "left"),
              !.right[t.nil] = Furthest(t, Root(t), "right")]

\* In the place of u below its parent.
Replace(t, u, v) ==
    LET p == t.parent[u]
    IN IF ~IsNode(t, p) THEN [t EXCEPT !.parent[t.nil] = v]
       ELSE IF u = t.left[p] THEN [t EXCEPT !.left[p] = v]
       ELSE [t EXCEPT !.right[p] = v]

\* _left_rotate is Rotate(t, x, "left"): x goes down on that side.
Rotate(t, x, side) ==
    LET other == Opposite(side)
        y == t[other][x]
        inner == t[side][y]
        t1 == [t EXCEPT ![other][x] = inner, !.parent[y] = t.parent[x],
                        !.parent[inner] = IF IsNode(t, inner) THEN x ELSE @]
    IN [Replace(t1, x, y) EXCEPT ![side][y] = x, !.parent[x] = y]

InsertFixupRecolours(t, z) ==                                           \* mutant
    LET p == t.parent[z]
        g == t.parent[p]
        y == IF p = t.left[g] THEN t.right[g] ELSE t.left[g]
        t1 == IF t.black[p] \/ t.black[y] THEN t
              ELSE [t EXCEPT !.black[p] = TRUE, !.black[y] = TRUE, !.black[g] = FALSE]
    IN [t1 EXCEPT !.black[Root(t)] = TRUE]
RECURSIVE InsertFixup(_, _)
InsertFixup(t, z) ==
    LET p == t.parent[z]
        g == t.parent[p]
        side == IF p = t.left[g] THEN "left" ELSE "right"
        other == Opposite(side)
        y == t[other][g]
        t1 == IF z = t[other][p] THEN Rotate(t, p, side) ELSE t
        z1 == IF z = t[other][p] THEN p ELSE z
        p1 == t1.parent[z1]
        g1 == t1.parent[p1]
    IN IF t.black[p] THEN [t EXCEPT !.black[Root(t)] = TRUE]
       ELSE IF ~t.black[y]
       THEN InsertFixup([t EXCEPT !.black[p] = TRUE, !.black[y] = TRUE, !.black[g] = FALSE], g)
       ELSE InsertFixup(Rotate([t1 EXCEPT !.black[p1] = TRUE, !.black[g1] = FALSE], g1, other), z1)

RECURSIVE EraseFixup(_, _, _)
EraseFixup(t, x, xParent) ==
    LET p == IF IsNode(t, x) THEN t.parent[x] ELSE xParent
        side == IF x = t.left[p] THEN "left" ELSE "right"
        other == Opposite(side)
        w == t[other][p]
        t1 == IF t.black[w] THEN t
              ELSE Rotate([t EXCEPT !.black[w] = TRUE, !.black[p] = FALSE], p, side)
        w1 == t1[other][p]
        t2 == IF t1.black[t1[other][w1]]
              THEN Rotate([t1 EXCEPT !.black[t1[side][w1]] = TRUE, !.black[w1] = FALSE], w1, other)
              ELSE t1
        w2 == t2[other][p]
        t3 == Rotate([t2 EXCEPT !.black[w2] = t2.black[p], !.black[p] = TRUE,
                                !.black[t2[other][w2]] = TRUE], p, side)
    IN IF x = Root(t) \/ ~t.black[x]
       THEN [t EXCEPT !.black[x] = IF IsNode(t, x) THEN TRUE ELSE @]
       ELSE IF t1.black[t1.left[w1]] /\ t1.black[t1.right[w1]]
       THEN EraseFixup([t1 EXCEPT !.black[w1] = FALSE], p, t1.parent[p])
       ELSE EraseFixup(t3, Root(t3), xParent)

\* _rb_transplant
Transplant(t, u, v) ==
    [Replace(t, u, v) EXCEPT !.parent[v] = IF IsNode(t, v) THEN t.parent[u] ELSE @]

\* _create_node and the rest of insert, for a key that is not there.
Attach(t, k, v) ==
    LET y == Search(t, k, Root(t), t.nil).under
        t1 == [t EXCEPT !.value[k] = v, !.parent[k] = y,
                        !.left[k] = t.nil, !.right[k] = t.nil, !.black[k] = FALSE]
        t2 == IF ~IsNode(t, y) THEN [t1 EXCEPT !.parent[t.nil] = k]
              ELSE IF k < y THEN [t1 EXCEPT !.left[y] = k]
              ELSE [t1 EXCEPT !.right[y] = k]
    IN UpdateExtremes([InsertFixup(t2, k) EXCEPT !.size = @ + 1])

TreePut(t, k, v) == IF IsNode(t, FindNode(t, k)) THEN t ELSE Attach(t, k, v)

\* _destroy_node
Destroy(t, n) ==
    [t EXCEPT !.value[n] = 0, !.black[n] = FALSE,
              !.parent[n] = t.nil, !.left[n] = t.nil, !.right[n] = t.nil]

\* The node that takes the place of one with two children is its successor.
RaiseSuccessor(t, z) ==
    LET y == Furthest(t, t.right[z], "left")
        t1 == IF t.parent[y] = z THEN t
              ELSE LET u == Transplant(t, y, t.right[y])
                   IN [u EXCEPT !.right[y] = u.right[z], !.parent[u.right[z]] = y]
        t2 == Transplant(t1, z, y)
    IN [t2 EXCEPT !.left[y] = t2.left[z], !.parent[t2.left[z]] = y, !.black[y] = t2.black[z]]

\* _erase_node
Detach(t, z) ==
    LET two == IsNode(t, t.left[z]) /\ IsNode(t, t.right[z])
        y == IF two THEN Furthest(t, t.right[z], "left") ELSE z
        x == IF IsNode(t, t.left[y]) THEN t.left[y] ELSE t.right[y]
        xParent == IF two /\ t.parent[y] = z THEN y ELSE t.parent[y]
        t1 == IF two THEN RaiseSuccessor(t, z) ELSE Transplant(t, z, x)
        t2 == IF t.black[y] THEN EraseFixup(t1, x, xParent) ELSE t1
    IN UpdateExtremes([Destroy(t2, z) EXCEPT !.size = @ - 1])

TreeDrop(t, k) == IF IsNode(t, FindNode(t, k)) THEN Detach(t, k) ELSE t

RelinkForgetsParent(t, nil) ==                                          \* mutant
    LET to(n) == IF n = t.nil THEN nil ELSE n
        moved(f) == [n \in Cells |-> IF n = t.nil THEN nil ELSE to(f[n])]
    IN [t EXCEPT !.nil = nil, !.left = moved(@), !.right = moved(@),
                 !.parent = [n \in Cells |-> IF n = nil THEN to(Root(t)) ELSE t.parent[n]],
                 !.black = [@ EXCEPT ![nil] = TRUE, ![t.nil] = FALSE]]
\* _relink_nil on all nodes, whose root was hung below another header.
Relink(t, nil) ==
    LET to(n) == IF n = t.nil THEN nil ELSE n
        moved(f) == [n \in Cells |-> IF n = t.nil THEN nil ELSE to(f[n])]
    IN [t EXCEPT !.nil = nil, !.left = moved(@), !.right = moved(@),
                 !.parent = [moved(@) EXCEPT ![nil] = to(Root(t))],
                 !.black = [@ EXCEPT ![nil] = TRUE, ![t.nil] = FALSE]]

\* The header keeps its colour.
Painted(t, isBlack) == [t EXCEPT !.black[t.nil] = isBlack]
Emptied(t) == Painted(FreshTree(t.nil), t.black[t.nil])

\* The move constructor runs _init_header only when there is nothing to take:
\* the header of a tree made from one with nodes keeps Node's default, red.
MoveConstructed(t, nil) ==
    IF IsNode(t, Root(t)) THEN Painted(UpdateExtremes(Relink(t, nil)), FALSE) ELSE FreshTree(nil)

-----------------------------------------------------------------------------
(* The calls.                                                              *)

TreeInit == tree = [o \in Objects |-> FreshTree(Header[o])] /\ DictInit

Grows(o, k) == k \in DOMAIN dict[o] \/ DictSize < MaxItems
TreeBecomes(o, t) == tree' = [tree EXCEPT ![o] = t]

\* The constructor from a range inserts its elements in order.
TreeConstruct(o, s) ==
    /\ DictSize = 0
    /\ TreeBecomes(o, FoldLeft(LAMBDA t, k : TreePut(t, k, 1), FreshTree(Header[o]), s))
    /\ dict' = [dict EXCEPT ![o] = [k \in ToSet(s) |-> 1]]

\* Set::insert, Map::insert, Map::try_emplace.
TreeInsert(o, k, v) ==
    /\ Grows(o, k)
    /\ TreeBecomes(o, TreePut(tree[o], k, v)) /\ DictInsert(o, k, v)

\* Map::insert_or_assign, and operator[] with an assignment.
TreeAssign(o, k, v) ==
    /\ Grows(o, k)
    /\ TreeBecomes(o, [TreePut(tree[o], k, v) EXCEPT !.value[k] = v]) /\ DictAssign(o, k, v)

TreeErase(o, k) ==
    /\ TreeBecomes(o, TreeDrop(tree[o], k)) /\ DictErase(o, {k})

\* erase(first, last), each step at the successor of the node just erased.
RECURSIVE EraseBetween(_, _, _)
EraseBetween(t, from, to) ==
    IF from = to THEN t ELSE EraseBetween(Detach(t, from), Increment(t, from), to)

TreeEraseRange(o, k, l) ==
    LET t == tree[o]
    IN /\ k < l
       /\ TreeBecomes(o, EraseBetween(t, LowerBound(t, k), UpperBound(t, l)))
       /\ DictErase(o, k .. l)

TreeClear(o) == TreeBecomes(o, Emptied(tree[o])) /\ DictErase(o, DOMAIN dict[o])

\* The copy constructor and the copy assignment insert the other's elements in order.
TreeCopy(o) ==
    LET u == tree[Peer(o)]
    IN /\ 2 * Cardinality(DOMAIN dict[Peer(o)]) <= MaxItems
       /\ \E start \in {FreshTree(Header[o]), Emptied(tree[o])} :
              TreeBecomes(o, FoldLeft(LAMBDA t, n : TreePut(t, n, u.value[n]), start, Forward(u)))
       /\ DictCopy(o)

\* An object that takes nodes over keeps the colour of its header.
TakeOver(o, t) ==
    IF IsNode(t, Root(t))
    THEN Painted(UpdateExtremes(Relink(t, Header[o])), tree[o].black[Header[o]])
    ELSE FreshTree(Header[o])

TreeMoveAssign(o) ==
    /\ tree' = [tree EXCEPT ![o] = TakeOver(o, tree[Peer(o)]), ![Peer(o)] = Emptied(@)]
    /\ DictMove(o)

\* A new tree takes the place of `o`.
TreeMoveConstruct(o) ==
    /\ DOMAIN dict[Peer(o)] = {} \/ "move tree" \in Risky
    /\ tree' = [tree EXCEPT ![o] = MoveConstructed(tree[Peer(o)], Header[o]),
                            ![Peer(o)] = Emptied(@)]
    /\ DictMove(o)

TreeSwap ==
    /\ tree' = [o \in Objects |-> IF DOMAIN dict[Peer(o)] = {} THEN Emptied(tree[o])
                                   ELSE TakeOver(o, tree[Peer(o)])]
    /\ DictSwap

TreeNext ==
    \/ \E o \in Objects, s \in TreeSeeds : TreeConstruct(o, s)
    \/ \E o \in Objects, k \in Keys, v \in Values : TreeInsert(o, k, v) \/ TreeAssign(o, k, v)
    \/ \E o \in Objects, k \in TreeKeys :
           TreeErase(o, k) \/ \E l \in TreeKeys : TreeEraseRange(o, k, l)
    \/ \E o \in Objects : TreeClear(o) \/ TreeCopy(o) \/ TreeMoveAssign(o) \/ TreeMoveConstruct(o)
    \/ TreeSwap

-----------------------------------------------------------------------------
(* Properties.                                                             *)

RECURSIVE BlackHeights(_, _)
BlackHeights(t, n) ==
    IF ~IsNode(t, n) THEN {0}
    ELSE {h + (IF t.black[n] THEN 1 ELSE 0) :
              h \in BlackHeights(t, t.left[n]) \cup BlackHeights(t, t.right[n])}

\* Every path holds as many black nodes, no red node has a red child, and the root
\* and the header are black, whatever inserts, erases, copies, assignments and
\* swaps came before.  Not so after a tree with nodes was moved into a new one,
\* which takes "move tree" in Risky: its header is red (rbtree.hpp:524), and the
\* O(log n) of docs/README.md:210 is lost with the balance.
TreeBalanced ==
    \A o \in Objects :
        LET t == tree[o]
        IN /\ t.black[t.nil] /\ t.black[Root(t)]
           /\ Cardinality(BlackHeights(t, Root(t))) = 1
           /\ \A k \in DOMAIN dict[o] :
                  ~t.black[k] => t.black[t.left[k]] /\ t.black[t.right[k]]

\* Whatever was rotated, transplanted and relinked, a loop over the tree meets
\* the keys the calls should have left in order, with their values, from either
\* end, and so do the searches by key and by bound.
TreeHolds ==
    \A o \in Objects :
        LET t == tree[o]
            keys == SelectSeq([i \in TreeKeys |-> i], LAMBDA k : k \in DOMAIN dict[o])
            least(S) == IF S = {} THEN t.nil ELSE CHOOSE k \in S : \A l \in S : k <= l
        IN /\ Forward(t) = keys /\ Backward(t) = Reverse(keys)
           /\ t.size = Cardinality(DOMAIN dict[o])
           /\ \A k \in DOMAIN dict[o] : t.value[k] = dict[o][k]
           /\ \A k \in TreeKeys :
                  /\ IsNode(t, FindNode(t, k)) <=> k \in DOMAIN dict[o]
                  /\ LowerBound(t, k) = least({l \in DOMAIN dict[o] : k <= l})
                  /\ UpperBound(t, k) = least({l \in DOMAIN dict[o] : k < l})

=============================================================================
