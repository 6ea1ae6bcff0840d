------------------------------- MODULE Vector -------------------------------
(***************************************************************************)
(* base::Vector (vector.hpp), cell by cell: which cells of the allocation  *)
(* hold an object, what moving one leaves behind, and what is left when    *)
(* copying one throws.                                                     *)
(*                                                                         *)
(* The elements are of a type like String: moving one never throws and     *)
(* leaves it `Moved`, copying one allocates and may throw.  A capacity of  *)
(* 0 stands for `_data == nullptr`.                                        *)
(***************************************************************************)
EXTENDS Collections

VARIABLE vec     \* [Objects -> [cells, size]]; as many cells as the capacity

vectorVars == <<vec, items>>

Raw == -1        \* a cell without an object
Moved == 0       \* an object that was moved from

NoCells == [cells |-> <<>>, size |-> 0]
VectorInit == vec = [o \in Objects |-> NoCells] /\ ItemsInit

-----------------------------------------------------------------------------
(* Cells.                                                                  *)

Capacity(v) == Len(v.cells)
Held(v) == SubSeq(v.cells, 1, v.size)
Filled(s, cap, size) == [cells |-> [i \in 1 .. cap |-> IF i <= Len(s) THEN s[i] ELSE Raw], size |-> size]

\* transfer_to: the objects move to an allocation of another capacity.
TransferTo(v, cap) == Filled(Held(v), cap, v.size)
Reserve(v, cap) == IF cap <= Capacity(v) THEN v ELSE TransferTo(v, cap)

\* Room for one more, with GrowthFactor 2 and InitialCapacity 1.
GrownCapacity(v) == IF Capacity(v) = 0 THEN 1 ELSE 2 * Capacity(v)
Grow(v) == IF v.size = Capacity(v) THEN Reserve(v, GrownCapacity(v)) ELSE v

\* Objects constructed behind those that are there, not counted yet.
Construct(v, s) ==
    [v EXCEPT !.cells = [i \in DOMAIN @ |-> IF i \in v.size + 1 .. v.size + Len(s)
                                            THEN s[i - v.size] ELSE @[i]]]
Counted(v, s) == [Construct(v, s) EXCEPT !.size = @ + Len(s)]

PushBack(v, x) == Counted(Grow(v), <<x>>)

\* One after the other, each counted at once: the range constructor and assign.
PushAll(v, s) == FoldLeft(PushBack, v, s)

EraseLeavesLast(v, i, j) ==                                             \* mutant
    [v EXCEPT !.cells = [k \in DOMAIN @ |-> IF k \in i .. v.size - (j - i) THEN @[k + j - i] ELSE @[k]],
              !.size = @ - (j - i)]
\* The objects from i to before j are destroyed, those behind move down.
EraseCells(v, i, j) == Filled(Cut(Held(v), i, j), Capacity(v), v.size - (j - i))

Clear(v) == EraseCells(v, 1, v.size + 1)

\* emplace with spare capacity: the last object moves up one cell, its place is
\* then moved to the same cell again, and so on down to the place asked for.
ShiftUp(v, i) ==
    LET up == Counted([v EXCEPT !.cells[v.size] = Moved], <<v.cells[v.size]>>)
        n == up.size
    IN [up EXCEPT !.cells = [k \in DOMAIN @ |-> IF k \in i + 1 .. n THEN @[k - 1] ELSE @[k]]]
EmplaceInPlace(v, i, x) == [ShiftUp(v, i) EXCEPT !.cells[i] = x]

\* emplace into a new allocation.
EmplaceGrown(v, i, x) == Filled(SpliceIn(Held(v), i, <<x>>), GrownCapacity(v), v.size + 1)

-----------------------------------------------------------------------------
(* The calls.  `done` is how many copies are made before one throws.       *)

BecomesVec(o, v) == vec' = [vec EXCEPT ![o] = v]

\* push_back and emplace_back.
VectorPushBack(o, x) ==
    /\ Room(1)
    /\ BecomesVec(o, PushBack(vec[o], x)) /\ ItemsBecome(o, Append(items[o], x))
VectorPushBackThrows(o) == Room(1) /\ BecomesVec(o, Grow(vec[o])) /\ UNCHANGED items

\* push_back of one of its own elements: after reserve the reference is to an
\* object that has been moved from and freed.
VectorPushOwn(o, i) ==
    LET v == vec[o]
    IN /\ Room(1) /\ i <= v.size
       /\ v.size < Capacity(v) \/ "push own" \in Risky
       /\ BecomesVec(o, PushBack(v, IF v.size < Capacity(v) THEN v.cells[i] ELSE Moved))
       /\ ItemsBecome(o, Append(items[o], items[o][i]))

\* insert and emplace.  With spare capacity the element that was last is lost,
\* and on an empty vector the cell before the first is read: only the call
\* that has to grow does what it should.
VectorInsert(o, i, x) ==
    LET v == vec[o]
        grows == v.size = Capacity(v)
    IN /\ Room(1) /\ i <= v.size + 1
       /\ grows \/ ("insert" \in Risky /\ v.size > 0)
       /\ BecomesVec(o, IF grows THEN EmplaceGrown(v, i, x) ELSE EmplaceInPlace(v, i, x))
       /\ ItemsBecome(o, SpliceIn(items[o], i, <<x>>))

\* When the copy throws, what was moved to the new allocation is destroyed there.
VectorInsertThrows(o, i) ==
    LET v == vec[o]
    IN /\ v.size = Capacity(v) /\ i <= v.size + 1 /\ Room(1)
       /\ i = 1 \/ "insert throws" \in Risky
       /\ BecomesVec(o, [v EXCEPT !.cells = [k \in DOMAIN @ |-> IF k < i THEN Moved ELSE @[k]]])
       /\ UNCHANGED items

VectorErase(o, i, j) ==
    /\ i < j /\ j <= vec[o].size + 1
    /\ BecomesVec(o, EraseCells(vec[o], i, j)) /\ ItemsBecome(o, Cut(items[o], i, j))

\* resize(n, x); pop_back and clear are resizes too.
VectorResize(o, n, x, done) ==
    LET v == vec[o]
        added == [i \in 1 .. n - v.size |-> x]
    IN /\ Room(n - v.size) /\ done <= Len(added)
       /\ done \in {0, Len(added)} \/ "copy throws" \in Risky
       /\ IF done = Len(added)
          THEN /\ BecomesVec(o, IF n < v.size THEN EraseCells(v, n + 1, v.size + 1)
                                ELSE Counted(Reserve(v, n), added))
               /\ ItemsBecome(o, Resized(items[o], n, x))
          ELSE BecomesVec(o, Construct(Reserve(v, n), SubSeq(added, 1, done))) /\ UNCHANGED items

\* assign(n, x) and the copy assignment; `_size` is set when all are copied.
VectorAssign(o, s, done) ==
    LET v == Reserve(Clear(vec[o]), Len(s))
    IN /\ Len(s) + Len(items[Peer(o)]) <= MaxItems /\ done <= Len(s)
       /\ done \in {0, Len(s)} \/ "copy throws" \in Risky
       /\ BecomesVec(o, IF done = Len(s) THEN Counted(v, s) ELSE Construct(v, SubSeq(s, 1, done)))
       /\ ItemsBecome(o, IF done = Len(s) THEN s ELSE <<>>)
VectorCopy(o, done) == VectorAssign(o, Held(vec[Peer(o)]), done)

\* The copy constructor takes just the room it needs; a new vector replaces `o`.
VectorCopyConstruct(o) ==
    LET s == Held(vec[Peer(o)])
    IN /\ 2 * Len(s) <= MaxItems
       /\ BecomesVec(o, Counted(Reserve(NoCells, Len(s)), s)) /\ ItemsBecome(o, s)

\* assign(first, last), which counts each element it has copied.
VectorAssignRange(o, s, done) ==
    /\ Len(s) + Len(items[Peer(o)]) <= MaxItems /\ done <= Len(s)
    /\ BecomesVec(o, LET v == PushAll(Clear(vec[o]), SubSeq(s, 1, done))
                     IN IF done = Len(s) THEN v ELSE Grow(v))
    /\ ItemsBecome(o, SubSeq(s, 1, done))

\* The move constructor and the move assignment.
VectorMove(o) ==
    /\ vec' = [vec EXCEPT ![o] = vec[Peer(o)], ![Peer(o)] = NoCells]
    /\ ItemsBothBecome(o, items[Peer(o)], <<>>)

VectorSwap == vec' = [o \in Objects |-> vec[Peer(o)]] /\ items' = [o \in Objects |-> items[Peer(o)]]

VectorReserve(o, n) == BecomesVec(o, Reserve(vec[o], n)) /\ UNCHANGED items

\* With no element left, deallocate_all.
VectorShrinkToFit(o) == BecomesVec(o, TransferTo(vec[o], vec[o].size)) /\ UNCHANGED items

VectorNext ==
    \/ \E o \in Objects :
           \/ \E x \in Values : VectorPushBack(o, x)
           \/ \E i \in 1 .. MaxItems + 1 :
                  \/ VectorPushOwn(o, i) \/ VectorInsertThrows(o, i) \/ VectorReserve(o, i)
                  \/ \E x \in Values : VectorInsert(o, i, x)
                  \/ \E j \in 1 .. MaxItems + 1 : VectorErase(o, i, j)
           \/ \E done \in 0 .. MaxItems :
                  \/ \E n \in 0 .. MaxItems, x \in Values : VectorResize(o, n, x, done)
                  \/ \E x \in Values : VectorAssign(o, <<x, x>>, done) \/ VectorAssignRange(o, <<x, 1, x>>, done)
                  \/ VectorCopy(o, done)
           \/ VectorPushBackThrows(o) \/ VectorCopyConstruct(o) \/ VectorMove(o) \/ VectorShrinkToFit(o)
    \/ VectorSwap

\* The vectors by themselves.
VectorSpec == VectorInit /\ subject = "vector" /\ [][VectorNext /\ UNCHANGED subject]_<<vectorVars, subject>>

-----------------------------------------------------------------------------
(* Properties.                                                             *)

\* Whatever was pushed, erased, shifted, moved to a new allocation and copied, the
\* first `_size` cells hold the elements the calls should have left, none of them
\* moved from, and no cell behind them holds an object nobody would destroy.  A
\* copy may have thrown where it was the first of its call, or in assign of a
\* range.  It is not said of inserts with capacity to spare (vector.hpp:364), nor
\* of other copies that throw when some of the call are done (vector.hpp:149,
\* :350): Risky = {} rules them out, and they lose elements or leave objects,
\* although docs/README.md:182 speaks of exception-safe memory management.
VectorHolds ==
    \A o \in Objects :
        LET v == vec[o]
        IN /\ v.size <= Capacity(v) /\ Held(v) = items[o]
           /\ \A i \in v.size + 1 .. Capacity(v) : v.cells[i] = Raw

\* A vector's cells hold its elements and nothing behind them, also after the first
\* copy of a call has thrown.
VectorsHold == subject = "vector" => VectorHolds

=============================================================================
