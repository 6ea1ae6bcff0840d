----------------------------- MODULE HashTable -----------------------------
(***************************************************************************)
(* base::HashTable with HashMap and HashSet on it (hash_table.hpp,         *)
(* hash_map.hpp, hash_set.hpp): chains of nodes in an array of buckets     *)
(* that doubles when there are more nodes than buckets.                    *)
(*                                                                         *)
(* A chain is the sequence of its nodes, a node [key, value].  `size` is   *)
(* _size, kept apart from the chains as in the code.  A bucket array is    *)
(* known by its length: an iterator made for another length points into an *)
(* array that has been freed.                                              *)
(***************************************************************************)
EXTENDS Collections

CONSTANT DefaultBuckets    \* DEFAULT_BUCKET_COUNT, 8 in the code

ASSUME TableAssumption == DefaultBuckets \in Nat \ {0}

VARIABLE table             \* [Objects -> tables]

tableVars == <<table, dict>>

EmptyTable(n) == [buckets |-> [i \in 1 .. n |-> <<>>], size |-> 0]

\* After a move there is no array, and _bucket_index would divide by zero.
MovedFrom == EmptyTable(0)
Usable(o) == Len(table[o].buckets) > 0

TableInit == table = [o \in Objects |-> EmptyTable(DefaultBuckets)] /\ DictInit

-----------------------------------------------------------------------------
(* The private members.                                                    *)

\* _bucket_index.  The hash of a key is the key: a hash is any function.
BucketIndex(t, k) == (k % Len(t.buckets)) + 1
Chain(t, k) == t.buckets[BucketIndex(t, k)]

\* The place of a key in its chain, 0 when it is not there.
Place(t, k) == SelectInSeq(Chain(t, k), LAMBDA n : n.key = k)

\* begin() .. end(), with the iterator's operator++.
Nodes(t) == FlattenSeq(t.buckets)

LinkFront(t, n) == [t EXCEPT !.buckets[BucketIndex(t, n.key)] = <<n>> \o @]

RehashDropsTails(t, n) ==                                               \* mutant
    [FoldLeft(LinkFront, EmptyTable(n),
              FlattenSeq([i \in DOMAIN t.buckets |->
                             SubSeq(t.buckets[i], 1, IF Len(t.buckets[i]) > 2 THEN 2
                                                     ELSE Len(t.buckets[i]))]))
        EXCEPT !.size = t.size]
\* _rehash: the nodes of every old chain, first to last, become heads of new ones.
RehashTo(t, n) ==
    [FoldLeft(LinkFront, EmptyTable(n), Nodes(t)) EXCEPT !.size = t.size]

\* _rehash_if_needed, with the load factor 1.
RehashIfNeeded(t) ==
    IF t.size > Len(t.buckets) THEN RehashTo(t, 2 * Len(t.buckets)) ELSE t

\* An iterator: the bucket and the array it was made for, and its node's key (0: none).
At(t, k, key) == [bucket |-> BucketIndex(t, k), of |-> Len(t.buckets), key |-> key]
EndOf(t) == [bucket |-> Len(t.buckets) + 1, of |-> Len(t.buckets), key |-> 0]

Find(t, k) == IF Place(t, k) > 0 THEN At(t, k, k) ELSE EndOf(t)

\* emplace: of a key that is there it returns an iterator to the head of the
\* chain, and after a rehash one for the old array.
Emplace(t, k, v) ==
    IF Place(t, k) > 0 THEN [table |-> t, it |-> At(t, k, Chain(t, k)[1].key)]
    ELSE [table |-> RehashIfNeeded([LinkFront(t, [key |-> k, value |-> v]) EXCEPT !.size = @ + 1]),
          it |-> At(t, k, k)]

Insert(t, n) == Emplace(t, n.key, n.value).table

\* erase of a key, or of the node an iterator stands at.
Erase(t, k) ==
    IF Place(t, k) = 0 THEN t
    ELSE [t EXCEPT !.buckets[BucketIndex(t, k)] = RemoveAt(@, Place(t, k)), !.size = @ - 1]

AfterEraseSkips(t, k) ==                                                \* mutant
    LET rest == SubSeq(Chain(t, k), Place(t, k) + 1, Len(Chain(t, k)))
    IN At(t, k, IF Len(rest) < 2 THEN 0 ELSE rest[2].key)
\* What erase of an iterator returns: the next node of the chain, or none.
AfterErase(t, k) ==
    LET rest == SubSeq(Chain(t, k), Place(t, k) + 1, Len(Chain(t, k)))
    IN At(t, k, IF rest = <<>> THEN 0 ELSE rest[1].key)

\* The keys of a chain from k on, and their nodes erased one after the other.
KeysFrom(t, k) ==
    LET chain == Chain(t, k)
    IN [i \in 1 .. Len(chain) + 1 - Place(t, k) |-> chain[Place(t, k) + i - 1].key]
EraseAll(t, ks) == FoldLeft(Erase, t, ks)

SetValue(t, k, v) == [t EXCEPT !.buckets[BucketIndex(t, k)][Place(t, k)].value = v]

\* _clear empties the chains and leaves _size.
ClearChains(t) == [EmptyTable(Len(t.buckets)) EXCEPT !.size = t.size]

\* The copy assignment, which counts on top of what _clear left.
CopyInto(t, u) == FoldLeft(Insert, RehashTo(ClearChains(t), Len(u.buckets)), Nodes(u))

\* The copy constructor.
CopyOf(u) == FoldLeft(Insert, EmptyTable(Len(u.buckets)), Nodes(u))

-----------------------------------------------------------------------------
(* The calls.                                                              *)

Becomes(o, t) == table' = [table EXCEPT ![o] = t]

\* HashMap::insert, try_emplace, and HashSet::insert.
TableInsert(o, k, v) ==
    /\ Usable(o) /\ (k \in DOMAIN dict[o] \/ DictSize < MaxItems)
    /\ Becomes(o, Emplace(table[o], k, v).table)
    /\ DictInsert(o, k, v)

\* HashMap::insert_or_assign.
TableAssign(o, k, v) ==
    /\ Usable(o) /\ (k \in DOMAIN dict[o] \/ DictSize < MaxItems)
    /\ Becomes(o, IF Place(table[o], k) > 0 THEN SetValue(table[o], k, v)
                  ELSE Emplace(table[o], k, v).table)
    /\ DictAssign(o, k, v)

\* m[k] = v: the value written is that of the node emplace's iterator stands at.
\* It is right when the key is new, or first in its chain.
TableIndex(o, k, v) ==
    /\ Usable(o) /\ (k \in DOMAIN dict[o] \/ DictSize < MaxItems)
    /\ Place(table[o], k) \in {0, 1} \/ "index" \in Risky
    /\ LET e == Emplace(table[o], k, 1) IN Becomes(o, SetValue(e.table, e.it.key, v))
    /\ DictAssign(o, k, v)

TableErase(o, k) ==
    /\ Usable(o)
    /\ Becomes(o, Erase(table[o], k)) /\ DictErase(o, {k})

\* HashMap::erase(first, last) from a node to end(): `first = erase(first)`
\* until the iterators are equal; erase of an iterator without a node gives end().
TableEraseToEnd(o, k) ==
    LET t == table[o]
        erased == ToSet(KeysFrom(t, k))
        wanted == LET ns == Nodes(t)
                      i == SelectInSeq(ns, LAMBDA n : n.key = k)
                  IN {ns[j].key : j \in i .. Len(ns)}
    IN /\ Usable(o) /\ k \in DOMAIN dict[o]
       /\ erased = wanted \/ "erase range" \in Risky
       /\ Becomes(o, EraseAll(t, KeysFrom(t, k)))
       /\ DictErase(o, wanted)

TableClear(o) ==
    /\ Becomes(o, EmptyTable(Len(table[o].buckets)))
    /\ DictErase(o, DOMAIN dict[o])

\* reserve(n) asks for n + 1 buckets.  The cap on the request is the model's.
TableReserve(o, n) ==
    /\ Usable(o) /\ n + 1 <= 2 * DefaultBuckets
    /\ LET asked == IF n + 1 < DefaultBuckets THEN DefaultBuckets ELSE n + 1
           t == table[o]
       IN Becomes(o, IF t.size > Len(t.buckets) \/ asked > Len(t.buckets)
                     THEN RehashTo(t, asked) ELSE t)
    /\ UNCHANGED dict

TableCopyAssign(o) ==
    /\ Usable(Peer(o)) /\ 2 * Cardinality(DOMAIN dict[Peer(o)]) <= MaxItems
    /\ table[o].size = 0 \/ "copy" \in Risky
    /\ Becomes(o, CopyInto(table[o], table[Peer(o)]))
    /\ DictCopy(o)

\* A new table takes the place of `o`.
TableCopyConstruct(o) ==
    /\ Usable(Peer(o)) /\ 2 * Cardinality(DOMAIN dict[Peer(o)]) <= MaxItems
    /\ Becomes(o, CopyOf(table[Peer(o)]))
    /\ DictCopy(o)

\* The move constructor and the move assignment leave the same.
TableMove(o) ==
    /\ table' = [table EXCEPT ![o] = table[Peer(o)], ![Peer(o)] = MovedFrom]
    /\ DictMove(o)

TableSwap == table' = [o \in Objects |-> table[Peer(o)]] /\ DictSwap

TableNext ==
    \/ \E o \in Objects, k \in Keys :
           \/ \E v \in Values : TableInsert(o, k, v) \/ TableAssign(o, k, v) \/ TableIndex(o, k, v)
           \/ TableErase(o, k) \/ TableEraseToEnd(o, k) \/ TableReserve(o, k)
    \/ \E o \in Objects : TableClear(o) \/ TableCopyAssign(o) \/ TableCopyConstruct(o) \/ TableMove(o)
    \/ TableSwap

\* The tables by themselves.
TableSpec == TableInit /\ subject = "table" /\ [][TableNext /\ UNCHANGED subject]_<<tableVars, subject>>

-----------------------------------------------------------------------------
(* Properties.                                                             *)

\* Whatever was rehashed, copied, moved and erased, a table holds the entries
\* the calls should have left, each once and in the chain its key is looked up
\* in, and counts them right.
TableHolds ==
    \A o \in Objects :
        LET t == table[o]
        IN /\ t.size = Len(Nodes(t)) /\ t.size = Cardinality(DOMAIN dict[o])
           /\ \A k \in DOMAIN dict[o] :
                  /\ Place(t, k) > 0
                  /\ Chain(t, k)[Place(t, k)].value = dict[o][k]

\* The nodes behind that of a key, and those from an iterator to end().
NodesAfter(t, k) ==
    LET place == SelectInSeq(Nodes(t), LAMBDA n : n.key = k)
    IN SubSeq(Nodes(t), place + 1, Len(Nodes(t)))
NodesFrom(t, it) ==
    LET chain == t.buckets[it.bucket]
        from == IF it.key = 0 THEN Len(chain) + 1 ELSE Place(t, it.key)
    IN SubSeq(chain, from, Len(chain)) \o FlattenSeq(SubSeq(t.buckets, it.bucket + 1, it.of))

\* A loop that erases through the iterators erase returns goes on with the
\* nodes that follow: the one returned is the next of the chain, or stands in
\* this bucket of this array, from where operator++ finds the next one.
GoesOn(t, k) ==
    LET it == AfterErase(t, k)
    IN it.of = Len(Erase(t, k).buckets) /\ NodesFrom(Erase(t, k), it) = NodesAfter(t, k)
EraseContinues == \A o \in Objects : \A k \in DOMAIN dict[o] : GoesOn(table[o], k)

\* A hash table that was rehashed, copied, moved and erased from in any order
\* holds the entries the calls should have left, where lookups find them.
TablesHold == subject = "table" => TableHolds

\* A loop that erases through the iterators a hash table's erase returns goes on
\* with the nodes that follow.
EraseLoopsContinue == subject = "table" => EraseContinues

=============================================================================
