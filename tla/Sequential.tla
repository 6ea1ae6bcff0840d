----------------------------- MODULE Sequential -----------------------------
(***************************************************************************)
(* The parts of the code that work on data of their own in one thread:     *)
(* the containers and algorithms of libs/base, and the texts of requests   *)
(* and replies.  They share no state but the reference `dict` and `items`, *)
(* and each behaviour drives one of them, the `subject`, while the others  *)
(* stay as they were made.                                                 *)
(***************************************************************************)
EXTENDS HashTable, RBTree, List, ForwardList, Vector, Text, Algorithms, Payload

CONSTANT Subjects

ASSUME SubjectsAssumption ==
    Subjects \subseteq {"table", "tree", "list", "forward list", "vector", "text",
                        "algorithms", "payloads"}

sequenceVars == <<heap, length, chains, count, vec, text, blocks, sorted, digest, items>>
sequentialVars == <<subject, table, tree, dict, sequenceVars, payloadVars>>

SequentialInit ==
    /\ subject \in Subjects
    /\ TableInit /\ TreeInit /\ ListInit /\ ForwardInit /\ VectorInit /\ TextInit
    /\ AlgorithmsInit /\ PayloadInit

TableStep ==
    /\ subject = "table" /\ TableNext
    /\ UNCHANGED <<subject, tree, sequenceVars, payloadVars>>

TreeStep ==
    /\ subject = "tree" /\ TreeNext
    /\ UNCHANGED <<subject, table, sequenceVars, payloadVars>>

ListStep ==
    /\ subject = "list" /\ ListNext
    /\ UNCHANGED <<subject, table, tree, dict, payloadVars, chains, count, vec, text, blocks, sorted, digest>>

ForwardStep ==
    /\ subject = "forward list" /\ ForwardNext
    /\ UNCHANGED <<subject, table, tree, dict, payloadVars, heap, length, vec, text, blocks, sorted, digest>>

VectorStep ==
    /\ subject = "vector" /\ VectorNext
    /\ UNCHANGED <<subject, table, tree, dict, payloadVars, heap, length, chains, count, text, blocks, sorted, digest>>

TextStep ==
    /\ subject = "text" /\ TextNext
    /\ UNCHANGED <<subject, table, tree, dict, payloadVars, heap, length, chains, count, vec, sorted, digest>>

AlgorithmsStep ==
    /\ subject = "algorithms" /\ AlgorithmsNext
    /\ UNCHANGED <<subject, table, tree, dict, payloadVars, heap, length, chains, count, vec, text, blocks>>

PayloadStep ==
    /\ subject = "payloads" /\ PayloadNext
    /\ UNCHANGED <<subject, table, tree, dict, sequenceVars>>

SequentialNext ==
    \/ TableStep \/ TreeStep \/ ListStep \/ ForwardStep \/ VectorStep \/ TextStep
    \/ AlgorithmsStep \/ PayloadStep

SequentialSpec == SequentialInit /\ [][SequentialNext]_sequentialVars

-----------------------------------------------------------------------------
(* Properties: those of the subject's module.  Those of tables, vectors,  *)
(* texts, digests and payloads are stated in theirs.                       *)

\* A tree is red-black after every rotation, transplant and relinking, as long as
\* no tree with nodes is moved into a new one (rbtree.hpp:524; "move tree").
TreesBalanced == subject = "tree" => TreeBalanced

\* A tree's loops from both ends and its searches meet the entries the calls
\* should have left, in order.
TreesHold == subject = "tree" => TreeHolds

\* Two lists that splice, merge, swap and sort are rings of the elements the
\* calls should have left, two forward lists such chains, and no node is lost.
ListsHold ==
    /\ subject = "list" => ListHolds
    /\ subject = "forward list" => ForwardHolds

\* Ranges of every order are sorted, by insertion or by partition.
RangesSorted == subject = "algorithms" => SortHolds

=============================================================================
