-------------------------- MODULE MTreeBuilderSpec --------------------------
(***************************************************************************)
(* What the streaming builder promises its callers (spec 4.3, 8): leaves   *)
(* are taken in batches, in order, never more than the declared count; a  *)
(* batch that would pass the count is refused whole; once all declared    *)
(* leaves are in, finalize returns the root of the tree over them, however *)
(* they were batched.  The builder's stack, merges and writes are hidden. *)
(***************************************************************************)
EXTENDS Naturals, Sequences

CONSTANTS
    LeafCount,      \* leaves declared to the builder
    Leaf,           \* the leaf hashes a caller may append
    MaxBatch,       \* longest batch of one call
    TreeRoot(_),    \* the root hash of a complete sequence of leaves
    NoRoot          \* result before finalize

VARIABLES
    leaves,         \* the leaves taken so far, in order
    result          \* the root returned by finalize, NoRoot before

absvars == <<leaves, result>>

Init ==
    /\ leaves = <<>>
    /\ result = NoRoot

(* A batch is taken whole when it fits.                                    *)
Take(batch) ==
    /\ Len(leaves) + Len(batch) <= LeafCount
    /\ leaves' = leaves \o batch
    /\ UNCHANGED result

(* Finalize, once every declared leaf is in: the root of those leaves.    *)
Finalize ==
    /\ Len(leaves) = LeafCount
    /\ result = NoRoot
    /\ result' = TreeRoot(leaves)
    /\ UNCHANGED leaves

Next ==
    \/ \E k \in 1..MaxBatch : \E batch \in [1..k -> Leaf] : Take(batch)
    \/ Finalize

Spec == Init /\ [][Next]_absvars
=============================================================================
