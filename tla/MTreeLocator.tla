--------------------------- MODULE MTreeLocator ---------------------------
(***************************************************************************)
(* HashNodeLocator of ndn-lib/src/mtree.rs: the geometry of the persisted  *)
(* Merkle tree.  Every operator is a pure function of the leaf count n,    *)
(* as in the code, where the locator is rebuilt from leaf_count alone.     *)
(* The loops of the code are written as recursive functions (not           *)
(* RECURSIVE operators) so that modules proved about may use them.         *)
(***************************************************************************)
EXTENDS Naturals, Sequences

(* calc_depth: (leaf_count as f64).log2().ceil() as u32.  For n = 0 the    *)
(* f64 logarithm is -inf and the saturating cast yields 0.  The f64        *)
(* rounding above 2^53 leaves is not modelled (see the README).            *)
CalcDepth(n) ==
    CHOOSE d \in 0..n : 2^d >= n /\ (d = 0 \/ 2^(d - 1) < n)

(* Mutant: odd counts are not rounded up to even.                         *)
CountPerDepthUnpadded(n) ==
    LET total == CalcDepth(n)
        c[d \in 0..total] == IF d = 0 THEN n ELSE c[d - 1] \div 2
    IN  c

(* calc_count_per_depth: starting from count = leaf_count, every depth     *)
(* but the root's rounds an odd count up to even (the padding slot the     *)
(* duplicate of a lone rightmost node is written to), records it, and      *)
(* halves it for the next depth.                                           *)
CountPerDepth(n) ==
    LET total == CalcDepth(n)
        Padded(d, count) == IF d # total /\ count % 2 # 0 THEN count + 1 ELSE count
        c[d \in 0..total] ==
            Padded(d, IF d = 0 THEN n ELSE c[d - 1] \div 2)
    IN  c

(* The assertion closing calc_count_per_depth: the root depth holds        *)
(* exactly one node.  It fails (a panic in HashNodeLocator::new) when the  *)
(* leaf count is 0.                                                        *)
RootCountIsOne(n) == CountPerDepth(n)[CalcDepth(n)] = 1

(* calc_prev_count_per_depth: the exclusive prefix sums of the counts, the *)
(* stream index at which each depth begins.                                *)
PrevCountPerDepth(n) ==
    LET total == CalcDepth(n)
        cnt == CountPerDepth(n)
        p[d \in 0..total] == IF d = 0 THEN 0 ELSE p[d - 1] + cnt[d - 1]
    IN  p

(* calc_index_in_stream: the slot of node (depth, index) in the flat node  *)
(* region, depth ascending from the leaves, index ascending in a depth.    *)
IndexInStream(n, depth, index) == PrevCountPerDepth(n)[depth] + index

(* Number of slots of the node region: the sum of the counts of all depths.*)
TotalSlots(n) ==
    PrevCountPerDepth(n)[CalcDepth(n)] + CountPerDepth(n)[CalcDepth(n)]

(* get_verify_path_by_leaf_index, for leaf_index < leaf_count (the code    *)
(* returns InvalidParam otherwise).  The loop halves the index once per    *)
(* depth, so at depth d the node on the path has index leaf \div 2^d; the  *)
(* entry is its sibling (index + 1 when even, index - 1 when odd).  The    *)
(* last entry is the root.  Entries are <<depth, stream index>>.           *)
SiblingIndex(index) == IF index % 2 = 0 THEN index + 1 ELSE index - 1

VerifyPath(n, leaf) ==
    LET total == CalcDepth(n)
    IN  [k \in 1..(total + 1) |->
            IF k <= total
            THEN <<k - 1, IndexInStream(n, k - 1, SiblingIndex(leaf \div 2^(k - 1)))>>
            ELSE <<total, IndexInStream(n, total, 0)>>]

(* The guard of get_verify_path_by_leaf_index.                             *)
ValidLeafIndex(n, leaf) == leaf < n
=============================================================================
