----------------------------- MODULE MTreeMeta -----------------------------
(***************************************************************************)
(* MerkleTreeMetaData of ndn-lib/src/mtree.rs: the header both the writer  *)
(* (MerkleTreeObjectGenerator) and the reader (MerkleTreeObject) build     *)
(* from data_size and leaf_size, and the leaf count derived from them.     *)
(***************************************************************************)
EXTENDS Naturals

CONSTANTS
    DataSize,       \* meta.data_size (u64)
    LeafSize        \* meta.leaf_size (u64)

ASSUME MetaAssumption == DataSize \in Nat /\ LeafSize \in Nat

(* MerkleTreeMetaData::leaf_count: data_size / leaf_size, plus one when    *)
(* there is a remainder.  It asserts leaf_size > 0; every caller asserts   *)
(* it first, so the value for 0 (taken as 0 here) is never used.           *)
MetaLeafCount ==
    IF LeafSize = 0 THEN 0
    ELSE DataSize \div LeafSize + (IF DataSize % LeafSize # 0 THEN 1 ELSE 0)
=============================================================================
