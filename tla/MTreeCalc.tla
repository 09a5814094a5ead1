----------------------------- MODULE MTreeCalc -----------------------------
(***************************************************************************)
(* SerializeHashCalculator of ndn-lib/src/mtree.rs: the streaming Merkle   *)
(* builder.  Leaves are pushed on a LIFO stack of hash nodes; the top two  *)
(* nodes are merged whenever they have the same depth; finalize merges     *)
(* what is left, pairing a lone node with a copy of itself; every merged   *)
(* node (and the root) is written to the sink at its locator slot when a   *)
(* writer is attached.                                                     *)
(*                                                                         *)
(* The object is used through &mut self, so the calls of one caller never  *)
(* overlap; a call is split into the steps of its loops (each loop body    *)
(* awaits the writes of the nodes it merges), pc naming the loop in        *)
(* progress.                                                               *)
(***************************************************************************)
EXTENDS Naturals, Sequences, MTreeLocator

CONSTANTS
    LeafCount,      \* the leaf_count given to SerializeHashCalculator::new
    LeafSymbols,    \* the distinct leaf digests callers append (model values)
    MaxBatch,       \* the longest leaf_hashes vector of one append call
    HasWriter,      \* whether a writer (the sink) is attached
    EarlyFinalize,  \* whether callers may finalize before LeafCount leaves
    WriteMayFail    \* whether the writer's seek/write_all may return an error

(* The leaf count is at least 1: for 0 the constructor itself panics in    *)
(* calc_count_per_depth (hazard listed in PROJECT.json).                   *)
ASSUME LeafCountAssumption == LeafCount \in Nat \ {0}
ASSUME MaxBatchAssumption == MaxBatch \in Nat \ {0}
ASSUME HasWriterAssumption == HasWriter \in BOOLEAN /\ EarlyFinalize \in BOOLEAN
ASSUME WriteMayFailAssumption == WriteMayFail \in BOOLEAN

(***************************************************************************)
(* Digests.  calc_parent_hash feeds left then right into one SHA-256 (or   *)
(* SHA-512) hasher.  A digest is modelled as a word over the leaf symbols  *)
(* and two brackets, the parent of l and r being "(" l r ")": an injective *)
(* digest of the concatenation, i.e. a hash without collisions.            *)
(***************************************************************************)
Open == "("
Close == ")"
Digest == Seq(LeafSymbols \cup {Open, Close})
LeafHashes == {<<s>> : s \in LeafSymbols}

(* calc_parent_hash(left, right): hasher.update(left); update(right).      *)
CalcParentHash(left, right) == <<Open>> \o left \o right \o <<Close>>

(* HashNode: hash, depth (0 = leaf), index within its depth.               *)
HashNode == [hash : Digest, depth : Nat, index : Nat]

NoHash == <<>>          \* root before any successful finalize
Results == {"none", "ok", "InvalidParam", "InvalidState", "IoError"}

VARIABLES
    stack,          \* the VecDeque<HashNode>, used as a LIFO: top = Len
    append_count,   \* leaves appended so far
    sink,           \* stream index |-> digest written there by write_hash
    pending,        \* leaf hashes of the running append call not yet pushed
    pc,             \* "idle", or the loop of the call in progress
    ret,            \* result of the last call that returned
    root,           \* the digest returned by the last successful finalize
    appended        \* history: every leaf hash appended, in order

vars == <<stack, append_count, sink, pending, pc, ret, root, appended>>

TotalDepth == CalcDepth(LeafCount)
Top == stack[Len(stack)]
Second == stack[Len(stack) - 1]
Pop1 == SubSeq(stack, 1, Len(stack) - 1)
Pop2 == SubSeq(stack, 1, Len(stack) - 2)

(* write_node: write_hash of the node's digest at the stream index        *)
(* calc_index_in_stream(depth, index); a no-op when no writer is attached. *)
WriteNode(s, node) ==
    IF ~HasWriter THEN s
    ELSE LET slot == IndexInStream(LeafCount, node.depth, node.index)
         IN  [x \in DOMAIN s \cup {slot} |-> IF x = slot THEN node.hash ELSE s[x]]

(* write_node(&node1).await?; write_node(&node2).await? when a seek or a   *)
(* write_all fails: the error is returned at node1's or at node2's write, *)
(* what was written before stays.  (A write_all that fails midway may also *)
(* leave a torn slot; the model keeps the slot as it was.)                 *)
PartialWrites(s, node1) == {s, WriteNode(s, node1)}

(* calc_index_in_stream asserts depth <= total_depth before every write    *)
(* (with or without a writer): a merged node above the root depth aborts.  *)
InLocator(node) == node.depth <= TotalDepth

(* The `?` returns the error from the running call: the loop is left, the  *)
(* rest of the batch is dropped, the calculator is idle again.             *)
ReturnIoError ==
    /\ pc' = "idle"
    /\ ret' = "IoError"
    /\ pending' = <<>>

(* The parent pushed by a merge: hash of (node1, node2), where node1 is    *)
(* the node popped first (the later pushed), at depth + 1, index / 2.      *)
Parent(node1, node2) ==
    [hash |-> CalcParentHash(node1.hash, node2.hash),
     depth |-> node1.depth + 1,
     index |-> node1.index \div 2]

Init ==
    /\ stack = <<>>
    /\ append_count = 0
    /\ sink = <<>>
    /\ pending = <<>>
    /\ pc = "idle"
    /\ ret = "none"
    /\ root = NoHash
    /\ appended = <<>>

(* Mutant: the capacity check lets one leaf too many through.             *)
AppendLeafHashesOffByOne(batch) ==
    /\ pc = "idle"
    /\ IF Len(batch) + append_count > LeafCount + 1
       THEN /\ ret' = "InvalidParam"
            /\ UNCHANGED <<stack, append_count, sink, pending, pc, root, appended>>
       ELSE /\ pending' = batch
            /\ pc' = "append"
            /\ UNCHANGED <<stack, append_count, sink, ret, root, appended>>

(* append_leaf_hashes, the call: the whole batch is refused with           *)
(* InvalidParam, state unchanged, when it would pass the declared count.   *)
AppendLeafHashes(batch) ==
    /\ pc = "idle"
    /\ IF Len(batch) + append_count > LeafCount
       THEN /\ ret' = "InvalidParam"
            /\ UNCHANGED <<stack, append_count, sink, pending, pc, root, appended>>
       ELSE /\ pending' = batch
            /\ pc' = "append"
            /\ UNCHANGED <<stack, append_count, sink, ret, root, appended>>

(* One iteration of the loop over leaf_hashes: push the leaf node with     *)
(* index append_count, count it, then run check_and_merge.                 *)
PushLeaf ==
    /\ pc = "append"
    /\ pending # <<>>
    /\ stack' = Append(stack, [hash |-> Head(pending), depth |-> 0, index |-> append_count])
    /\ append_count' = append_count + 1
    /\ appended' = Append(appended, Head(pending))
    /\ pending' = Tail(pending)
    /\ pc' = "merge"
    /\ UNCHANGED <<sink, ret, root>>

(* The loop is over: append_leaf_hashes returns Ok.                        *)
AppendDone ==
    /\ pc = "append"
    /\ pending = <<>>
    /\ pc' = "idle"
    /\ ret' = "ok"
    /\ UNCHANGED <<stack, append_count, sink, pending, root, appended>>

(* Mutant: the two merged nodes are hashed in push order.                 *)
MergeStepSwapped ==
    /\ pc = "merge"
    /\ Len(stack) > 1
    /\ InLocator(Top)
    /\ Top.depth = Second.depth
    /\ stack' = Append(Pop2, Parent(Second, Top))
    /\ sink' = WriteNode(WriteNode(sink, Top), Second)
    /\ UNCHANGED <<append_count, pending, pc, ret, root, appended>>

(* One iteration of the while loop of check_and_merge: the top two nodes   *)
(* have the same depth; pop node1 then node2, push their parent, write     *)
(* node1 then node2.                                                       *)
MergeStep ==
    /\ pc = "merge"
    /\ Len(stack) > 1
    /\ InLocator(Top)
    /\ Top.depth = Second.depth
    /\ stack' = Append(Pop2, Parent(Top, Second))
    /\ sink' = WriteNode(WriteNode(sink, Top), Second)
    /\ UNCHANGED <<append_count, pending, pc, ret, root, appended>>

(* The same iteration when a write fails: the stack has already been      *)
(* changed when write_node returns the error.                              *)
MergeStepIoError ==
    /\ pc = "merge"
    /\ HasWriter /\ WriteMayFail
    /\ Len(stack) > 1
    /\ InLocator(Top)
    /\ Top.depth = Second.depth
    /\ stack' = Append(Pop2, Parent(Top, Second))
    /\ sink' \in PartialWrites(sink, Top)
    /\ ReturnIoError
    /\ UNCHANGED <<append_count, root, appended>>

(* Mutant: check_and_merge leaves its loop without testing the top two.    *)
MergeDoneEarly ==
    /\ pc = "merge"
    /\ pc' = "append"
    /\ UNCHANGED <<stack, append_count, sink, pending, ret, root, appended>>

(* Mutant: `continue` in place of `break`, the loop never leaves.          *)
MergeDoneNoBreak ==
    /\ pc = "merge"
    /\ ~(Len(stack) > 1 /\ Top.depth = Second.depth)
    /\ UNCHANGED vars

(* check_and_merge breaks out of its loop: back to the loop over leaves.   *)
MergeDone ==
    /\ pc = "merge"
    /\ ~(Len(stack) > 1 /\ Top.depth = Second.depth)
    /\ pc' = "append"
    /\ UNCHANGED <<stack, append_count, sink, pending, ret, root, appended>>

(* finalize, the call: InvalidState on an empty stack.  The calculator    *)
(* does not compare append_count with leaf_count.  The loader calls it     *)
(* after appending leaf_count leaves, which EarlyFinalize = FALSE stands   *)
(* for; the generator's check (mtree.rs:289) compares the declared count   *)
(* with data_size / leaf_size, never with the leaves appended, so its      *)
(* instance has EarlyFinalize = TRUE.                                      *)
Finalize ==
    /\ pc = "idle"
    /\ EarlyFinalize \/ append_count = LeafCount
    /\ IF Len(stack) = 0
       THEN /\ ret' = "InvalidState"
            /\ UNCHANGED <<stack, append_count, sink, pending, pc, root, appended>>
       ELSE /\ pc' = "finalize"
            /\ UNCHANGED <<stack, append_count, sink, pending, ret, root, appended>>

(* One iteration of finalize's loop when the node below node1 has its      *)
(* depth: it is popped as node2, the real sibling.                         *)
FinalizeMergeSibling ==
    /\ pc = "finalize"
    /\ Len(stack) > 1
    /\ InLocator(Top)
    /\ Second.depth = Top.depth
    /\ stack' = Append(Pop2, Parent(Top, Second))
    /\ sink' = WriteNode(WriteNode(sink, Top), Second)
    /\ UNCHANGED <<append_count, pending, pc, ret, root, appended>>

(* Mutant: node1 is not popped before its parent is pushed.               *)
FinalizeDuplicateNoPop ==
    /\ pc = "finalize"
    /\ Len(stack) > 1
    /\ InLocator(Top)
    /\ Second.depth # Top.depth
    /\ LET node2 == [hash |-> Top.hash, depth |-> Top.depth, index |-> Top.index + 1]
       IN  /\ stack' = Append(stack, Parent(Top, node2))
           /\ sink' = WriteNode(WriteNode(sink, Top), node2)
    /\ UNCHANGED <<append_count, pending, pc, ret, root, appended>>

(* Mutant: the clone keeps node1's index instead of index + 1.             *)
FinalizeDuplicateSameIndex ==
    /\ pc = "finalize"
    /\ Len(stack) > 1
    /\ InLocator(Top)
    /\ Second.depth # Top.depth
    /\ stack' = Append(Pop1, Parent(Top, Top))
    /\ sink' = WriteNode(WriteNode(sink, Top), Top)
    /\ UNCHANGED <<append_count, pending, pc, ret, root, appended>>

(* One iteration of finalize's loop when node1 is alone at its depth:      *)
(* node2 is a clone of node1 with index + 1 (the padding slot).            *)
FinalizeDuplicate ==
    /\ pc = "finalize"
    /\ Len(stack) > 1
    /\ InLocator(Top)
    /\ Second.depth # Top.depth
    /\ LET node2 == [hash |-> Top.hash, depth |-> Top.depth, index |-> Top.index + 1]
       IN  /\ stack' = Append(Pop1, Parent(Top, node2))
           /\ sink' = WriteNode(WriteNode(sink, Top), node2)
    /\ UNCHANGED <<append_count, pending, pc, ret, root, appended>>

(* An iteration of finalize's loop, either branch, when a write fails      *)
(* after the parent has been pushed.                                       *)
FinalizeStepIoError ==
    /\ pc = "finalize"
    /\ HasWriter /\ WriteMayFail
    /\ Len(stack) > 1
    /\ InLocator(Top)
    /\ LET sibling == Second.depth = Top.depth
           node2 == IF sibling THEN Second
                    ELSE [hash |-> Top.hash, depth |-> Top.depth, index |-> Top.index + 1]
       IN  /\ stack' = Append(IF sibling THEN Pop2 ELSE Pop1, Parent(Top, node2))
           /\ sink' \in PartialWrites(sink, Top)
    /\ ReturnIoError
    /\ UNCHANGED <<append_count, root, appended>>

(* The root passed finalize's assertions and was popped, and writing it    *)
(* fails: the root hash is lost with the stack now empty.                  *)
FinalizeRootIoError ==
    /\ pc = "finalize"
    /\ HasWriter /\ WriteMayFail
    /\ Len(stack) = 1
    /\ Top.depth = TotalDepth /\ Top.index = 0
    /\ stack' = <<>>
    /\ ret' = "IoError"
    /\ pc' = "idle"
    /\ UNCHANGED <<append_count, sink, pending, root, appended>>

(* A merge loop (check_and_merge or finalize) about to write a node deeper *)
(* than total_depth: the assertion of calc_index_in_stream aborts.         *)
LocatorAbort ==
    /\ pc \in {"merge", "finalize"}
    /\ Len(stack) > 1
    /\ pc = "finalize" \/ Top.depth = Second.depth
    /\ ~InLocator(Top)
    /\ pc' = "panicked"
    /\ UNCHANGED <<stack, append_count, sink, pending, ret, root, appended>>

(* One node is left: finalize asserts it is at (total_depth, 0), writes it *)
(* and returns its hash.  A failed assertion aborts the process.           *)
FinalizeRoot ==
    /\ pc = "finalize"
    /\ Len(stack) = 1
    /\ IF Top.depth = TotalDepth /\ Top.index = 0
       THEN /\ stack' = <<>>
            /\ sink' = WriteNode(sink, Top)
            /\ root' = Top.hash
            /\ pc' = "idle"
            /\ ret' = "ok"
       ELSE /\ pc' = "panicked"
            /\ UNCHANGED <<stack, sink, root, ret>>
    /\ UNCHANGED <<append_count, pending, appended>>

Next ==
    \/ \E k \in 1..MaxBatch : \E batch \in [1..k -> LeafHashes] : AppendLeafHashes(batch)
    \/ PushLeaf
    \/ AppendDone
    \/ MergeStep
    \/ MergeDone
    \/ Finalize
    \/ FinalizeMergeSibling
    \/ FinalizeDuplicate
    \/ FinalizeRoot
    \/ MergeStepIoError
    \/ FinalizeStepIoError
    \/ FinalizeRootIoError
    \/ LocatorAbort

Spec == Init /\ [][Next]_vars

(* The steps of a call in progress.  A call is an awaited future: once     *)
(* started, its loop runs on until it returns or the process aborts; each *)
(* write it awaits completes or fails (WriteMayFail).  The caller's next  *)
(* call is not forced: a caller may stop at any time.                      *)
CallStep ==
    \/ PushLeaf \/ AppendDone \/ MergeStep \/ MergeDone
    \/ FinalizeMergeSibling \/ FinalizeDuplicate \/ FinalizeRoot
    \/ MergeStepIoError \/ FinalizeStepIoError \/ FinalizeRootIoError
    \/ LocatorAbort

FairSpec == Spec /\ WF_vars(CallStep)

-----------------------------------------------------------------------------
(* Type invariant.                                                         *)
TypeOK ==
    /\ stack \in Seq(HashNode)
    /\ append_count \in 0..LeafCount
    /\ \A x \in DOMAIN sink : sink[x] \in Digest
    /\ pending \in Seq(LeafHashes)
    /\ pc \in {"idle", "append", "merge", "finalize", "panicked"}
    /\ ret \in Results
    /\ root \in Digest
    /\ appended \in Seq(LeafHashes)

-----------------------------------------------------------------------------
(***************************************************************************)
(* Reference tree, level by level, with the code's conventions: a level    *)
(* below the root of odd length is padded with a copy of its last node,    *)
(* and a parent hashes its right child (odd index) first, as               *)
(* calc_parent_hash(node1, node2) does with node1 the later pushed node.   *)
(***************************************************************************)
RefPadded(ls) ==
    LET total == CalcDepth(Len(ls))
        Pad(d, lv) == IF d # total /\ Len(lv) % 2 = 1 THEN Append(lv, lv[Len(lv)]) ELSE lv
        p[d \in 0..total] ==
            Pad(d, IF d = 0 THEN ls
                   ELSE [k \in 1..(Len(p[d - 1]) \div 2) |->
                            CalcParentHash(p[d - 1][2 * k], p[d - 1][2 * k - 1])])
    IN  p

RefRoot(ls) == RefPadded(ls)[CalcDepth(Len(ls))][1]

(* The same tree as the spec describes it (4.1, 4.3): hash_pair(a, b) with *)
(* a the earlier pushed, left node.                                        *)
SpecRoot(ls) ==
    LET total == CalcDepth(Len(ls))
        Pad(d, lv) == IF d # total /\ Len(lv) % 2 = 1 THEN Append(lv, lv[Len(lv)]) ELSE lv
        p[d \in 0..total] ==
            Pad(d, IF d = 0 THEN ls
                   ELSE [k \in 1..(Len(p[d - 1]) \div 2) |->
                            CalcParentHash(p[d - 1][2 * k - 1], p[d - 1][2 * k])])
    IN  p[total][1]

(* The refinement mapping: the abstract leaves are those appended and the  *)
(* rest of the running call's batch (the call takes the batch whole when  *)
(* it starts; pending is empty between calls); the abstract result is the *)
(* root returned.                                                          *)
Abs == INSTANCE MTreeBuilderSpec
         WITH Leaf <- LeafHashes, TreeRoot <- RefRoot, NoRoot <- NoHash,
              leaves <- appended \o pending,
              result <- root

(* A finalize has returned Ok and no leaf has been pushed since.           *)
Finalized == root # NoHash /\ stack = <<>>

-----------------------------------------------------------------------------
(* The resource guarantee of the builder (spec 4.3, 5): however the leaves *)
(* are batched, the pending stack of append_leaf_hashes/check_and_merge    *)
(* and finalize never holds more than total_depth + 1 nodes.               *)
StackBounded == Len(stack) <= TotalDepth + 1

(* The shape that bounds the stack: depths strictly decrease from the      *)
(* bottom, except that the top two may be equal inside check_and_merge's   *)
(* or finalize's loop, never once append_leaf_hashes or finalize returns.  *)
StackDecreasing ==
    /\ \A i \in 1..(Len(stack) - 2) : stack[i].depth > stack[i + 1].depth
    /\ Len(stack) > 1 => Second.depth >= Top.depth
    /\ pc \in {"idle", "append"} /\ Len(stack) > 1 => Second.depth > Top.depth

(* Batch invariance and the duplication rule (spec 8): the root finalize   *)
(* returns is the reference root of the leaves appended, whatever batches  *)
(* and whatever interleaving of merges produced it.                        *)
RootCorrect == Finalized => root = RefRoot(appended)

(* Write path geometry: every slot the builder has written lies in the     *)
(* node region of the locator for leaf_count, at a (depth, index) the      *)
(* reference tree of the leaves appended so far has, and holds that node's *)
(* hash; a padding slot holds the copy of its left neighbour.              *)
SinkMatchesTree ==
    \A x \in DOMAIN sink :
        \E d \in 0..TotalDepth :
            \E i \in 0..(CountPerDepth(LeafCount)[d] - 1) :
                /\ IndexInStream(LeafCount, d, i) = x
                /\ d <= CalcDepth(Len(appended))
                /\ i < Len(RefPadded(appended)[d])
                /\ sink[x] = RefPadded(appended)[d][i + 1]

(* Read path against write path: once all leaf_count leaves are appended   *)
(* and finalize has returned, every slot of the node region is written,    *)
(* and for every leaf the slots get_verify_path_by_leaf_index names        *)
(* recompute, from the leaf's hash and the code's right-first convention,  *)
(* the hash in the root slot, which is the root finalize returned.         *)
Recompute(leaf, path) ==
    LET cur[k \in 0..(Len(path) - 1)] ==
            IF k = 0 THEN sink[IndexInStream(LeafCount, 0, leaf)]
            ELSE LET sib == sink[path[k][2]]
                 IN  IF (leaf \div 2^(k - 1)) % 2 = 0
                     THEN CalcParentHash(sib, cur[k - 1])
                     ELSE CalcParentHash(cur[k - 1], sib)
    IN  cur[Len(path) - 1]

ProofsVerify ==
    HasWriter /\ Finalized /\ append_count = LeafCount =>
        /\ DOMAIN sink = 0..(TotalSlots(LeafCount) - 1)
        /\ \A leaf \in 0..(LeafCount - 1) :
              LET path == VerifyPath(LeafCount, leaf)
              IN  /\ Recompute(leaf, path) = sink[path[Len(path)][2]]
                  /\ sink[path[Len(path)][2]] = root

(* The builder implements the abstract builder of spec 4.3: every batch is *)
(* taken whole or refused, and the one root finalize returns is the tree  *)
(* root of exactly the leaves appended, for every batching and merge      *)
(* order of append_leaf_hashes, check_and_merge and finalize.             *)
Refines == Abs!Spec

(* A tree is finalized once: after finalize has returned a root (the      *)
(* loader calls it only when append_count = leaf_count), no later         *)
(* append_leaf_hashes takes a leaf and no later finalize pushes, pops or  *)
(* returns another root: the root, the stack and the leaves never change. *)
RootFinal ==
    [][root # NoHash => UNCHANGED <<root, stack, appended>>]_vars

(* Every call returns: once append_leaf_hashes or finalize has started,   *)
(* its loops end and the calculator is idle again (the check_and_merge    *)
(* loop ends by popping, finalize's by raising the top's depth).           *)
CallsReturn == pc \in {"append", "merge", "finalize"} ~> pc = "idle"

(* Spec 7 and 9: no operation of the public contract terminates the        *)
(* process; finalize's assertions on the root's depth and index abort it.  *)
NoAbort == pc # "panicked"

(* Spec 4.1 and 4.3: the parent is hash_pair(left, right) with the earlier *)
(* pushed node on the left; calc_parent_hash is given the later first.     *)
SpecHashOrder == Finalized => root = SpecRoot(appended)
=============================================================================
