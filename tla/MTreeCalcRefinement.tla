------------------------- MODULE MTreeCalcRefinement -------------------------
(***************************************************************************)
(* The streaming builder MTreeCalc implements the abstract builder         *)
(* MTreeBuilderSpec under the mapping Abs, step by step: a started         *)
(* append_leaf_hashes call is an abstract Take of its whole batch, the     *)
(* finalize step that returns the root is the abstract Finalize, and every *)
(* other step (a leaf push, a merge, a write, a refused call) leaves the   *)
(* abstract leaves and result alone.  The value of the root is the one     *)
(* thing the step argument takes from outside: that it is the reference    *)
(* root RefRoot of the leaves is RootCorrect, a property of a recursively  *)
(* defined tree which the runs check.                                      *)
(***************************************************************************)
EXTENDS MTreeCalcProofs

(* What the mapping needs besides the type and finality invariants: the    *)
(* leaf counter counts the leaves appended, and no batch is pending        *)
(* between calls or while finalize runs.                                   *)
RefInv ==
    /\ TypeInv
    /\ FinalInv
    /\ append_count = Len(appended)
    /\ pc \in {"idle", "finalize"} => pending = <<>>

(* The abstract leaves under Abs.                                          *)
AbsLeaves == appended \o pending

(* Pushing the head of the pending batch moves it from the batch to the    *)
(* appended leaves and leaves their concatenation unchanged.               *)
LEMMA PushKeepsLeaves ==
    ASSUME NEW S, NEW a \in Seq(S), NEW p \in Seq(S), p # <<>>
    PROVE  Append(a, Head(p)) \o Tail(p) = a \o p
<1>1. /\ Head(p) \in S
      /\ Tail(p) \in Seq(S)
      /\ Len(Tail(p)) = Len(p) - 1
      /\ \A i \in 1..Len(Tail(p)) : Tail(p)[i] = p[i + 1]
  BY HeadTailProperties
<1>2. Append(a, Head(p)) \in Seq(S) /\ Len(Append(a, Head(p))) = Len(a) + 1
  BY <1>1, AppendProperties
<1>3. Len(p) >= 1 /\ Head(p) = p[1]
  BY EmptySeq, LenProperties
<1>. QED  BY <1>1, <1>2, <1>3, ConcatProperties, AppendProperties, SeqEqual

-----------------------------------------------------------------------------
LEMMA RefInvInit == Init => RefInv
BY TypeInvInit, FinalInvInit DEF Init, RefInv

(* Every step keeps RefInv: a leaf push counts the leaf it appends, and    *)
(* every way back to idle or on to finalize has emptied the batch.        *)
LEMMA RefInvStep ==
    ASSUME ~EarlyFinalize
    PROVE  RefInv /\ [Next]_vars => RefInv'
<1> SUFFICES ASSUME RefInv, [Next]_vars PROVE RefInv'
  OBVIOUS
<1>1. (TypeInv /\ FinalInv)'
  BY TypeInvStep, FinalInvStep DEF RefInv
<1>2. appended \in Seq(LeafHashes) /\ pending \in Seq(LeafHashes)
  BY DEF RefInv, TypeInv, TypeOK
<1>3. ASSUME NEW k \in 1..MaxBatch, NEW batch \in [1..k -> LeafHashes],
             AppendLeafHashes(batch)
      PROVE  RefInv'
  BY <1>1, <1>3 DEF AppendLeafHashes, RefInv
<1>4. CASE PushLeaf
  <2>1. Len(appended') = Len(appended) + 1
    BY <1>2, <1>4, AppendProperties, HeadTailProperties DEF PushLeaf
  <2>. QED  BY <1>1, <1>4, <2>1 DEF PushLeaf, RefInv
<1>5. CASE AppendDone
  BY <1>1, <1>5 DEF AppendDone, RefInv
<1>6. CASE MergeStepIoError \/ FinalizeStepIoError
  BY <1>1, <1>6 DEF MergeStepIoError, FinalizeStepIoError, ReturnIoError, RefInv
<1>7. CASE FinalizeRootIoError \/ FinalizeRoot \/ LocatorAbort
  BY <1>1, <1>7 DEF FinalizeRootIoError, FinalizeRoot, LocatorAbort, RefInv
<1>8. CASE MergeStep \/ MergeDone \/ Finalize \/ FinalizeMergeSibling
           \/ FinalizeDuplicate \/ UNCHANGED vars
  BY <1>1, <1>8 DEF MergeStep, MergeDone, Finalize, FinalizeMergeSibling,
                    FinalizeDuplicate, vars, RefInv
<1>. QED  BY <1>3, <1>4, <1>5, <1>6, <1>7, <1>8 DEF Next
-----------------------------------------------------------------------------
(* Every step of the builder whose writes succeed is an abstract step or a *)
(* stutter of the abstract leaves and result, provided a root that        *)
(* finalize returns is the reference root of the leaves (RootCorrect in   *)
(* the next state).  A started call is Take of its batch, which the       *)
(* capacity check of append_leaf_hashes admits because append_count       *)
(* counts the appended leaves; FinalizeRoot is Finalize, which needs all   *)
(* leaf_count leaves in (FinalInv) and no earlier root.                    *)
LEMMA RefinementStep ==
    ASSUME ~EarlyFinalize, ~WriteMayFail
    PROVE  RefInv /\ RootCorrect' /\ [Next]_vars => [Abs!Next]_Abs!absvars
<1> SUFFICES ASSUME RefInv, RootCorrect', [Next]_vars
             PROVE  [Abs!Next]_Abs!absvars
  OBVIOUS
<1>0. /\ appended \in Seq(LeafHashes) /\ pending \in Seq(LeafHashes)
      /\ append_count = Len(appended)
      /\ Len(appended) \in Nat /\ LeafCount \in Nat
  BY LeafCountAssumption DEF RefInv, TypeInv, TypeOK
<1>1. ASSUME NEW k \in 1..MaxBatch, NEW batch \in [1..k -> LeafHashes],
             AppendLeafHashes(batch)
      PROVE  [Abs!Next]_Abs!absvars
  <2>1. Len(batch) = k /\ batch \in Seq(LeafHashes)
    BY MaxBatchAssumption, BatchIsSeq
  <2>2. CASE Len(batch) + append_count > LeafCount
    BY <1>1, <2>2 DEF AppendLeafHashes, Abs!absvars
  <2>3. CASE ~(Len(batch) + append_count > LeafCount)
    <3>1. pending = <<>> /\ pending' = batch /\ appended' = appended
          /\ root' = root
      BY <1>1, <2>3 DEF AppendLeafHashes, RefInv
    <3>2. appended \o pending = appended
      BY <1>0, <3>1, ConcatEmptySeq
    <3>3. Abs!Take(batch)
      BY <1>0, <2>1, <2>3, <3>1, <3>2 DEF Abs!Take
    <3>. QED  BY <3>3 DEF Abs!Next
  <2>. QED  BY <2>2, <2>3
<1>2. CASE PushLeaf
  <2>1. pending # <<>>
    BY <1>2 DEF PushLeaf
  <2>2. appended' \o pending' = appended \o pending
    BY <1>0, <1>2, <2>1, PushKeepsLeaves DEF PushLeaf
  <2>. QED  BY <1>2, <2>2 DEF PushLeaf, Abs!absvars
<1>3. CASE FinalizeRoot
  <2>1. CASE Top.depth = TotalDepth /\ Top.index = 0 /\ Top.hash # NoHash
    <3>1. /\ pc = "finalize" /\ stack' = <<>> /\ root' = Top.hash
          /\ UNCHANGED <<pending, appended>>
      BY <1>3, <2>1 DEF FinalizeRoot
    <3>2. pending = <<>> /\ append_count = LeafCount /\ root = NoHash
      BY <3>1 DEF RefInv, FinalInv
    <3>3. appended \o pending = appended
      BY <1>0, <3>2, ConcatEmptySeq
    <3>4. root' = RefRoot(appended)
      BY <2>1, <3>1 DEF RootCorrect, Finalized
    <3>5. Abs!Finalize
      BY <1>0, <3>1, <3>2, <3>3, <3>4 DEF Abs!Finalize
    <3>. QED  BY <3>5 DEF Abs!Next
  <2>2. CASE Top.depth = TotalDepth /\ Top.index = 0 /\ Top.hash = NoHash
    <3>1. root = NoHash
      BY <1>3 DEF FinalizeRoot, RefInv, FinalInv
    <3>. QED  BY <1>3, <2>2, <3>1 DEF FinalizeRoot, Abs!absvars
  <2>3. CASE ~(Top.depth = TotalDepth /\ Top.index = 0)
    BY <1>3, <2>3 DEF FinalizeRoot, Abs!absvars
  <2>. QED  BY <2>1, <2>2, <2>3
<1>4. CASE MergeStepIoError \/ FinalizeStepIoError \/ FinalizeRootIoError
  BY <1>4 DEF MergeStepIoError, FinalizeStepIoError, FinalizeRootIoError
<1>5. CASE AppendDone \/ MergeStep \/ MergeDone \/ Finalize
           \/ FinalizeMergeSibling \/ FinalizeDuplicate \/ LocatorAbort
           \/ UNCHANGED vars
  BY <1>5 DEF AppendDone, MergeStep, MergeDone, Finalize, FinalizeMergeSibling,
              FinalizeDuplicate, LocatorAbort, vars, Abs!absvars
<1>. QED  BY <1>1, <1>2, <1>3, <1>4, <1>5 DEF Next

(* For every leaf count, batch bound and leaf alphabet: a builder whose    *)
(* writes succeed and whose caller finalizes on a full count (the loader;  *)
(* not the generator, whose check ignores the leaves appended) implements  *)
(* the abstract builder of spec 4.3, every                                 *)
(* batch taken whole or refused and one root returned once all leaves are  *)
(* in, as long as the root it returns is the reference root (RootCorrect). *)
THEOREM RefinementFromRootCorrect ==
    ASSUME ~EarlyFinalize, ~WriteMayFail
    PROVE  Spec /\ []RootCorrect => Refines
<1>1. Init => RefInv /\ Abs!Init
  <2>1. Init => RefInv
    BY RefInvInit
  <2>2. Init => Abs!Init
    BY ConcatEmptySeq DEF Init, Abs!Init
  <2>. QED  BY <2>1, <2>2
<1>2. RefInv /\ [Next]_vars => RefInv'
  BY RefInvStep
<1>3. RefInv /\ RootCorrect' /\ [Next]_vars => [Abs!Next]_Abs!absvars
  BY RefinementStep
<1>. QED  BY <1>1, <1>2, <1>3, PTL DEF Spec, Refines, Abs!Spec
=============================================================================
