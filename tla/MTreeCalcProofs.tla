-------------------------- MODULE MTreeCalcProofs --------------------------
(***************************************************************************)
(* Proofs about the streaming builder MTreeCalc, for every leaf count,     *)
(* batch bound and leaf alphabet.                                          *)
(***************************************************************************)
EXTENDS MTreeCalc, SequenceTheorems, TLAPS

(* The type invariant is not inductive alone: a leaf push raises           *)
(* append_count, which stays within LeafCount only because the capacity    *)
(* check of append_leaf_hashes admitted the whole pending batch.           *)
TypeInv ==
    /\ TypeOK
    /\ append_count + Len(pending) <= LeafCount

(* A digest of the concatenation of two digests is a digest.               *)
LEMMA ParentHashType ==
    ASSUME NEW l \in Digest, NEW r \in Digest
    PROVE  CalcParentHash(l, r) \in Digest
BY DEF CalcParentHash, Digest, Open, Close

(* The parent of two hash nodes is a hash node.                            *)
LEMMA ParentType ==
    ASSUME NEW n1 \in HashNode, NEW n2 \in HashNode
    PROVE  Parent(n1, n2) \in HashNode
BY ParentHashType DEF Parent, HashNode

(* Writing a hash node keeps every written slot a digest.                  *)
LEMMA WriteNodeType ==
    ASSUME NEW s, \A x \in DOMAIN s : s[x] \in Digest,
           NEW node \in HashNode
    PROVE  LET w == WriteNode(s, node) IN \A x \in DOMAIN w : w[x] \in Digest
BY DEF WriteNode, HashNode

(* Popping one or two nodes and pushing a hash node leaves a stack of      *)
(* hash nodes.                                                             *)
LEMMA PushAfterPop ==
    ASSUME NEW st \in Seq(HashNode), NEW k \in 1..2, Len(st) >= k,
           NEW node \in HashNode
    PROVE  Append(SubSeq(st, 1, Len(st) - k), node) \in Seq(HashNode)
<1>1. \A i \in 1..(Len(st) - k) : st[i] \in HashNode
  BY ElementOfSeq
<1>2. SubSeq(st, 1, Len(st) - k) \in Seq(HashNode)
  BY <1>1, SubSeqProperties
<1>. QED BY <1>2, AppendProperties

(* What the pop-then-push of a merge leaves: the first Len - k nodes of    *)
(* the old stack, then the new node on top.                                *)
LEMMA PushAfterPopShape ==
    ASSUME NEW st \in Seq(HashNode), NEW k \in 1..2, Len(st) >= k,
           NEW node \in HashNode
    PROVE  /\ Len(Append(SubSeq(st, 1, Len(st) - k), node)) = Len(st) - k + 1
           /\ \A i \in 1..(Len(st) - k) :
                 Append(SubSeq(st, 1, Len(st) - k), node)[i] = st[i]
           /\ Append(SubSeq(st, 1, Len(st) - k), node)[Len(st) - k + 1] = node
<1>1. \A i \in 1..(Len(st) - k) : st[i] \in HashNode
  BY ElementOfSeq
<1>2. /\ SubSeq(st, 1, Len(st) - k) \in Seq(HashNode)
      /\ Len(SubSeq(st, 1, Len(st) - k)) = Len(st) - k
      /\ \A i \in 1..(Len(st) - k) : SubSeq(st, 1, Len(st) - k)[i] = st[i]
  BY <1>1, SubSeqProperties
<1>. QED BY <1>2, AppendProperties

(* The case k = 2: the two top nodes are replaced by their parent.        *)
LEMMA PushAfterPop2Shape ==
    ASSUME NEW st \in Seq(HashNode), Len(st) >= 2, NEW node \in HashNode
    PROVE  /\ Len(Append(SubSeq(st, 1, Len(st) - 2), node)) = Len(st) - 1
           /\ \A i \in 1..(Len(st) - 2) :
                 Append(SubSeq(st, 1, Len(st) - 2), node)[i] = st[i]
           /\ Append(SubSeq(st, 1, Len(st) - 2), node)[Len(st) - 1] = node
<1>1. 2 \in 1..2 /\ Len(st) >= 2
  OBVIOUS
<1>2. ASSUME NEW kk \in 1..2, Len(st) >= kk
      PROVE  /\ Len(Append(SubSeq(st, 1, Len(st) - kk), node)) = Len(st) - kk + 1
             /\ \A i \in 1..(Len(st) - kk) :
                   Append(SubSeq(st, 1, Len(st) - kk), node)[i] = st[i]
             /\ Append(SubSeq(st, 1, Len(st) - kk), node)[Len(st) - kk + 1] = node
  BY <1>2, PushAfterPopShape
<1>4. /\ Len(Append(SubSeq(st, 1, Len(st) - 2), node)) = Len(st) - 2 + 1
      /\ \A i \in 1..(Len(st) - 2) :
            Append(SubSeq(st, 1, Len(st) - 2), node)[i] = st[i]
      /\ Append(SubSeq(st, 1, Len(st) - 2), node)[Len(st) - 2 + 1] = node
  BY <1>1, <1>2, Zenon
<1>3. Len(st) - 2 + 1 = Len(st) - 1
  BY LenProperties
<1>. QED BY <1>4, <1>3

(* Replacing the two equal-depth top nodes of a decreasing run by their   *)
(* parent, one depth higher, leaves a non-increasing run.                  *)
LEMMA MergeKeepsDecreasing ==
    ASSUME NEW st \in Seq(HashNode), Len(st) >= 2,
           \A i \in 1..(Len(st) - 2) : st[i].depth > st[i + 1].depth,
           st[Len(st)].depth = st[Len(st) - 1].depth,
           NEW p \in HashNode, p.depth = st[Len(st)].depth + 1,
           NEW st2, Len(st2) = Len(st) - 1,
           \A i \in 1..(Len(st) - 2) : st2[i] = st[i],
           st2[Len(st2)] = p
    PROVE  /\ \A i \in 1..(Len(st2) - 2) : st2[i].depth > st2[i + 1].depth
           /\ Len(st2) > 1 => st2[Len(st2) - 1].depth >= st2[Len(st2)].depth
<1>1. \A i \in 1..Len(st) : st[i] \in HashNode
  BY ElementOfSeq
<1>2. \A i \in 1..Len(st) : st[i].depth \in Nat
  BY <1>1 DEF HashNode
<1>3. p.depth \in Nat
  BY DEF HashNode
<1>4. \A i \in 1..(Len(st2) - 2) : st2[i].depth > st2[i + 1].depth
  BY LenProperties
<1>5. ASSUME Len(st2) > 1 PROVE st2[Len(st2) - 1].depth >= st2[Len(st2)].depth
  <2>1. st2[Len(st2) - 1] = st[Len(st) - 2] /\ Len(st) - 2 \in 1..Len(st)
    BY <1>5, LenProperties
  <2>2. st[Len(st) - 2].depth > st[Len(st) - 1].depth
    BY <1>5, LenProperties
  <2>. QED BY <1>2, <1>3, <2>1, <2>2, LenProperties
<1>. QED BY <1>4, <1>5

(* A leaf digest is a one-symbol word.                                     *)
LEMMA LeafHashesAreDigests == LeafHashes \subseteq Digest
<1> SUFFICES ASSUME NEW s \in LeafSymbols
             PROVE  <<s>> \in Seq(LeafSymbols \cup {Open, Close})
  BY DEF LeafHashes, Digest
<1>1. <<s>> \in [1..1 -> LeafSymbols \cup {Open, Close}]
  OBVIOUS
<1>. QED BY <1>1, SeqDef

(* A batch of k leaf hashes is a sequence of length k.                     *)
LEMMA BatchIsSeq ==
    ASSUME NEW k \in Nat, NEW batch \in [1..k -> LeafHashes]
    PROVE  batch \in Seq(LeafHashes) /\ Len(batch) = k
<1>1. batch \in Seq(LeafHashes)
  BY SeqDef
<1>2. DOMAIN batch = 1..Len(batch) /\ Len(batch) \in Nat
  BY <1>1, LenProperties
<1>. QED BY <1>1, <1>2

(* The initial state satisfies the strengthened type invariant.           *)
LEMMA TypeInvInit == Init => TypeInv
BY LeafCountAssumption, EmptySeq DEF Init, TypeInv, TypeOK, NoHash, Digest, Results

(* Every step of the builder keeps the strengthened type invariant.        *)
LEMMA TypeInvStep == TypeInv /\ [Next]_vars => TypeInv'
<1> SUFFICES ASSUME TypeInv, [Next]_vars PROVE TypeInv'
  OBVIOUS
<1>. USE DEF TypeInv, TypeOK
<1>1. ASSUME NEW k \in 1..MaxBatch, NEW batch \in [1..k -> LeafHashes],
             AppendLeafHashes(batch)
      PROVE  TypeInv'
  <2>1. batch \in Seq(LeafHashes) /\ Len(batch) = k
    BY MaxBatchAssumption, BatchIsSeq
  <2>. QED BY <1>1, <2>1, LeafCountAssumption DEF AppendLeafHashes, Results
<1>2. CASE PushLeaf
  <2>1. Head(pending) \in LeafHashes /\ Len(pending) >= 1
    BY <1>2, HeadTailProperties DEF PushLeaf
  <2>2. [hash |-> Head(pending), depth |-> 0, index |-> append_count] \in HashNode
    BY <2>1, LeafHashesAreDigests DEF HashNode
  <2>3. Tail(pending) \in Seq(LeafHashes) /\ Len(Tail(pending)) = Len(pending) - 1
    BY <1>2, HeadTailProperties DEF PushLeaf
  <2>4. stack' \in Seq(HashNode) /\ appended' \in Seq(LeafHashes)
    BY <1>2, <2>1, <2>2, AppendProperties DEF PushLeaf
  <2>5. append_count' \in 0..LeafCount
        /\ append_count' + Len(pending') <= LeafCount
    BY <1>2, <2>1, <2>3, LenProperties, LeafCountAssumption DEF PushLeaf
  <2>. QED BY <1>2, <2>3, <2>4, <2>5 DEF PushLeaf
<1>3. CASE AppendDone
  BY <1>3 DEF AppendDone, Results
<1>4. CASE MergeStep
  <2>1. Top \in HashNode /\ Second \in HashNode
    BY <1>4 DEF MergeStep, Top, Second
  <2>2. Parent(Top, Second) \in HashNode
    BY <2>1, ParentType
  <2>3. stack' \in Seq(HashNode)
    BY <1>4, <2>2, PushAfterPop DEF MergeStep, Pop2
  <2>4. \A x \in DOMAIN sink' : sink'[x] \in Digest
    BY <1>4, <2>1, WriteNodeType DEF MergeStep
  <2>. QED BY <1>4, <2>3, <2>4 DEF MergeStep
<1>5. CASE MergeDone
  BY <1>5 DEF MergeDone
<1>6. CASE Finalize
  BY <1>6 DEF Finalize, Results
<1>7. CASE FinalizeMergeSibling
  <2>1. Top \in HashNode /\ Second \in HashNode
    BY <1>7 DEF FinalizeMergeSibling, Top, Second
  <2>2. Parent(Top, Second) \in HashNode
    BY <2>1, ParentType
  <2>3. stack' \in Seq(HashNode)
    BY <1>7, <2>2, PushAfterPop DEF FinalizeMergeSibling, Pop2
  <2>4. \A x \in DOMAIN sink' : sink'[x] \in Digest
    BY <1>7, <2>1, WriteNodeType DEF FinalizeMergeSibling
  <2>. QED BY <1>7, <2>3, <2>4 DEF FinalizeMergeSibling
<1>8. CASE FinalizeDuplicate
  <2>. DEFINE node2 == [hash |-> Top.hash, depth |-> Top.depth, index |-> Top.index + 1]
  <2>1. Top \in HashNode
    BY <1>8 DEF FinalizeDuplicate, Top
  <2>2. node2 \in HashNode
    BY <2>1 DEF HashNode
  <2>3. Parent(Top, node2) \in HashNode
    BY <2>1, <2>2, ParentType
  <2>4. stack' \in Seq(HashNode)
    BY <1>8, <2>3, PushAfterPop DEF FinalizeDuplicate, Pop1
  <2>5. \A x \in DOMAIN sink' : sink'[x] \in Digest
    BY <1>8, <2>1, <2>2, WriteNodeType DEF FinalizeDuplicate
  <2>. QED BY <1>8, <2>4, <2>5 DEF FinalizeDuplicate
<1>9. CASE FinalizeRoot
  <2>0. Len(stack) = 1
    BY <1>9 DEF FinalizeRoot
  <2>1. Top \in HashNode
    <3>1. stack \in Seq(HashNode)
      OBVIOUS
    <3>. QED BY <2>0, <3>1 DEF Top
  <2>2. \A x \in DOMAIN WriteNode(sink, Top) : WriteNode(sink, Top)[x] \in Digest
    BY <2>1, WriteNodeType
  <2>3. Top.hash \in Digest
    BY <2>1 DEF HashNode
  <2>4. <<>> \in Seq(HashNode)
    BY EmptySeq
  <2>. QED BY <1>9, <2>2, <2>3, <2>4 DEF FinalizeRoot, Results
<1>10. CASE UNCHANGED vars
  BY <1>10 DEF vars
<1>11. CASE MergeStepIoError
  <2>1. Top \in HashNode /\ Second \in HashNode
    BY <1>11 DEF MergeStepIoError, Top, Second
  <2>2. Parent(Top, Second) \in HashNode
    BY <2>1, ParentType
  <2>3. stack' \in Seq(HashNode)
    BY <1>11, <2>2, PushAfterPop DEF MergeStepIoError, Pop2
  <2>4. \A x \in DOMAIN sink' : sink'[x] \in Digest
    BY <1>11, <2>1, WriteNodeType DEF MergeStepIoError, PartialWrites
  <2>5. pending' = <<>> /\ pc' = "idle" /\ ret' = "IoError"
    BY <1>11 DEF MergeStepIoError, ReturnIoError
  <2>. QED BY <1>11, <2>3, <2>4, <2>5, EmptySeq DEF MergeStepIoError, Results
<1>12. CASE FinalizeStepIoError
  <2>. DEFINE node2 == IF Second.depth = Top.depth THEN Second
                       ELSE [hash |-> Top.hash, depth |-> Top.depth, index |-> Top.index + 1]
  <2>1. Top \in HashNode /\ Second \in HashNode
    BY <1>12 DEF FinalizeStepIoError, Top, Second
  <2>2. Parent(Top, node2) \in HashNode
    <3>1. node2 \in HashNode
      BY <2>1 DEF HashNode
    <3>. QED BY <2>1, <3>1, ParentType
  <2>3. stack' \in Seq(HashNode)
    <3>1. CASE Second.depth = Top.depth
      BY <1>12, <2>2, <3>1, PushAfterPop DEF FinalizeStepIoError, Pop2
    <3>2. CASE Second.depth # Top.depth
      BY <1>12, <2>2, <3>2, PushAfterPop DEF FinalizeStepIoError, Pop1
    <3>. QED BY <3>1, <3>2
  <2>4. \A x \in DOMAIN sink' : sink'[x] \in Digest
    BY <1>12, <2>1, WriteNodeType DEF FinalizeStepIoError, PartialWrites
  <2>5. pending' = <<>> /\ pc' = "idle" /\ ret' = "IoError"
    BY <1>12 DEF FinalizeStepIoError, ReturnIoError
  <2>. QED BY <1>12, <2>3, <2>4, <2>5, EmptySeq DEF FinalizeStepIoError, Results
<1>13. CASE FinalizeRootIoError
  BY <1>13, EmptySeq DEF FinalizeRootIoError, Results
<1>14. CASE LocatorAbort
  BY <1>14 DEF LocatorAbort
<1>. QED BY <1>1, <1>2, <1>3, <1>4, <1>5, <1>6, <1>7, <1>8, <1>9, <1>10,
            <1>11, <1>12, <1>13, <1>14 DEF Next

(* Type correctness of the builder.                                        *)
THEOREM TypeCorrect == Spec => []TypeOK
<1>1. TypeInv => TypeOK
  BY DEF TypeInv
<1>. QED BY TypeInvInit, TypeInvStep, <1>1, PTL DEF Spec

-----------------------------------------------------------------------------
(* The stack shape is inductive together with the type invariant.          *)
IInv == TypeInv /\ StackDecreasing

(* The stack of the builder is a strictly decreasing run of depths, but    *)
(* for its top two nodes inside a merge loop.                              *)
THEOREM StackShape ==
    ASSUME ~(HasWriter /\ WriteMayFail)
    PROVE  Spec => []StackDecreasing
<1>1. Init => IInv
  <2>1. Init => StackDecreasing
    BY EmptySeq DEF Init, StackDecreasing
  <2>. QED BY <2>1, TypeInvInit DEF IInv
<1>2. IInv /\ [Next]_vars => IInv'
  <2> SUFFICES ASSUME IInv, [Next]_vars PROVE StackDecreasing'
    BY TypeInvStep DEF IInv
  <2>a. stack \in Seq(HashNode) /\ StackDecreasing
    BY DEF IInv, TypeInv, TypeOK
  <2>0. \A i \in 1..Len(stack) : stack[i] \in HashNode /\ stack[i].depth \in Nat
    <3>1. \A i \in 1..Len(stack) : stack[i] \in HashNode
      BY <2>a, ElementOfSeq
    <3>. QED BY <3>1 DEF HashNode
  <2>1. ASSUME NEW k \in 1..MaxBatch, NEW batch \in [1..k -> LeafHashes],
               AppendLeafHashes(batch)
        PROVE  StackDecreasing'
    BY <2>a, <2>1 DEF AppendLeafHashes, StackDecreasing, Top, Second
  <2>2. CASE PushLeaf
    <3>. DEFINE leaf == [hash |-> Head(pending), depth |-> 0, index |-> append_count]
    <3>1. leaf \in HashNode
      BY <2>2, HeadTailProperties, LeafHashesAreDigests DEF PushLeaf, HashNode, IInv, TypeInv, TypeOK
    <3>2. /\ Len(stack') = Len(stack) + 1
          /\ \A i \in 1..Len(stack) : stack'[i] = stack[i]
          /\ stack'[Len(stack) + 1] = leaf
      BY <2>a, <2>2, <3>1, AppendProperties DEF PushLeaf
    <3>3. pc = "append" /\ pc' = "merge"
      BY <2>2 DEF PushLeaf
    <3>4. \A i \in 1..(Len(stack) - 1) : stack[i].depth > stack[i + 1].depth
      <4>1. \A i \in 1..(Len(stack) - 2) : stack[i].depth > stack[i + 1].depth
        BY <2>a DEF StackDecreasing
      <4>2. Len(stack) > 1 => stack[Len(stack) - 1].depth > stack[Len(stack)].depth
        BY <2>a, <3>3 DEF StackDecreasing, Top, Second
      <4>. QED
        <5>. SUFFICES ASSUME NEW i \in 1..(Len(stack) - 1)
                      PROVE  stack[i].depth > stack[i + 1].depth
          OBVIOUS
        <5>1. CASE i <= Len(stack) - 2
          BY <4>1, <5>1
        <5>2. CASE i = Len(stack) - 1
          <6>1. Len(stack) > 1 /\ i + 1 = Len(stack)
            BY <5>2, <2>a, LenProperties
          <6>. QED BY <4>2, <6>1, <5>2
        <5>. QED BY <5>1, <5>2, <2>a, LenProperties
    <3>5. \A i \in 1..(Len(stack') - 2) : stack'[i].depth > stack'[i + 1].depth
      BY <3>2, <3>4
    <3>6. Len(stack') > 1 => stack'[Len(stack') - 1].depth >= stack'[Len(stack')].depth
      BY <2>0, <3>2
    <3>. QED BY <3>3, <3>5, <3>6 DEF StackDecreasing, Top, Second
  <2>3. CASE AppendDone
    BY <2>a, <2>3 DEF AppendDone, StackDecreasing, Top, Second
  <2>4. CASE MergeStep
    <3>1. Top \in HashNode /\ Second \in HashNode /\ Len(stack) >= 2
      BY <2>0, <2>4 DEF MergeStep, Top, Second
    <3>2. Parent(Top, Second) \in HashNode /\ Parent(Top, Second).depth = Top.depth + 1
      BY <3>1, ParentType DEF Parent
    <3>3. /\ Len(stack') = Len(stack) - 1
          /\ \A i \in 1..(Len(stack) - 2) : stack'[i] = stack[i]
          /\ stack'[Len(stack')] = Parent(Top, Second)
      <4>1. stack' = Append(SubSeq(stack, 1, Len(stack) - 2), Parent(Top, Second))
        BY <2>4 DEF MergeStep, Pop2
      <4>2. /\ Len(Append(SubSeq(stack, 1, Len(stack) - 2), Parent(Top, Second))) = Len(stack) - 1
            /\ \A i \in 1..(Len(stack) - 2) :
                  Append(SubSeq(stack, 1, Len(stack) - 2), Parent(Top, Second))[i] = stack[i]
            /\ Append(SubSeq(stack, 1, Len(stack) - 2), Parent(Top, Second))[Len(stack) - 1]
                  = Parent(Top, Second)
        BY <2>a, <3>1, <3>2, PushAfterPop2Shape
      <4>. QED BY <4>1, <4>2
    <3>4. pc = "merge" /\ pc' = "merge" /\ Top.depth = Second.depth
      BY <2>4 DEF MergeStep
    <3>5. /\ \A i \in 1..(Len(stack') - 2) : stack'[i].depth > stack'[i + 1].depth
          /\ Len(stack') > 1 => stack'[Len(stack') - 1].depth >= stack'[Len(stack')].depth
      <4>1. /\ \A i \in 1..(Len(stack) - 2) : stack[i].depth > stack[i + 1].depth
            /\ stack[Len(stack)].depth = stack[Len(stack) - 1].depth
        BY <2>a, <3>4 DEF StackDecreasing, Top, Second
      <4>. QED BY <2>a, <3>1, <3>2, <3>3, <4>1, MergeKeepsDecreasing DEF Top, Second
    <3>. QED BY <3>4, <3>5 DEF StackDecreasing, Top, Second
  <2>5. CASE MergeDone
    <3>1. stack' = stack /\ pc = "merge" /\ pc' = "append"
      BY <2>5 DEF MergeDone
    <3>2. Len(stack) > 1 => Top.depth # Second.depth
      BY <2>5 DEF MergeDone
    <3>3. Len(stack) > 1 => Top.depth \in Nat /\ Second.depth \in Nat
      BY <2>0 DEF Top, Second
    <3>. QED BY <2>a, <3>1, <3>2, <3>3 DEF StackDecreasing, Top, Second
  <2>6. CASE Finalize
    BY <2>a, <2>6 DEF Finalize, StackDecreasing, Top, Second
  <2>7. CASE FinalizeMergeSibling
    <3>1. Top \in HashNode /\ Second \in HashNode /\ Len(stack) >= 2
      BY <2>0, <2>7 DEF FinalizeMergeSibling, Top, Second
    <3>2. Parent(Top, Second) \in HashNode /\ Parent(Top, Second).depth = Top.depth + 1
      BY <3>1, ParentType DEF Parent
    <3>3. /\ Len(stack') = Len(stack) - 1
          /\ \A i \in 1..(Len(stack) - 2) : stack'[i] = stack[i]
          /\ stack'[Len(stack')] = Parent(Top, Second)
      <4>1. stack' = Append(SubSeq(stack, 1, Len(stack) - 2), Parent(Top, Second))
        BY <2>7 DEF FinalizeMergeSibling, Pop2
      <4>2. /\ Len(Append(SubSeq(stack, 1, Len(stack) - 2), Parent(Top, Second))) = Len(stack) - 1
            /\ \A i \in 1..(Len(stack) - 2) :
                  Append(SubSeq(stack, 1, Len(stack) - 2), Parent(Top, Second))[i] = stack[i]
            /\ Append(SubSeq(stack, 1, Len(stack) - 2), Parent(Top, Second))[Len(stack) - 1]
                  = Parent(Top, Second)
        BY <2>a, <3>1, <3>2, PushAfterPop2Shape
      <4>. QED BY <4>1, <4>2
    <3>4. pc = "finalize" /\ pc' = "finalize" /\ Top.depth = Second.depth
      BY <2>7 DEF FinalizeMergeSibling
    <3>5. /\ \A i \in 1..(Len(stack') - 2) : stack'[i].depth > stack'[i + 1].depth
          /\ Len(stack') > 1 => stack'[Len(stack') - 1].depth >= stack'[Len(stack')].depth
      <4>1. /\ \A i \in 1..(Len(stack) - 2) : stack[i].depth > stack[i + 1].depth
            /\ stack[Len(stack)].depth = stack[Len(stack) - 1].depth
        BY <2>a, <3>4 DEF StackDecreasing, Top, Second
      <4>. QED BY <2>a, <3>1, <3>2, <3>3, <4>1, MergeKeepsDecreasing DEF Top, Second
    <3>. QED BY <3>4, <3>5 DEF StackDecreasing, Top, Second
  <2>8. CASE FinalizeDuplicate
    <3>. DEFINE node2 == [hash |-> Top.hash, depth |-> Top.depth, index |-> Top.index + 1]
    <3>1. Top \in HashNode /\ Second \in HashNode /\ Len(stack) >= 2
      BY <2>0, <2>8 DEF FinalizeDuplicate, Top, Second
    <3>2. Parent(Top, node2) \in HashNode /\ Parent(Top, node2).depth = Top.depth + 1
      BY <3>1, ParentType DEF Parent, HashNode
    <3>3. /\ Len(stack') = Len(stack)
          /\ \A i \in 1..(Len(stack) - 1) : stack'[i] = stack[i]
          /\ stack'[Len(stack')] = Parent(Top, node2)
      <4>1. stack' = Append(SubSeq(stack, 1, Len(stack) - 1), Parent(Top, node2))
        BY <2>8 DEF FinalizeDuplicate, Pop1
      <4>2. /\ Len(Append(SubSeq(stack, 1, Len(stack) - 1), Parent(Top, node2))) = Len(stack)
            /\ \A i \in 1..(Len(stack) - 1) :
                  Append(SubSeq(stack, 1, Len(stack) - 1), Parent(Top, node2))[i] = stack[i]
            /\ Append(SubSeq(stack, 1, Len(stack) - 1), Parent(Top, node2))[Len(stack)]
                  = Parent(Top, node2)
        BY <2>a, <3>1, <3>2, PushAfterPopShape
      <4>. QED BY <4>1, <4>2
    <3>4. pc = "finalize" /\ pc' = "finalize" /\ Top.depth # Second.depth
      BY <2>8 DEF FinalizeDuplicate
    <3>. QED BY <2>a, <2>0, <3>1, <3>2, <3>3, <3>4 DEF StackDecreasing, Top, Second
  <2>9. CASE FinalizeRoot
    <3>1. stack' = <<>> \/ (stack' = stack /\ pc' = "panicked")
      BY <2>9 DEF FinalizeRoot
    <3>. QED BY <2>a, <3>1, EmptySeq DEF StackDecreasing, Top, Second
  <2>11. CASE MergeStepIoError
    BY <2>11 DEF MergeStepIoError
  <2>12. CASE FinalizeStepIoError
    BY <2>12 DEF FinalizeStepIoError
  <2>13. CASE FinalizeRootIoError
    BY <2>13 DEF FinalizeRootIoError
  <2>14. CASE LocatorAbort
    <3>1. stack' = stack /\ pc' = "panicked"
      BY <2>14 DEF LocatorAbort
    <3>. QED BY <2>a, <3>1 DEF StackDecreasing, Top, Second
  <2>10. CASE UNCHANGED vars
    BY <2>a, <2>10 DEF vars, StackDecreasing, Top, Second
  <2>. QED BY <2>1, <2>2, <2>3, <2>4, <2>5, <2>6, <2>7, <2>8, <2>9, <2>10,
              <2>11, <2>12, <2>13, <2>14 DEF Next
<1>. QED BY <1>1, <1>2, PTL DEF Spec, IInv
-----------------------------------------------------------------------------
(* What a finished tree keeps: finalize runs only on a full count (the     *)
(* caller's discipline), and once it has returned a root the calculator is *)
(* idle with an empty stack and a full count.                              *)
FinalInv ==
    /\ pc = "finalize" => append_count = LeafCount
    /\ root # NoHash => pc = "idle" /\ stack = <<>> /\ append_count = LeafCount

LEMMA FinalInvInit == Init => FinalInv
BY DEF Init, FinalInv

(* Every step keeps FinalInv when finalize is called on a full count: a    *)
(* finished calculator refuses every batch (no room is left) and every     *)
(* finalize (its stack is empty), and the steps of a running call happen   *)
(* before a root exists.                                                   *)
LEMMA FinalInvStep ==
    ASSUME ~EarlyFinalize
    PROVE  TypeInv /\ FinalInv /\ [Next]_vars => FinalInv'
<1> SUFFICES ASSUME TypeInv, FinalInv, [Next]_vars PROVE FinalInv'
  OBVIOUS
<1>0. append_count \in Nat /\ LeafCount \in Nat
  BY LeafCountAssumption DEF TypeInv, TypeOK
<1>1. ASSUME NEW k \in 1..MaxBatch, NEW batch \in [1..k -> LeafHashes],
             AppendLeafHashes(batch)
      PROVE  FinalInv'
  <2>1. Len(batch) = k
    BY MaxBatchAssumption, BatchIsSeq
  <2>2. CASE Len(batch) + append_count > LeafCount
    BY <1>1, <2>2 DEF AppendLeafHashes, FinalInv
  <2>3. CASE ~(Len(batch) + append_count > LeafCount)
    <3>1. root = NoHash
      BY <1>0, <2>1, <2>3 DEF FinalInv
    <3>. QED  BY <1>1, <2>3, <3>1 DEF AppendLeafHashes, FinalInv
  <2>. QED  BY <2>2, <2>3
<1>2. CASE PushLeaf
  BY <1>2 DEF PushLeaf, FinalInv
<1>3. CASE AppendDone
  BY <1>3 DEF AppendDone, FinalInv
<1>4. CASE MergeStep
  BY <1>4 DEF MergeStep, FinalInv
<1>5. CASE MergeDone
  BY <1>5 DEF MergeDone, FinalInv
<1>6. CASE Finalize
  <2>1. append_count = LeafCount
    BY <1>6 DEF Finalize
  <2>2. CASE Len(stack) = 0
    BY <1>6, <2>2 DEF Finalize, FinalInv
  <2>3. CASE Len(stack) # 0
    <3>1. root = NoHash
      BY <2>3, EmptySeq DEF FinalInv
    <3>. QED  BY <1>6, <2>1, <2>3, <3>1 DEF Finalize, FinalInv
  <2>. QED  BY <2>2, <2>3
<1>7. CASE FinalizeMergeSibling
  BY <1>7 DEF FinalizeMergeSibling, FinalInv
<1>8. CASE FinalizeDuplicate
  BY <1>8 DEF FinalizeDuplicate, FinalInv
<1>9. CASE FinalizeRoot
  BY <1>9 DEF FinalizeRoot, FinalInv
<1>10. CASE MergeStepIoError
  BY <1>10 DEF MergeStepIoError, ReturnIoError, FinalInv
<1>11. CASE FinalizeStepIoError
  BY <1>11 DEF FinalizeStepIoError, ReturnIoError, FinalInv
<1>12. CASE FinalizeRootIoError
  BY <1>12 DEF FinalizeRootIoError, FinalInv
<1>13. CASE LocatorAbort
  BY <1>13 DEF LocatorAbort, FinalInv
<1>14. CASE UNCHANGED vars
  BY <1>14 DEF vars, FinalInv
<1>. QED BY <1>1, <1>2, <1>3, <1>4, <1>5, <1>6, <1>7, <1>8, <1>9, <1>10,
            <1>11, <1>12, <1>13, <1>14 DEF Next

(* In a finished calculator no step changes the root, the stack or the     *)
(* appended leaves: every batch is refused, every finalize returns         *)
(* InvalidState, and no call is running.                                   *)
LEMMA FinishedStep ==
    ASSUME ~EarlyFinalize
    PROVE  TypeInv /\ FinalInv /\ [Next]_vars
           => (root # NoHash => UNCHANGED <<root, stack, appended>>)
<1> SUFFICES ASSUME TypeInv, FinalInv, [Next]_vars, root # NoHash
             PROVE  UNCHANGED <<root, stack, appended>>
  OBVIOUS
<1>0. pc = "idle" /\ stack = <<>> /\ append_count = LeafCount
      /\ append_count \in Nat /\ LeafCount \in Nat
  BY LeafCountAssumption DEF FinalInv, TypeInv, TypeOK
<1>1. ASSUME NEW k \in 1..MaxBatch, NEW batch \in [1..k -> LeafHashes],
             AppendLeafHashes(batch)
      PROVE  UNCHANGED <<root, stack, appended>>
  <2>1. Len(batch) = k
    BY MaxBatchAssumption, BatchIsSeq
  <2>. QED  BY <1>0, <1>1, <2>1 DEF AppendLeafHashes
<1>2. CASE Finalize
  BY <1>0, <1>2, EmptySeq DEF Finalize
<1>3. CASE UNCHANGED vars
  BY <1>3 DEF vars
<1>. QED  BY <1>0, <1>1, <1>2, <1>3
          DEF Next, PushLeaf, AppendDone, MergeStep, MergeDone,
              FinalizeMergeSibling, FinalizeDuplicate, FinalizeRoot,
              MergeStepIoError, FinalizeStepIoError, FinalizeRootIoError,
              LocatorAbort

(* For every leaf count, batch size and writer: a calculator finalized on  *)
(* a full count, as load_from_reader does,                                 *)
(* returns its root once and never takes a leaf or changes its root after. *)
THEOREM RootFinality ==
    ASSUME ~EarlyFinalize
    PROVE  Spec => RootFinal
<1>1. Init => TypeInv /\ FinalInv
  BY TypeInvInit, FinalInvInit
<1>2. TypeInv /\ FinalInv /\ [Next]_vars => (TypeInv /\ FinalInv)'
  BY TypeInvStep, FinalInvStep
<1>3. TypeInv /\ FinalInv /\ [Next]_vars
      => [root # NoHash => UNCHANGED <<root, stack, appended>>]_vars
  BY FinishedStep
<1>. QED  BY <1>1, <1>2, <1>3, PTL DEF Spec, RootFinal
=============================================================================
