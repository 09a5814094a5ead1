------------------------- MODULE MTreeObjectProofs -------------------------
(***************************************************************************)
(* Proofs about the reader of mtree.rs (load_from_reader): its type and    *)
(* the outcome of a load, for every header (DataSize, LeafSize), digest    *)
(* and metadata size, and every stream.                                    *)
(*                                                                         *)
(* LoadOutcome is not inductive: it speaks of the end of a load only.  The *)
(* invariant LoadInv says, phase by phase of rpc, what the stream length   *)
(* and the embedded calculator are known to be: while leaves are read,     *)
(* the stream holds the header and every leaf read so far, and the        *)
(* calculator has counted or still holds each of them; once finalize runs, *)
(* the stream holds all leaf_count leaves and an idle calculator has       *)
(* returned Ok.                                                            *)
(***************************************************************************)
EXTENDS MTreeObject, SequenceTheorems, TLAPS

(* The bytes a complete stream has before the first node past the leaves.  *)
LeavesEnd == HeaderBytes + MetaLeafCount * HashBytes

(* s is a finite sequence (of whatever values it holds).                   *)
SeqElems(s) == {s[i] : i \in DOMAIN s}
IsSeq(s) == s \in Seq(SeqElems(s))

LoadInv ==
    /\ TypeOK
    /\ load_ret \in {"none", "ok", "IoError"}
    /\ ccount \in Nat
    /\ IsSeq(cstack) /\ IsSeq(cpending)
    /\ cpc \in {"idle", "append", "merge", "finalize", "panicked"}
    /\ rpc = "start" =>
           /\ cpc = "idle" /\ ccount = 0 /\ cpending = <<>> /\ leaf_read = 0
           /\ load_ret = "none"
    /\ rpc = "leaves" =>
           /\ cpc \in {"idle", "append", "merge"}
           /\ ccount + Len(cpending) = leaf_read
           /\ cpc = "idle" => cpending = <<>>
           /\ ccount >= 1 => Len(cstack) >= 1
           /\ file_len >= HeaderBytes + leaf_read * HashBytes
           /\ load_ret = "none"
    /\ rpc = "finalize" =>
           /\ cpc \in {"finalize", "idle", "panicked"}
           /\ cpc = "finalize" => Len(cstack) >= 1
           /\ cpc = "idle" => cret = "ok"
           /\ file_len >= LeavesEnd
           /\ load_ret = "none"
    /\ rpc = "loaded" => load_ret = "ok" /\ file_len >= LeavesEnd
    /\ rpc = "failed" => load_ret = "IoError" /\ file_len < LeavesEnd
    /\ rpc = "panicked" => load_ret = "none"
-----------------------------------------------------------------------------
(* The lemmas on sequences the stack and the pending batch need: pushing,  *)
(* popping and taking the tail keep a finite sequence one and move its     *)
(* length by one.                                                          *)
LEMMA SeqIsSeq ==
    ASSUME NEW S, NEW s \in Seq(S)
    PROVE  IsSeq(s)
<1>1. s \in [1..Len(s) -> SeqElems(s)] /\ Len(s) \in Nat
  BY LenProperties DEF SeqElems
<1>. QED  BY <1>1, IsASeq DEF IsSeq

LEMMA EmptyIsSeq == IsSeq(<<>>)
BY EmptySeq DEF IsSeq

LEMMA AppendIsSeq ==
    ASSUME NEW s, IsSeq(s), NEW x
    PROVE  IsSeq(Append(s, x)) /\ Len(Append(s, x)) = Len(s) + 1
<1>1. Append(s, x) \in Seq(SeqElems(s) \cup {x})
      /\ Len(Append(s, x)) = Len(s) + 1
  BY AppendProperties, SeqMonotonic DEF IsSeq
<1>. QED  BY <1>1, SeqIsSeq

LEMMA PrefixIsSeq ==
    ASSUME NEW s, IsSeq(s), NEW k \in 0..Len(s)
    PROVE  IsSeq(SubSeq(s, 1, k)) /\ Len(SubSeq(s, 1, k)) = k
<1>1. \A i \in 1..k : s[i] \in SeqElems(s)
  BY LenProperties DEF IsSeq, SeqElems
<1>2. SubSeq(s, 1, k) \in Seq(SeqElems(s)) /\ Len(SubSeq(s, 1, k)) = k
  BY <1>1, SubSeqProperties
<1>. QED  BY <1>2, SeqIsSeq

LEMMA TailIsSeq ==
    ASSUME NEW s, IsSeq(s), s # <<>>
    PROVE  IsSeq(Tail(s)) /\ Len(Tail(s)) = Len(s) - 1
BY HeadTailProperties, SeqIsSeq DEF IsSeq

LEMMA MetaLeafCountType == MetaLeafCount \in Nat
BY MetaAssumption DEF MetaLeafCount

-----------------------------------------------------------------------------
(* A load starts with nothing read and an idle, empty calculator.          *)
LEMMA InitLoadInv == Init => LoadInv
<1>. SUFFICES ASSUME Init PROVE LoadInv
  OBVIOUS
<1>1. MetaLeafCount \in Nat
  BY MetaLeafCountType
<1>2. IsSeq(<<>>)
  BY EmptyIsSeq
<1>. QED  BY <1>1, <1>2 DEF Init, Calc!Init, LoadInv, TypeOK

(* Reading the header: a stream shorter than it fails the load with        *)
(* IoError, and is then shorter than the leaves' end.                      *)
LEMMA LoadMetaInv == LoadInv /\ LoadMeta => LoadInv'
<1>. SUFFICES ASSUME LoadInv, LoadMeta PROVE LoadInv'
  OBVIOUS
<1>1. MetaLeafCount \in Nat /\ HashBytes \in Nat /\ MetaBytes \in Nat
  BY MetaLeafCountType, ReaderConstantsAssumption
<1>2. HeaderBytes <= LeavesEnd
  BY <1>1 DEF LeavesEnd, HeaderBytes
<1>3. CASE file_len < HeaderBytes
  <2>1. file_len \in Nat
    BY DEF LoadInv, TypeOK
  <2>2. file_len < LeavesEnd
    BY <1>1, <1>2, <1>3, <2>1 DEF LeavesEnd, HeaderBytes
  <2>. QED  BY <1>3, <2>2 DEF LoadMeta, LoadFails, LoadInv, TypeOK, calcvars
<1>4. CASE ~(file_len < HeaderBytes)
  BY <1>1, <1>4 DEF LoadMeta, LoadInv, TypeOK, HeaderBytes, calcvars
<1>. QED  BY <1>3, <1>4

(* Reading one leaf: a read past the end fails with IoError, and the leaf  *)
(* it missed lies before the leaves' end; a read that succeeds is taken by *)
(* the calculator, which has room for it since fewer than leaf_count       *)
(* leaves were read.                                                       *)
LEMMA LoadLeafInv == LoadInv /\ LoadLeaf => LoadInv'
<1>. SUFFICES ASSUME LoadInv, LoadLeaf PROVE LoadInv'
  OBVIOUS
<1>1. MetaLeafCount \in Nat /\ HashBytes \in Nat /\ MetaBytes \in Nat
      /\ leaf_read \in Nat /\ file_len \in Nat
  BY MetaLeafCountType, ReaderConstantsAssumption DEF LoadInv, TypeOK
<1>2. leaf_read < MetaLeafCount /\ rpc = "leaves" /\ cpc = "idle"
  BY DEF LoadLeaf
<1>3. ccount = leaf_read /\ cpending = <<>>
  BY <1>2 DEF LoadInv
<1>4. (leaf_read + 1) * HashBytes <= MetaLeafCount * HashBytes
  BY <1>1, <1>2
<1>5. CASE CanRead(LeafPos)
  <2>. DEFINE x == Decode(ReadAt(LeafPos))
  <2>1. Len(<<x>>) + ccount <= IF MetaLeafCount = 0 THEN 1 ELSE MetaLeafCount
    BY <1>1, <1>2, <1>3
  <2>2. /\ cpending' = <<x>> /\ cpc' = "append"
        /\ UNCHANGED <<cstack, ccount, cret>>
        /\ leaf_read' = leaf_read + 1
        /\ UNCHANGED <<rpc, load_ret, path_ret, file_leaves, file_len>>
    <3>1. ~(Len(<<x>>) + ccount > IF MetaLeafCount = 0 THEN 1 ELSE MetaLeafCount)
      BY <1>1, <1>3, <2>1
    <3>. QED  BY <1>5, <3>1 DEF LoadLeaf, Calc!AppendLeafHashes
  <2>3. IsSeq(<<x>>) /\ Len(<<x>>) = 1
    <3>1. <<x>> \in Seq({x}) /\ Len(<<x>>) = 1
      OBVIOUS
    <3>. QED  BY <3>1, SeqIsSeq
  <2>4. file_len >= HeaderBytes + leaf_read' * HashBytes
    BY <1>1, <1>5, <2>2 DEF CanRead, LeafPos, HeaderBytes
  <2>. QED  BY <1>1, <1>2, <1>3, <2>2, <2>3, <2>4 DEF LoadInv, TypeOK
<1>6. CASE ~CanRead(LeafPos)
  <2>1. file_len < LeavesEnd
    BY <1>1, <1>4, <1>6 DEF CanRead, LeafPos, LeavesEnd, HeaderBytes
  <2>. QED  BY <1>6, <2>1 DEF LoadLeaf, LoadFails, LoadInv, TypeOK, calcvars
<1>. QED  BY <1>5, <1>6

(* The calculator's steps inside the load.  A leaf push moves one leaf     *)
(* from the batch to the count and leaves a node on the stack; a merge     *)
(* pops two nodes and pushes one, so the stack stays non-empty; finalize   *)
(* either returns Ok with the root or aborts.  Each step belongs to one    *)
(* phase of rpc: the append steps to "leaves", the finalize steps to       *)
(* "finalize".                                                             *)
LEMMA LoadCalcStepInv == LoadInv /\ LoadCalcStep => LoadInv'
<1>. SUFFICES ASSUME LoadInv, LoadCalcStep PROVE LoadInv'
  OBVIOUS
<1>0. /\ UNCHANGED readervars
      /\ ccount \in Nat /\ IsSeq(cstack) /\ IsSeq(cpending)
      /\ TypeOK'
  BY DEF LoadCalcStep, LoadInv, TypeOK, readervars
<1>1. CASE Calc!PushLeaf
  <2>1. rpc = "leaves" /\ cpending # <<>>
    BY <1>1 DEF LoadCalcStep, LoadInv, Calc!PushLeaf
  <2>2. IsSeq(cpending') /\ Len(cpending') = Len(cpending) - 1
    BY <1>0, <1>1, <2>1, TailIsSeq DEF Calc!PushLeaf
  <2>3. IsSeq(cstack') /\ Len(cstack') = Len(cstack) + 1
    BY <1>0, <1>1, AppendIsSeq DEF Calc!PushLeaf
  <2>4. Len(cstack) \in Nat /\ Len(cpending) \in Nat \ {0}
    BY <1>0, <2>1, LenProperties, EmptySeq DEF IsSeq
  <2>. QED  BY <1>0, <1>1, <2>1, <2>2, <2>3, <2>4
            DEF LoadInv, Calc!PushLeaf, readervars
<1>2. CASE Calc!AppendDone
  <2>1. rpc = "leaves"
    BY <1>2 DEF LoadCalcStep, LoadInv, Calc!AppendDone
  <2>. QED  BY <1>0, <1>2, <2>1 DEF LoadInv, Calc!AppendDone, readervars
<1>3. CASE Calc!MergeStep
  <2>1. rpc = "leaves" /\ Len(cstack) > 1
    BY <1>3 DEF LoadCalcStep, LoadInv, Calc!MergeStep
  <2>2. Len(cstack) \in Nat
    BY <1>0, LenProperties DEF IsSeq
  <2>3. IsSeq(Calc!Pop2) /\ Len(Calc!Pop2) = Len(cstack) - 2
    <3>1. Len(cstack) - 2 \in 0..Len(cstack)
      BY <2>1, <2>2
    <3>2. IsSeq(SubSeq(cstack, 1, Len(cstack) - 2))
          /\ Len(SubSeq(cstack, 1, Len(cstack) - 2)) = Len(cstack) - 2
      BY <1>0, <3>1, PrefixIsSeq
    <3>. QED  BY <3>2 DEF Calc!Pop2
  <2>4. IsSeq(cstack') /\ Len(cstack') = Len(cstack) - 1
    BY <1>3, <2>3, AppendIsSeq DEF Calc!MergeStep
  <2>. QED  BY <1>0, <1>3, <2>1, <2>2, <2>4
            DEF LoadInv, Calc!MergeStep, readervars
<1>4. CASE Calc!MergeDone
  <2>1. rpc = "leaves"
    BY <1>4 DEF LoadCalcStep, LoadInv, Calc!MergeDone
  <2>. QED  BY <1>0, <1>4, <2>1 DEF LoadInv, Calc!MergeDone, readervars
<1>5. CASE Calc!FinalizeMergeSibling
  <2>1. rpc = "finalize" /\ Len(cstack) > 1
    BY <1>5 DEF LoadCalcStep, LoadInv, Calc!FinalizeMergeSibling
  <2>2. Len(cstack) \in Nat
    BY <1>0, LenProperties DEF IsSeq
  <2>3. IsSeq(Calc!Pop2) /\ Len(Calc!Pop2) = Len(cstack) - 2
    <3>1. Len(cstack) - 2 \in 0..Len(cstack)
      BY <2>1, <2>2
    <3>2. IsSeq(SubSeq(cstack, 1, Len(cstack) - 2))
          /\ Len(SubSeq(cstack, 1, Len(cstack) - 2)) = Len(cstack) - 2
      BY <1>0, <3>1, PrefixIsSeq
    <3>. QED  BY <3>2 DEF Calc!Pop2
  <2>4. IsSeq(cstack') /\ Len(cstack') = Len(cstack) - 1
    BY <1>5, <2>3, AppendIsSeq DEF Calc!FinalizeMergeSibling
  <2>. QED  BY <1>0, <1>5, <2>1, <2>2, <2>4
            DEF LoadInv, Calc!FinalizeMergeSibling, readervars
<1>6. CASE Calc!FinalizeDuplicate
  <2>1. rpc = "finalize" /\ Len(cstack) > 1
    BY <1>6 DEF LoadCalcStep, LoadInv, Calc!FinalizeDuplicate
  <2>2. Len(cstack) \in Nat
    BY <1>0, LenProperties DEF IsSeq
  <2>3. IsSeq(Calc!Pop1) /\ Len(Calc!Pop1) = Len(cstack) - 1
    BY <1>0, <2>1, <2>2, PrefixIsSeq DEF Calc!Pop1
  <2>4. IsSeq(cstack') /\ Len(cstack') = Len(cstack)
    BY <1>6, <2>3, AppendIsSeq DEF Calc!FinalizeDuplicate
  <2>. QED  BY <1>0, <1>6, <2>1, <2>2, <2>4
            DEF LoadInv, Calc!FinalizeDuplicate, readervars
<1>7. CASE Calc!FinalizeRoot
  <2>1. rpc = "finalize"
    BY <1>7 DEF LoadCalcStep, LoadInv, Calc!FinalizeRoot
  <2>2. IsSeq(cstack')
    BY <1>0, <1>7, EmptyIsSeq DEF Calc!FinalizeRoot
  <2>. QED  BY <1>0, <1>7, <2>1, <2>2 DEF LoadInv, Calc!FinalizeRoot, readervars
<1>. QED  BY <1>1, <1>2, <1>3, <1>4, <1>5, <1>6, <1>7 DEF LoadCalcStep

(* finalize is called once leaf_count leaves are read.  Its guard          *)
(* append_count = leaf_count holds only when leaf_count is not zero (the   *)
(* calculator of a zero count is made with a count of one), so the stack   *)
(* holds the last leaf and finalize does not return InvalidState.          *)
LEMMA LoadFinalizeInv == LoadInv /\ LoadFinalize => LoadInv'
<1>. SUFFICES ASSUME LoadInv, LoadFinalize PROVE LoadInv'
  OBVIOUS
<1>1. MetaLeafCount \in Nat /\ ccount \in Nat /\ IsSeq(cstack)
  BY MetaLeafCountType DEF LoadInv
<1>2. rpc = "leaves" /\ cpc = "idle" /\ leaf_read = MetaLeafCount
  BY DEF LoadFinalize
<1>3. ccount = MetaLeafCount
  BY <1>2 DEF LoadInv, EmptySeq
<1>4. ccount = IF MetaLeafCount = 0 THEN 1 ELSE MetaLeafCount
  BY DEF LoadFinalize, Calc!Finalize
<1>5. ccount >= 1
  BY <1>1, <1>3, <1>4
<1>6. Len(cstack) >= 1
  BY <1>2, <1>5 DEF LoadInv
<1>7. cpc' = "finalize" /\ UNCHANGED <<cstack, ccount, cpending, cret>>
  BY <1>6 DEF LoadFinalize, Calc!Finalize
<1>8. file_len >= LeavesEnd
  BY <1>2 DEF LoadInv, LeavesEnd
<1>9. rpc' = "finalize"
      /\ UNCHANGED <<leaf_read, load_ret, path_ret, file_leaves, file_len>>
  BY DEF LoadFinalize
<1>. QED  BY <1>1, <1>2, <1>6, <1>7, <1>8, <1>9 DEF LoadInv, TypeOK

(* finalize has returned: an idle calculator returned Ok, so the load      *)
(* returns Ok, on a stream that holds every leaf.                          *)
LEMMA LoadDoneInv == LoadInv /\ LoadDone => LoadInv'
<1>. SUFFICES ASSUME LoadInv, LoadDone PROVE LoadInv'
  OBVIOUS
<1>1. CASE cpc = "panicked"
  BY <1>1 DEF LoadDone, LoadInv, TypeOK, calcvars
<1>2. CASE cpc = "idle"
  <2>1. cret = "ok"
    BY <1>2 DEF LoadDone, LoadInv
  <2>. QED  BY <1>2, <2>1 DEF LoadDone, LoadInv, TypeOK, calcvars
<1>. QED  BY <1>1, <1>2 DEF LoadDone

(* A path query of a loaded object touches only its own result.           *)
LEMMA GetVerifyPathInv ==
    ASSUME NEW leaf, LoadInv, GetVerifyPath(leaf)
    PROVE  LoadInv'
<1>1. path_ret'.res \in {"none", "ok", "InvalidParam", "IoError"}
  BY DEF GetVerifyPath
<1>. QED  BY <1>1 DEF GetVerifyPath, LoadInv, TypeOK, calcvars

(* LoadInv is inductive.                                                   *)
LEMMA NextLoadInv == LoadInv /\ [Next]_vars => LoadInv'
<1>. SUFFICES ASSUME LoadInv, [Next]_vars PROVE LoadInv'
  OBVIOUS
<1>1. CASE LoadMeta        BY <1>1, LoadMetaInv
<1>2. CASE LoadLeaf        BY <1>2, LoadLeafInv
<1>3. CASE LoadCalcStep    BY <1>3, LoadCalcStepInv
<1>4. CASE LoadFinalize    BY <1>4, LoadFinalizeInv
<1>5. CASE LoadDone        BY <1>5, LoadDoneInv
<1>6. CASE \E leaf \in 0..MetaLeafCount : GetVerifyPath(leaf)
  BY <1>6, GetVerifyPathInv
<1>7. CASE UNCHANGED vars
  BY <1>7 DEF LoadInv, TypeOK, LeavesEnd, vars, readervars, calcvars
<1>. QED  BY <1>1, <1>2, <1>3, <1>4, <1>5, <1>6, <1>7 DEF Next

-----------------------------------------------------------------------------
(* LoadInv holds in every state of every behaviour of the reader.          *)
THEOREM LoadInvariant == Spec => []LoadInv
BY InitLoadInv, NextLoadInv, PTL DEF Spec

(* Type correctness of the reader: every variable of load_from_reader and  *)
(* get_verify_path_by_leaf_index keeps its type, and the count of leaves   *)
(* read never passes the header's leaf_count.                              *)
THEOREM ReaderTypeCorrect == Spec => []TypeOK
<1>1. LoadInv => TypeOK
  BY DEF LoadInv
<1>. QED  BY <1>1, LoadInvariant, PTL

(* For every header, digest size and stream: load_from_reader returns Ok   *)
(* exactly when the stream holds the header and all leaf_count leaf        *)
(* hashes, and otherwise IoError; it never returns the calculator's        *)
(* InvalidParam or InvalidState (mtree.rs, lines 136-150).                 *)
THEOREM ReaderLoadOutcome == Spec => []LoadOutcome
<1>1. LoadInv => LoadOutcome
  <2>. SUFFICES ASSUME LoadInv PROVE LoadOutcome
    OBVIOUS
  <2>1. file_len \in Nat /\ LeavesEnd \in Nat
    BY MetaLeafCountType, ReaderConstantsAssumption
       DEF LoadInv, TypeOK, LeavesEnd, HeaderBytes
  <2>. QED  BY <2>1 DEF LoadInv, LoadOutcome, LeavesEnd
<1>. QED  BY <1>1, LoadInvariant, PTL
=============================================================================
