---------------------------- MODULE MTreeObject ----------------------------
(***************************************************************************)
(* MerkleTreeObject of ndn-lib/src/mtree.rs: the reader.  load_from_reader *)
(* reads the length-prefixed metadata header, then leaf_count leaf hashes  *)
(* from the bytes that follow it, feeds them one by one into a writer-less *)
(* SerializeHashCalculator (the MTreeCalc module, instantiated) and keeps  *)
(* the root finalize returns; get_verify_path_by_leaf_index then seeks to  *)
(* the slots the locator names and reads one digest from each.             *)
(*                                                                         *)
(* The header (MTreeMeta) holds DataSize and LeafSize.  The stream is a    *)
(* byte function fixed for the reader's lifetime (spec 5): the header,     *)
(* then the node region of the spec's layout (4.5), slot x at              *)
(* header_size + x * hash_bytes, built from the leaves of the file and     *)
(* cut at any length (a truncated stream).                                 *)
(***************************************************************************)
EXTENDS Naturals, Sequences, MTreeLocator, MTreeMeta

CONSTANTS
    LeafSymbols,    \* the distinct leaf digests (model values)
    HashBytes,      \* hash_method.hash_bytes()
    MetaBytes       \* length of the bincode encoding of the metadata

ASSUME ReaderConstantsAssumption ==
    HashBytes \in Nat \ {0} /\ MetaBytes \in Nat

(* The u32 length prefix, then the bincode metadata.                       *)
HeaderBytes == 4 + MetaBytes

VARIABLES
    rpc,            \* where load_from_reader is, or "loaded" / "failed"
    leaf_read,      \* leaf hashes read so far by the loop of line 140
    load_ret,       \* the result of load_from_reader
    path_ret,       \* the result of the last get_verify_path_by_leaf_index
    file_leaves,    \* the leaf digests the stream was written from
    file_len,       \* the length of the stream in bytes
    cstack, ccount, csink, cpending, cpc, cret, croot, cappended

calcvars == <<cstack, ccount, csink, cpending, cpc, cret, croot, cappended>>
readervars == <<rpc, leaf_read, load_ret, path_ret, file_leaves, file_len>>
vars == <<readervars, calcvars>>

(* SerializeHashCalculator::new(leaf_count, hash_method, None) at line     *)
(* 138, driven one leaf per append_leaf_hashes call.  (For leaf_count 0    *)
(* the constructor panics before any of its state exists; the instance is *)
(* then never stepped and is given a count of 1 only to be well formed.)   *)
Calc == INSTANCE MTreeCalc
          WITH LeafCount <- IF MetaLeafCount = 0 THEN 1 ELSE MetaLeafCount,
               MaxBatch <- 1, HasWriter <- FALSE, EarlyFinalize <- FALSE,
               WriteMayFail <- FALSE,
               stack <- cstack, append_count <- ccount, sink <- csink,
               pending <- cpending, pc <- cpc, ret <- cret, root <- croot,
               appended <- cappended

LeafHashes == {<<s>> : s \in LeafSymbols}

(***************************************************************************)
(* The bytes of the stream.  Header byte p is [header |-> p]; byte j of a  *)
(* digest h is [digest |-> h, at |-> j].  A read of hash_bytes bytes       *)
(* decodes to h only when it is exactly h's bytes in order; anything else  *)
(* (a read across a slot boundary or into the header) is a torn value,    *)
(* distinct from every digest.                                             *)
(***************************************************************************)
NodeAt(x) ==
    LET n == Len(file_leaves)
        tree == Calc!RefPadded(file_leaves)
        d == CHOOSE d \in 0..CalcDepth(n) :
                 PrevCountPerDepth(n)[d] <= x
                 /\ x < PrevCountPerDepth(n)[d] + CountPerDepth(n)[d]
    IN  tree[d][x - PrevCountPerDepth(n)[d] + 1]

FileByte(p) ==
    IF p < HeaderBytes THEN [header |-> p]
    ELSE [digest |-> NodeAt((p - HeaderBytes) \div HashBytes),
          at |-> (p - HeaderBytes) % HashBytes]

FullLength == HeaderBytes + TotalSlots(MetaLeafCount) * HashBytes

Bytes(h) == [j \in 1..HashBytes |-> [digest |-> h, at |-> j - 1]]

(* Mutant: the read fails when it would end exactly at the end of stream. *)
CanReadStrict(pos) == pos + HashBytes < file_len

(* body_reader.read_exact of hash_bytes bytes at pos, when they exist.     *)
ReadAt(pos) == [j \in 1..HashBytes |-> FileByte(pos + j - 1)]
CanRead(pos) == pos + HashBytes <= file_len

Decode(bs) ==
    IF /\ "digest" \in DOMAIN bs[1]
       /\ \A j \in 1..HashBytes : "digest" \in DOMAIN bs[j] /\ bs[j] = Bytes(bs[1].digest)[j]
    THEN bs[1].digest
    ELSE <<bs>>

Init ==
    /\ rpc = "start"
    /\ leaf_read = 0
    /\ load_ret = "none"
    /\ path_ret = [res |-> "none", path |-> <<>>]
    /\ file_leaves \in [1..MetaLeafCount -> LeafHashes]
    /\ file_len \in 0..FullLength
    /\ Calc!Init

(* The `?` of the load: the error is returned, no object is made.          *)
LoadFails(err) ==
    /\ rpc' = "failed"
    /\ load_ret' = err

(* load_meta_from_reader and the checks opening                            *)
(* load_leaf_hash_list_from_reader: the u32 length and the metadata are    *)
(* read with read_exact (IoError on a short stream) and bincode decodes    *)
(* the header, which the stream holds intact; then assert!(leaf_size > 0)  *)
(* (line 128) and SerializeHashCalculator::new, whose HashNodeLocator::new *)
(* asserts that the root depth holds one node (line 359): both abort.      *)
LoadMeta ==
    /\ rpc = "start"
    /\ IF file_len < HeaderBytes
       THEN LoadFails("IoError")
       ELSE /\ rpc' = IF LeafSize = 0 \/ ~RootCountIsOne(MetaLeafCount)
                      THEN "panicked" ELSE "leaves"
            /\ UNCHANGED load_ret
    /\ UNCHANGED <<leaf_read, path_ret, file_leaves, file_len, calcvars>>

(* One iteration of the loop of line 140: read the next hash from the     *)
(* bytes following the header and append it, once the previous append has *)
(* returned; a short read returns IoError.                                 *)
(* Mutant: the leaf hashes are read from the start of the stream.         *)
LeafPosNoHeader == leaf_read * HashBytes

LeafPos == HeaderBytes + leaf_read * HashBytes

(* Mutant: the loop reads one hash more than leaf_count.                  *)
LoadLeafOffByOne ==
    /\ rpc = "leaves"
    /\ cpc = "idle"
    /\ leaf_read <= MetaLeafCount
    /\ IF CanRead(LeafPos)
       THEN /\ Calc!AppendLeafHashes(<<Decode(ReadAt(LeafPos))>>)
            /\ leaf_read' = leaf_read + 1
            /\ UNCHANGED <<rpc, load_ret, path_ret, file_leaves, file_len>>
       ELSE /\ LoadFails("IoError")
            /\ UNCHANGED <<leaf_read, path_ret, file_leaves, file_len, calcvars>>

LoadLeaf ==
    /\ rpc = "leaves"
    /\ cpc = "idle"
    /\ leaf_read < MetaLeafCount
    /\ IF CanRead(LeafPos)
       THEN /\ Calc!AppendLeafHashes(<<Decode(ReadAt(LeafPos))>>)
            /\ leaf_read' = leaf_read + 1
            /\ UNCHANGED <<rpc, load_ret, path_ret, file_leaves, file_len>>
       ELSE /\ LoadFails("IoError")
            /\ UNCHANGED <<leaf_read, path_ret, file_leaves, file_len, calcvars>>

(* A step of the running append_leaf_hashes or finalize of the calculator. *)
LoadCalcStep ==
    /\ rpc \in {"leaves", "finalize"}
    /\ \/ Calc!PushLeaf \/ Calc!AppendDone \/ Calc!MergeStep \/ Calc!MergeDone
       \/ Calc!FinalizeMergeSibling \/ Calc!FinalizeDuplicate
       \/ Calc!FinalizeRoot
    /\ UNCHANGED readervars

(* calc.finalize().await? once leaf_count hashes are in.                   *)
LoadFinalize ==
    /\ rpc = "leaves"
    /\ cpc = "idle"
    /\ leaf_read = MetaLeafCount
    /\ Calc!Finalize
    /\ rpc' = "finalize"
    /\ UNCHANGED <<leaf_read, load_ret, path_ret, file_leaves, file_len>>

(* finalize has returned: Ok(root) makes the object, an error is returned; *)
(* a failed assertion of finalize aborts the process.                      *)
LoadDone ==
    /\ rpc = "finalize"
    /\ cpc \in {"idle", "panicked"}
    /\ IF cpc = "panicked" THEN rpc' = "panicked" /\ UNCHANGED load_ret
       ELSE IF cret = "ok" THEN rpc' = "loaded" /\ load_ret' = "ok"
       ELSE LoadFails(cret)
    /\ UNCHANGED <<leaf_read, path_ret, file_leaves, file_len, calcvars>>

(* get_verify_path_by_leaf_index: the locator's path (InvalidParam for an  *)
(* index out of range), then per entry seek to hash_bytes * index and read *)
(* hash_bytes (IoError past the end); the result pairs slot and bytes.     *)
PathPos(slot) == HashBytes * slot

GetVerifyPath(leaf) ==
    /\ rpc = "loaded"
    /\ path_ret' =
         IF ~ValidLeafIndex(MetaLeafCount, leaf)
         THEN [res |-> "InvalidParam", path |-> <<>>]
         ELSE LET path == VerifyPath(MetaLeafCount, leaf)
              IN  IF \E k \in 1..Len(path) : ~CanRead(PathPos(path[k][2]))
                  THEN [res |-> "IoError", path |-> <<>>]
                  ELSE [res |-> "ok",
                        path |-> [k \in 1..Len(path) |->
                                     <<path[k][2], ReadAt(PathPos(path[k][2]))>>]]
    /\ UNCHANGED <<rpc, leaf_read, load_ret, file_leaves, file_len, calcvars>>

Next ==
    \/ LoadMeta
    \/ LoadLeaf \/ LoadCalcStep \/ LoadFinalize \/ LoadDone
    \/ \E leaf \in 0..MetaLeafCount : GetVerifyPath(leaf)

Spec == Init /\ [][Next]_vars

(* load_from_reader is one awaited call: its steps are taken until it      *)
(* returns or aborts.  Path queries are the caller's and are not forced.   *)
LoadStep ==
    LoadMeta \/ LoadLeaf \/ LoadCalcStep
    \/ LoadFinalize \/ LoadDone

FairSpec == Spec /\ WF_vars(LoadStep)

-----------------------------------------------------------------------------
TypeOK ==
    /\ rpc \in {"start", "leaves", "finalize", "loaded", "failed", "panicked"}
    /\ leaf_read \in 0..MetaLeafCount
    /\ load_ret \in {"none", "ok", "IoError", "InvalidParam", "InvalidState"}
    /\ path_ret.res \in {"none", "ok", "InvalidParam", "IoError"}
    /\ file_leaves \in [1..MetaLeafCount -> LeafHashes]
    /\ file_len \in 0..FullLength

(* Round trip (spec 4.5, 8): a load that returns Ok has the root of the    *)
(* leaves the stream was written from, whatever the stream holds beyond   *)
(* them: the leaf reads start right after the header and step one digest. *)
LoadRootCorrect == load_ret = "ok" => croot = Calc!RefRoot(file_leaves)

(* The outcome of load_from_reader depends on the stream only through its  *)
(* length: Ok when the header and all leaf_count leaf hashes are there,   *)
(* IoError when it is cut before; never an error from the calculator.      *)
LoadOutcome ==
    rpc \in {"loaded", "failed"} =>
        (load_ret = "ok" <=> file_len >= HeaderBytes + MetaLeafCount * HashBytes)
        /\ load_ret \in {"ok", "IoError"}

(* Every load returns: load_from_reader's loops end (one leaf per          *)
(* iteration, merges and finalize pop) with an object, an error or abort. *)
LoadReturns == rpc \in {"start", "leaves", "finalize"} ~> rpc \in {"loaded", "failed", "panicked"}

(* Spec 4.5: each hash get_verify_path_by_leaf_index returns is the digest *)
(* stored in the slot it is paired with, which lies at header_size +       *)
(* slot * digest_size of the stream.                                       *)
VerifyPathSound ==
    \A k \in DOMAIN path_ret.path :
        path_ret.path[k][2] = Bytes(NodeAt(path_ret.path[k][1]))
=============================================================================
