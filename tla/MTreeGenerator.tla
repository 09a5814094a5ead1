--------------------------- MODULE MTreeGenerator ---------------------------
(***************************************************************************)
(* MerkleTreeObjectGenerator of ndn-lib/src/mtree.rs: the writer.  new     *)
(* writes the metadata header and makes a SerializeHashCalculator (the     *)
(* MTreeCalc module, instantiated) that owns the writer; append_leaf_hashes *)
(* forwards to it; finalize checks the declared leaf count and returns the  *)
(* calculator's root.                                                       *)
(***************************************************************************)
EXTENDS Naturals, Sequences, MTreeLocator, MTreeMeta

CONSTANTS
    LeafSymbols,    \* the distinct leaf digests (model values)
    MaxBatch,       \* the longest leaf_hashes vector of one append call
    WriteMayFail    \* whether the writer's write_all may return an error

VARIABLES
    gpc,            \* "none" before new, "ready", "failed", "panicked"
    gcall,          \* the generator's last call
    gret,           \* its result
    header,         \* how much of the header new has written
    accepted,       \* leaf hashes of append calls that returned Ok
    cstack, ccount, csink, cpending, cpc, cret, croot, cappended

calcvars == <<cstack, ccount, csink, cpending, cpc, cret, croot, cappended>>
vars == <<gpc, gcall, gret, header, accepted, calcvars>>

(* SerializeHashCalculator::new(meta.leaf_count(), hash_method,            *)
(* Some(body_writer)).  The generator checks the count itself before       *)
(* finalize (EarlyFinalize).  For leaf_count 0 new panics before any of   *)
(* its state exists, and the instance is never stepped.                    *)
Calc == INSTANCE MTreeCalc
          WITH LeafCount <- IF MetaLeafCount = 0 THEN 1 ELSE MetaLeafCount,
               HasWriter <- TRUE, EarlyFinalize <- TRUE,
               stack <- cstack, append_count <- ccount, sink <- csink,
               pending <- cpending, pc <- cpc, ret <- cret, root <- croot,
               appended <- cappended

LeafHashes == {<<s>> : s \in LeafSymbols}

(* The calls after new are bounded by this many accepted leaves.           *)
MaxAccepted == MetaLeafCount + 1

Init ==
    /\ gpc = "none"
    /\ gcall = "none"
    /\ gret = "none"
    /\ header = "none"
    /\ accepted = <<>>
    /\ Calc!Init

(* new: assert!(leaf_size > 0); write_meta_data writes the u32 length and  *)
(* then the bincode bytes with write_all, an IoError of either returned   *)
(* (no generator); then the calculator's locator asserts a root count of  *)
(* one, which fails for leaf_count 0.                                      *)
GenNew ==
    /\ gpc = "none"
    /\ gcall' = "new"
    /\ IF LeafSize = 0 THEN gpc' = "panicked" /\ UNCHANGED <<gret, header>>
       ELSE \/ /\ WriteMayFail
               /\ header' \in {"none", "length"}
               /\ gpc' = "failed"
               /\ gret' = "IoError"
            \/ /\ header' = "full"
               /\ gpc' = IF RootCountIsOne(MetaLeafCount) THEN "ready" ELSE "panicked"
               /\ gret' = "ok"
    /\ UNCHANGED <<accepted, calcvars>>

(* append_leaf_hashes: self.calc.append_leaf_hashes(&leaf_hashes) builds  *)
(* the calculator's future and drops it without .await, so the calculator *)
(* is left as it was; the call returns Ok.                                 *)
GenAppend(batch) ==
    /\ gpc = "ready"
    /\ Len(accepted) + Len(batch) <= MaxAccepted
    /\ gcall' = "append"
    /\ gret' = "ok"
    /\ accepted' = accepted \o batch
    /\ UNCHANGED <<gpc, header, calcvars>>

(* finalize: InvalidData when the calculator's leaf_count differs from     *)
(* data_size / leaf_size; otherwise the calculator's finalize, whose       *)
(* result is returned.  (Its stack is empty in every state the generator  *)
(* reaches, so that finalize returns at once.)                             *)
GenFinalize ==
    /\ gpc = "ready"
    /\ gcall' = "finalize"
    /\ IF MetaLeafCount # DataSize \div LeafSize
       THEN gret' = "InvalidData" /\ UNCHANGED calcvars
       ELSE Calc!Finalize /\ gret' = cret'
    /\ UNCHANGED <<gpc, header, accepted>>

Next ==
    \/ GenNew
    \/ \E k \in 1..MaxBatch : \E batch \in [1..k -> LeafHashes] : GenAppend(batch)
    \/ GenFinalize

Spec == Init /\ [][Next]_vars

-----------------------------------------------------------------------------
(* Spec 4.4: append_leaf_hashes forwards to the builder: every leaf hash   *)
(* of a call that returned Ok has been appended to the calculator.         *)
GenAppendReaches == gpc = "ready" => ccount = Len(accepted)
=============================================================================
