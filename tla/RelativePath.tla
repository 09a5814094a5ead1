---------------------------- MODULE RelativePath ----------------------------
(***************************************************************************)
(* get_relative_path of buckyos-kit/src/path.rs: the part of full_path    *)
(* below base_path, computed on the strings.  A path is a sequence of     *)
(* one-character strings over a small alphabet holding '/'.                *)
(***************************************************************************)
EXTENDS Naturals, Sequences, SequencesExt

CONSTANTS
    Letters,        \* the characters other than '/' (a set without "/")
    MaxLen          \* the longest base enumerated, a natural number

Slash == "/"
Str(n) == UNION {[1..k -> Letters \cup {Slash}] : k \in 0..n}

(* get_relative_path: when full_path starts with base_path, the rest of    *)
(* full_path after base_path, from one character earlier when base_path   *)
(* ends with '/' (so that the result keeps it); otherwise full_path.  The *)
(* byte slice full_path[base.len()-1..] is taken on a non-empty base only, *)
(* as ends_with('/') implies.                                              *)
GetRelativePath(base, full) ==
    IF IsPrefix(base, full)
    THEN IF base # <<>> /\ Last(base) = Slash
         THEN SubSeq(full, Len(base), Len(full))
         ELSE SubSeq(full, Len(base) + 1, Len(full))
    ELSE full

VARIABLES base, full
vars == <<base, full>>

(* Absolute paths, as the callers pass (a data directory and a file in    *)
(* it); the base with or without its trailing '/'.                         *)
Init == base \in Str(MaxLen) /\ full \in Str(MaxLen + 1)
        /\ base # <<>> /\ Head(base) = Slash /\ full # <<>> /\ Head(full) = Slash
Next == UNCHANGED vars
Spec == Init /\ [][Next]_vars

Rel == GetRelativePath(base, full)

(* Both cases of the test of path.rs (base /opt/buckyos/data/chunk, with  *)
(* and without its trailing '/', and a full path below it): when          *)
(* get_relative_path strips the base off a longer full path, the result   *)
(* is the path below the base and starts with '/'.  The code compares     *)
(* strings, not path components (path.rs:81), so a sibling whose name     *)
(* extends the base's last component is stripped as well.                 *)
RelativeIsSubpath ==
    IsPrefix(base, full) /\ Len(full) > Len(base) => Head(Rel) = Slash

(* What the base written with its trailing '/' gives: a non-empty path    *)
(* starting with '/' that the base without its '/' completes to full.     *)
RelativeBelowSlashBase ==
    IsPrefix(base, full) /\ Last(base) = Slash =>
        /\ Rel # <<>> /\ Head(Rel) = Slash
        /\ Front(base) \o Rel = full
=============================================================================
