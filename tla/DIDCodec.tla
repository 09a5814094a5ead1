------------------------------ MODULE DIDCodec ------------------------------
(***************************************************************************)
(* DID of name-lib/src/did.rs: the two text forms of a DID, "did:m:i"      *)
(* (to_string / from_str) and the host name "i.m.did" (to_host_name /     *)
(* from_host_name).  A string is a sequence of one-character strings over *)
(* a small alphabet that holds the two separators; str::split is modelled *)
(* by what it does, including its empty pieces.                            *)
(***************************************************************************)
EXTENDS Naturals, Sequences, FiniteSets, SequencesExt

CONSTANTS
    Letters,        \* the characters other than the separators
    MaxLen          \* the longest method or id enumerated

Colon == ":"
Dot == "."
Chars == Letters \cup {Colon, Dot}
Str(n) == UNION {[1..k -> Chars] : k \in 0..n}

DidWord == <<"d", "i", "d">>

ASSUME DIDAssumption ==
    /\ {"d", "i"} \subseteq Letters /\ Colon \notin Letters /\ Dot \notin Letters
    /\ MaxLen \in Nat

None == [none |-> TRUE]

(* str::split(sep): the pieces between consecutive separators, from the    *)
(* start to the end; n separators give n + 1 pieces, empty ones included.  *)
Split(s, sep) ==
    LET seps == {i \in 1..Len(s) : s[i] = sep}
        n == Cardinality(seps)
        \* the position of the k-th separator, 0 and Len(s) + 1 at the ends
        cut(k) == IF k = 0 THEN 0 ELSE IF k > n THEN Len(s) + 1
                  ELSE CHOOSE i \in seps : Cardinality({j \in seps : j <= i}) = k
    IN  [k \in 1..(n + 1) |-> SubSeq(s, cut(k - 1) + 1, cut(k) - 1)]

(* Mutant: from_str accepts three parts or more, ignoring the rest.       *)
FromStrAtLeast3(did) ==
    LET parts == Split(did, Colon)
    IN  IF Len(parts) < 3 THEN None
        ELSE IF parts[1] # DidWord THEN None
        ELSE [method |-> parts[2], id |-> parts[3]]

(* DID::from_str: split on ':', exactly three parts, the first "did".      *)
FromStr(did) ==
    LET parts == Split(did, Colon)
    IN  IF Len(parts) # 3 THEN None
        ELSE IF parts[1] # DidWord THEN None
        ELSE [method |-> parts[2], id |-> parts[3]]

(* DID::to_string: format!("did:{}:{}", method, id).                    *)
DIDToString(d) == DidWord \o <<Colon>> \o d.method \o <<Colon>> \o d.id

(* DID::to_host_name: format!("{}.{}.did", id, method).                    *)
ToHostName(d) == d.id \o <<Dot>> \o d.method \o <<Dot>> \o DidWord

(* DID::from_host_name: split on '.', exactly three parts, the last "did", *)
(* id first.                                                               *)
FromHostName(host) ==
    LET parts == Split(host, Dot)
    IN  IF Len(parts) # 3 THEN None
        ELSE IF parts[3] # DidWord THEN None
        ELSE [method |-> parts[2], id |-> parts[1]]

(***************************************************************************)
(* The inputs: every method and id up to MaxLen characters; the DIDs the   *)
(* code handles are those from_str accepts, i.e. these pairs with no ':'.  *)
(***************************************************************************)
VARIABLES method, id
vars == <<method, id>>

Init == method \in Str(MaxLen) /\ id \in Str(MaxLen)
Next == UNCHANGED vars
Spec == Init /\ [][Next]_vars

TheDID == [method |-> method, id |-> id]
Parsed == FromStr(DIDToString(TheDID))

(* from_str and to_string are inverse: a "did:m:i" text parses exactly     *)
(* when method and id hold no ':', to the same DID, and a DID prints to a  *)
(* text that parses back to it.                                            *)
TextRoundTrip ==
    /\ Parsed # None <=> (Colon \notin ToSet(method) /\ Colon \notin ToSet(id))
    /\ Parsed # None => Parsed = TheDID /\ DIDToString(Parsed) = DIDToString(TheDID)
=============================================================================
