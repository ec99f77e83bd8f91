------------------------------ MODULE KeyOrder ------------------------------
(***************************************************************************)
(* Internal keys and the order they are kept in.                           *)
(*                                                                         *)
(* An internal key is a user key followed by an eight byte tag that packs  *)
(* a sequence number and a KeyType.  The skip list of a memtable orders    *)
(* its entries with MemtableKeyComparator, the blocks of an sstable with   *)
(* InternalKeyComparator: user key ascending, sequence number descending.  *)
(* User keys are compared bytewise by Slice::Compare, a total order, so    *)
(* integers stand for them.  The value of an entry is left out: the        *)
(* sequence number tells one write from every other.                       *)
(***************************************************************************)
EXTENDS Integers

CONSTANTS
    Keys,        \* user keys
    SeqModulus,  \* number of sequence numbers a tag can hold: 2^56
    NotFound     \* what a lookup returns for an absent key

ASSUME KeysAssumption == Keys \subseteq Int
ASSUME ModulusAssumption == SeqModulus \in Nat \ {0}

\* enum KeyType
KeyType == {"value", "deletion"}

Entry == [key : Keys, seq : Nat, type : KeyType]

ASSUME NotFoundAssumption == NotFound \notin Entry

\* Wrong: a tag with a quarter of the sequence numbers.
PackSequence_Short(snapshot) == snapshot % (SeqModulus \div 4)

(***************************************************************************)
(* The tag is snapshot << 8 | type in 64 bits, and a reader shifts it back *)
(* by eight: the upper eight bits of the sequence number are lost.         *)
(***************************************************************************)
PackSequence(snapshot) == snapshot % SeqModulus

\* Lookups build their key with snapshot UINT64_MAX, which is packed as well.
SeekSequence == SeqModulus - 1

Probe(k) == [key |-> k, seq |-> SeekSequence]

\* MemtableKeyComparator: the tag decides between equal user keys.
MemtableKeyCompare(a, b) ==
    IF a.key # b.key THEN IF a.key < b.key THEN -1 ELSE 1
    ELSE IF a.seq > b.seq THEN -1
    ELSE IF a.seq < b.seq THEN 1 ELSE 0

\* InternalKeyComparator::Compare
InternalKeyCompare(a, b) ==
    CASE a.key < b.key \/ (a.key = b.key /\ a.seq > b.seq) -> -1
      [] a.key = b.key /\ a.seq = b.seq                    -> 0
      [] OTHER                                             -> 1

Smallest(S) == CHOOSE e \in S : \A f \in S : InternalKeyCompare(e, f) # 1

Largest(S) == CHOOSE e \in S : \A f \in S : InternalKeyCompare(e, f) # -1

(***************************************************************************)
(* FindFirstGreaterOrEqual of the skip list, and the position a block      *)
(* iterator stops at: the first entry that is not before the probe.        *)
(***************************************************************************)
FindFirstGreaterOrEqual(S, probe) ==
    LET rest == {e \in S : MemtableKeyCompare(e, probe) # -1}
        first == {e \in rest : \A f \in rest : MemtableKeyCompare(e, f) # 1}
    IN  IF first = {} THEN NotFound ELSE CHOOSE e \in first : TRUE

=============================================================================
