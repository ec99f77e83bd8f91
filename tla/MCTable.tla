------------------------------ MODULE MCTable -------------------------------
(* Table for TLC: entries of different sizes around the size of a block, two *)
(* versions of a short and of a long user key, the empty user key, a key     *)
(* that extends another by a byte of its tag, and hashes that fill a filter  *)
(* with and without gaps.                                                    *)
EXTENDS Table

User(byte, n) == [i \in 1..n |-> byte]

MCKeySeq ==
    <<User(97, 1) \o Tag(3, kTypeValue), User(97, 1) \o Tag(2, kTypeDeletion),
      <<97, 1>> \o Tag(4, kTypeValue), User(99, 5) \o Tag(7, kTypeValue),
      User(99, 6) \o Tag(6, kTypeValue), User(99, 6) \o Tag(5, kTypeValue),
      Tag(8, kTypeValue)>>

MCKeys == Range(MCKeySeq)

Index(key) == CHOOSE i \in DOMAIN MCKeySeq : MCKeySeq[i] = key

MCEntrySize == [k \in MCKeys |-> IF Index(k) \in {1, 4, 6} THEN 1 ELSE 2]

\* 512 * d + p: the probes are p, p + d, p + 2d ... of 64.
MCHashes == <<512 * 1 + 1, 20, 512 * 63 + 63, 512 * 17 + 5, 512 * 9, 512 * 8 + 40,
      512 * 3 + 11>>

MCBloomHash == [k \in MCKeys |-> MCHashes[Index(k)]]
=============================================================================
