---------------------------- MODULE AppendStream ----------------------------
(***************************************************************************)
(* What a buffered file promises its writer: a stream of bytes of which a  *)
(* growing prefix is on disk.  Bytes are numbered in the order in which    *)
(* they are handed over.  A failed write loses what is not yet on disk and *)
(* nothing else.                                                           *)
(***************************************************************************)
EXTENDS Integers, Sequences

CONSTANT MaxBytes    \* bytes handed over, at most

VARIABLES
    stream,     \* the bytes that are on disk or will be
    disk,       \* the bytes that are on disk
    accepted    \* how many bytes were handed over

abstract == <<stream, disk, accepted>>

StreamInit == stream = <<>> /\ disk = <<>> /\ accepted = 0

\* The next n bytes of the writer.
NewBytes(n) == [i \in 1..n |-> accepted + i]

\* Bytes are handed over.
Accept(n) ==
    /\ accepted + n <= MaxBytes
    /\ stream' = stream \o NewBytes(n)
    /\ accepted' = accepted + n
    /\ UNCHANGED disk

\* More of the stream is on disk.
Persist ==
    /\ \E n \in (Len(disk) + 1)..Len(stream) : disk' = SubSeq(stream, 1, n)
    /\ UNCHANGED <<stream, accepted>>

\* A write fails: what is not on disk is gone.
Lose ==
    /\ stream # disk
    /\ stream' = disk
    /\ UNCHANGED <<disk, accepted>>

StreamNext == (\E n \in 1..MaxBytes : Accept(n)) \/ Persist \/ Lose

StreamSpec == StreamInit /\ [][StreamNext]_abstract

=============================================================================
