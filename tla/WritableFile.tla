---------------------------- MODULE WritableFile ----------------------------
(***************************************************************************)
(* The buffered file through which tables and the manifest are written.    *)
(* Bytes are the numbers 1, 2, ... in the order of the Append calls.  A    *)
(* step is the part of a call up to the next ::write, or one ::write,      *)
(* which may be short, be interrupted or fail.                             *)
(***************************************************************************)
EXTENDS Integers, Sequences

CONSTANTS
    kWritableFileBuffer,
    MaxBytes                \* bytes appended, at most

ASSUME BufferAssumption == kWritableFileBuffer \in Nat \ {0}
ASSUME BytesAssumption == MaxBytes \in Nat

VARIABLES
    buf,        \* the first pos_ bytes of buf_
    file,       \* the content of the file
    call,       \* where the running call is
    out,        \* what WriteUnbuffered has left to write
    rest,       \* what Append has left to write: write_data
    appended,   \* bytes handed to Append so far
    failed      \* some call has returned an error

vars == <<buf, file, call, out, rest, appended, failed>>

\* Types; the buffer is never overrun.
TypeOK ==
    /\ buf \in Seq(1..MaxBytes) /\ Len(buf) <= kWritableFileBuffer
    /\ file \in Seq(1..MaxBytes)
    /\ call \in {"none", "spill", "direct", "flush"}
    /\ out \in Seq(1..MaxBytes)
    /\ rest \in Seq(1..MaxBytes)
    /\ appended \in 0..MaxBytes
    /\ failed \in BOOLEAN

Init ==
    /\ buf = <<>> /\ file = <<>> /\ out = <<>> /\ rest = <<>>
    /\ call = "none"
    /\ appended = 0
    /\ failed = FALSE

Content(n) == [i \in 1..n |-> appended + i]

\* What fits of the content: min(write_size, kWritableFileBuffer - pos_).
CopySize(n) ==
    IF n <= kWritableFileBuffer - Len(buf) THEN n
    ELSE kWritableFileBuffer - Len(buf)

-----------------------------------------------------------------------------
(* Append *)

AppendFits(n) ==
    /\ call = "none"
    /\ appended + n <= MaxBytes
    /\ CopySize(n) = n
    /\ buf' = buf \o Content(n)
    /\ appended' = appended + n
    /\ UNCHANGED <<file, call, out, rest, failed>>

\* The buffer is full and Flush writes it.
AppendSpills(n) ==
    /\ call = "none"
    /\ appended + n <= MaxBytes
    /\ CopySize(n) < n
    /\ buf' = buf \o SubSeq(Content(n), 1, CopySize(n))
    /\ out' = buf'
    /\ rest' = SubSeq(Content(n), CopySize(n) + 1, n)
    /\ call' = "spill"
    /\ appended' = appended + n
    /\ UNCHANGED <<file, failed>>

\* Flush succeeded: pos_ = 0, and a small rest goes to the buffer.
SpillSmall ==
    /\ call = "spill" /\ out = <<>>
    /\ Len(rest) < kWritableFileBuffer
    /\ buf' = rest
    /\ rest' = <<>>
    /\ call' = "none"
    /\ UNCHANGED <<file, out, appended, failed>>

\* Wrong: a rest of exactly the size of the buffer is left alone.
SpillLarge_OffByOne ==
    /\ call = "spill" /\ out = <<>>
    /\ Len(rest) > kWritableFileBuffer
    /\ buf' = <<>>
    /\ out' = rest
    /\ rest' = <<>>
    /\ call' = "direct"
    /\ UNCHANGED <<file, appended, failed>>

\* A large rest is written directly.
SpillLarge ==
    /\ call = "spill" /\ out = <<>>
    /\ Len(rest) >= kWritableFileBuffer
    /\ buf' = <<>>
    /\ out' = rest
    /\ rest' = <<>>
    /\ call' = "direct"
    /\ UNCHANGED <<file, appended, failed>>

-----------------------------------------------------------------------------
(* Flush *)

Flush ==
    /\ call = "none"
    /\ out' = buf
    /\ call' = "flush"
    /\ UNCHANGED <<buf, file, rest, appended, failed>>

\* WriteUnbuffered has returned OK to a direct write or to Flush.
Return ==
    /\ call \in {"direct", "flush"} /\ out = <<>>
    /\ buf' = <<>>
    /\ call' = "none"
    /\ UNCHANGED <<file, out, rest, appended, failed>>

-----------------------------------------------------------------------------
(* ::write *)

\* Wrong: a short write counts as a whole one.
Write_Short(n) ==
    /\ call # "none"
    /\ n \in 1..Len(out)
    /\ file' = file \o SubSeq(out, 1, n)
    /\ out' = <<>>
    /\ UNCHANGED <<buf, call, rest, appended, failed>>

\* n bytes are written; EINTR writes none and is tried again.
Write(n) ==
    /\ call # "none"
    /\ n \in 1..Len(out)
    /\ file' = file \o SubSeq(out, 1, n)
    /\ out' = SubSeq(out, n + 1, Len(out))
    /\ UNCHANGED <<buf, call, rest, appended, failed>>

\* Wrong: pos_ is reset only on success.
WriteFails_Keeps ==
    /\ call # "none"
    /\ out # <<>>
    /\ out' = <<>> /\ rest' = <<>>
    /\ call' = "none"
    /\ failed' = TRUE
    /\ UNCHANGED <<buf, file, appended>>

\* Any other error ends the call: Flush resets pos_ all the same.
WriteFails ==
    /\ call # "none"
    /\ out # <<>>
    /\ buf' = <<>> /\ out' = <<>> /\ rest' = <<>>
    /\ call' = "none"
    /\ failed' = TRUE
    /\ UNCHANGED <<file, appended>>

-----------------------------------------------------------------------------

CallStep ==
    \/ SpillSmall \/ SpillLarge \/ Return
    \/ \E n \in 1..MaxBytes : Write(n)

Next ==
    \/ \E n \in 1..MaxBytes : AppendFits(n) \/ AppendSpills(n)
    \/ Flush
    \/ CallStep
    \/ WriteFails

Spec == Init /\ [][Next]_vars

\* ::write is not interrupted for ever.
FairSpec == Spec /\ WF_vars(CallStep)

-----------------------------------------------------------------------------
(* Properties *)

\* The bytes that the object holds and has not written.
Pending == IF call = "none" THEN buf ELSE out \o rest

\* Until a call reports an error, the file and what is still to be written are
\* together all that was appended, in order: short and interrupted writes,
\* spills and direct writes lose, repeat or swap nothing.
NothingLostSilently ==
    ~failed => file \o Pending = [i \in 1..appended |-> i]

\* Even across errors the file holds no byte twice and none out of order: a
\* write that fails loses bytes, and Flush does not write them later.
FileInOrder ==
    \A i, j \in DOMAIN file : i < j => file[i] < file[j]

\* The file is an append stream; a failed write loses exactly what is pending.
Stream == INSTANCE AppendStream WITH
              stream <- file \o Pending, disk <- file, accepted <- appended
ImplementsStream == Stream!StreamSpec

\* A call returns.
CallsReturn == call # "none" ~> call = "none"

=============================================================================
