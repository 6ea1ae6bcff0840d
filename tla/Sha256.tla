------------------------------- MODULE Sha256 -------------------------------
(***************************************************************************)
(* The block-wise reading of base::Sha256 (sha256.hpp): which blocks reach *)
(* processBlock, however the message is cut into calls of ingest and each  *)
(* call into the pieces that fit in the buffer.  What processBlock makes   *)
(* of a block is left out.                                                 *)
(***************************************************************************)
EXTENDS Integers, Sequences, SequencesExt

CONSTANTS
    BlockSize,     \* bytes of a block, 64 in the code
    LengthSize,    \* bytes of the length at the end, 8 in the code
    MaxMessage     \* bound: bytes of a message

ASSUME Sha256Assumption ==
    /\ LengthSize \in Nat \ {0} /\ BlockSize \in Nat /\ BlockSize > LengthSize
    /\ MaxMessage \in Nat

VARIABLE digest    \* the Sha256 object: [buf, bufLen, count, processed, final]

-----------------------------------------------------------------------------
(* The i-th byte of the message is the number i.                           *)

Zero == 0
One == -1                    \* 0x80
LengthOf(n) == -2 - n        \* the length, spread over LengthSize bytes

NewDigest == [buf |-> [i \in 1 .. BlockSize |-> Zero], bufLen |-> 0, count |-> 0,
              processed |-> <<>>, final |-> FALSE]

ProcessBlock(d) == [d EXCEPT !.processed = Append(@, d.buf), !.bufLen = 0]

\* A turn of ingest's loop, at [object, data, size]: the object, the bytes before
\* the span and the bytes in it.  It copies what the buffer has room for.
IngestPiece(at, turn) ==
    LET d == at.object
        take == Min({at.size, BlockSize - d.bufLen})
        e == [d EXCEPT !.buf = [i \in 1 .. BlockSize |->
                           IF i - d.bufLen \in 1 .. take THEN at.data + (i - d.bufLen) ELSE @[i]],
                       !.bufLen = @ + take]
    IN [object |-> IF e.bufLen = BlockSize THEN ProcessBlock(e) ELSE e,
        data |-> at.data + take, size |-> at.size - take]

\* ingest of the next n bytes.  A turn takes one of them at least while there are
\* any and changes nothing when there are none, so n turns are the whole loop.
Ingest(n) ==
    /\ ~digest.final /\ digest.count + n <= MaxMessage
    /\ digest' = FoldLeft(IngestPiece,
                          [object |-> [digest EXCEPT !.count = @ + n],
                           data |-> digest.count, size |-> n],
                          [turn \in 1 .. n |-> turn]).object

FillFrom(d, from, to, byte) ==
    [d EXCEPT !.buf = [i \in 1 .. BlockSize |-> IF i \in from .. to THEN byte ELSE @[i]]]

FinalizeTooLate(d) ==                                                   \* mutant
    LET one == [FillFrom(d, d.bufLen + 1, d.bufLen + 1, One) EXCEPT !.bufLen = @ + 1]
        room == IF one.bufLen > BlockSize - LengthSize + 1
                THEN ProcessBlock(FillFrom(one, one.bufLen + 1, BlockSize, Zero)) ELSE one
    IN ProcessBlock(FillFrom(FillFrom(room, room.bufLen + 1, BlockSize - LengthSize, Zero),
                             BlockSize - LengthSize + 1, BlockSize, LengthOf(d.count)))
\* finalize: when the length does not fit behind the 0x80, a block of its own.
Finalized(d) ==
    LET one == [FillFrom(d, d.bufLen + 1, d.bufLen + 1, One) EXCEPT !.bufLen = @ + 1]
        room == IF one.bufLen > BlockSize - LengthSize
                THEN ProcessBlock(FillFrom(one, one.bufLen + 1, BlockSize, Zero)) ELSE one
    IN ProcessBlock(FillFrom(FillFrom(room, room.bufLen + 1, BlockSize - LengthSize, Zero),
                             BlockSize - LengthSize + 1, BlockSize, LengthOf(d.count)))

Finalize == ~digest.final /\ digest' = [Finalized(digest) EXCEPT !.final = TRUE]

Sha256Init == digest = NewDigest
Sha256Next == (\E n \in 0 .. MaxMessage : Ingest(n)) \/ Finalize
Sha256Spec == Sha256Init /\ [][Sha256Next]_digest

-----------------------------------------------------------------------------
(* Properties.                                                             *)

\* FIPS 180-4, 5.1.1: the message, a one bit, zeros up to the next block that
\* ends in the length, and no zero more than that.
PaddedMessage(n) ==
    LET body == [i \in 1 .. n + 1 |-> IF i <= n THEN i ELSE One]
        zeros == CHOOSE z \in 0 .. BlockSize - 1 : (n + 1 + z + LengthSize) % BlockSize = 0
    IN body \o [i \in 1 .. zeros |-> Zero] \o [i \in 1 .. LengthSize |-> LengthOf(n)]

\* The digest depends on the bytes alone: however a message was cut into calls
\* of ingest, which cut it again at the borders of the buffer, and whatever its
\* length is against the border of a block, the blocks processed are those of the
\* padded message, with nothing left of earlier bytes in the padding.
DigestOfMessage == digest.final => FlattenSeq(digest.processed) = PaddedMessage(digest.count)

=============================================================================
