---------------------------- MODULE PieceHashing ----------------------------
(***************************************************************************)
(* How a file is cut into pieces and hashed (internal/torrent): the piece  *)
(* size, PieceHasher, which hashes a stream as it is written, and the v1   *)
(* pieces and v2 layers buildHybridSingleFileInfo puts into a torrent,     *)
(* which reads the file by buffers of its own.                             *)
(*                                                                         *)
(* A hash stands for the bytes it was computed from, <<first, last>> for   *)
(* those of the stream after byte `first` up to byte `last`. SHA-1 reports *)
(* no errors; a write after Finalize, and a second Finalize, panic.        *)
(***************************************************************************)
EXTENDS Integers, Sequences

CONSTANT MiB   \* bytes in a MiB, 2^20

ASSUME MiBPositive == MiB \in Nat \ {0}

GiB == 1024 * MiB
LanPieceLen == 16 * MiB

ChoosePieceSize(fileBytes) ==
    CASE fileBytes < 8 * GiB -> 2 * MiB
      [] fileBytes >= 8 * GiB /\ fileBytes < 32 * GiB -> 4 * MiB
      [] fileBytes >= 32 * GiB /\ fileBytes < 80 * GiB -> 8 * MiB
      [] OTHER -> 16 * MiB

-----------------------------------------------------------------------------
(* PieceHasher *)

\* `at` bytes of the stream have been written, the digest under way began after byte `from`.
NewPieceHasher(pieceSize) ==
    [pieceSize |-> pieceSize, offset |-> 0, pieceIndex |-> 0, from |-> 0, at |-> 0,
     pieces |-> <<>>, finalized |-> FALSE]

\* Sum, append, Reset.
CutPiece(h) ==
    [h EXCEPT !.pieces = Append(@, <<h.from, h.at>>), !.from = h.at,
              !.offset = 0, !.pieceIndex = @ + 1]

\* One turn of Write's loop, n bytes being left to write, takes those that fit the piece.
Taken(h, n) == IF n > h.pieceSize - h.offset THEN h.pieceSize - h.offset ELSE n

Turn(h, n) ==
    LET g == [h EXCEPT !.offset = @ + Taken(h, n), !.at = @ + Taken(h, n)]
    IN IF g.offset = g.pieceSize THEN CutPiece(g) ELSE g

\* Every turn takes some bytes, so n turns write n bytes.
Write(h, n) ==
    LET after[k \in 0..n] ==
          IF k = 0 THEN [hasher |-> h, left |-> n]
          ELSE LET s == after[k - 1]
               IN IF s.left = 0 THEN s
                  ELSE [hasher |-> Turn(s.hasher, s.left),
                        left |-> s.left - Taken(s.hasher, s.left)]
    IN after[n].hasher

Finalize(h) ==
    LET g == [h EXCEPT !.finalized = TRUE]
    IN IF h.offset > 0 THEN CutPiece(g) ELSE g

PieceCount(h) == h.pieceIndex

-----------------------------------------------------------------------------
(* buildHybridSingleFileInfo *)

NewLayers(pieceLength) ==
    [pieceLength |-> pieceLength, remaining |-> pieceLength, from |-> 0, at |-> 0,
     hashes |-> <<>>]

CutLayer(l) ==
    [l EXCEPT !.hashes = Append(@, <<l.from, l.at>>), !.from = l.at,
              !.remaining = l.pieceLength]

\* One turn of the loop over a buffer of which n bytes are left.
Chunk(l, n) == IF n > l.remaining THEN l.remaining ELSE n

LayerTurn(l, n) ==
    LET g == [l EXCEPT !.remaining = @ - Chunk(l, n), !.at = @ + Chunk(l, n)]
    IN IF g.remaining = 0 THEN CutLayer(g) ELSE g

\* A buffer of n bytes has been read.
ReadBuffer(l, n) ==
    LET after[k \in 0..n] ==
          IF k = 0 THEN [layers |-> l, offset |-> 0]
          ELSE LET s == after[k - 1]
               IN IF s.offset = n THEN s
                  ELSE [layers |-> LayerTurn(s.layers, n - s.offset),
                        offset |-> s.offset + Chunk(s.layers, n - s.offset)]
    IN after[n].layers

\* The end of the file: the tail, unless the torrent is of length 0.
CutTail(l, length) ==
    IF length > 0 /\ l.remaining # l.pieceLength THEN CutLayer(l) ELSE l

\* What metainfo's BuildFromFilePath and the merkle hashers are relied on for: piece j of a
\* stream of `length` bytes ends at its size or with the stream.
PieceNumbers(length, size) == {j \in 1..length : (j - 1) * size < length}
PieceEnd(j, length, size) == IF j * size < length THEN j * size ELSE length
Pieces(length, size) ==
    [j \in PieceNumbers(length, size) |-> <<(j - 1) * size, PieceEnd(j, length, size)>>]

\* The torrent of a file of `size` bytes: v1 pieces and length come from the caller, who gives
\* `fileSize` 0 when he does not know it, or else from the file; l are the layers after it has
\* been read, of the piece length that goes with that length. A file of one piece is its own
\* root and has no layer.
InfoLength(given, fileSize, size) == IF given # <<>> /\ fileSize > 0 THEN fileSize ELSE size

HybridInfo(given, fileSize, size, l) ==
    LET length == InfoLength(given, fileSize, size)
    IN [pieceLength |-> ChoosePieceSize(length),
        length |-> length,
        pieces |-> IF given # <<>> THEN given ELSE Pieces(size, ChoosePieceSize(length)),
        layer  |-> IF length > ChoosePieceSize(length) THEN CutTail(l, length).hashes ELSE <<>>,
        root   |-> IF length > ChoosePieceSize(length) THEN CutTail(l, length).hashes
                   ELSE <<<<0, size>>>>]
=============================================================================
