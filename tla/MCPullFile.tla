----------------------------- MODULE MCPullFile -----------------------------
\* TLC instance of PullFile: a branch that may move once. The hashers, which PullFile takes to
\* hash the file, are compared with their reference once, on small files: pieces of 1 to 4
\* bytes, and the torrent's own of 2 MiB with a MiB of 2 bytes, written and read in every way.
EXTENDS PullFile, PieceHashing

MaxLength == 9

\* The ways to write n bytes.
Splits[n \in 0..MaxLength] ==
    IF n = 0 THEN {<<>>} ELSE UNION {{Append(s, k) : s \in Splits[n - k]} : k \in 1..n}

\* Those in which a buffer of 1 MiB fills.
Reads(n) == {s \in Splits[n] : \A i \in DOMAIN s : s[i] <= 2}

Hashed(size, split) ==
    LET h[i \in 0..Len(split)] ==
          IF i = 0 THEN NewPieceHasher(size) ELSE Write(h[i - 1], split[i])
    IN Finalize(h[Len(split)])

Layered(size, split) ==
    LET l[i \in 0..Len(split)] ==
          IF i = 0 THEN NewLayers(size) ELSE ReadBuffer(l[i - 1], split[i])
    IN l[Len(split)]

\* However a stream is written, PieceHasher cuts it as BuildFromFilePath does
\* (piece_hasher_test.go:94-98), and counts the pieces.
ASSUME StreamingAgrees ==
    \A n \in 0..MaxLength, size \in 1..4 : \A s \in Splits[n] :
        /\ Hashed(size, s).pieces = Pieces(n, size)
        /\ PieceCount(Hashed(size, s)) = Len(Pieces(n, size))

\* The torrent of a file whose pieces were streamed or not, its size given or not, has v2
\* layers that go with its v1 pieces (engine.go:1226).
ASSUME HybridAgrees ==
    \A n \in 0..MaxLength : \A s \in Reads(n) :
        \A given \in {<<>>, Hashed(ChoosePieceSize(n), s).pieces}, size \in {0, n} :
            LET info == HybridInfo(given, size, n, Layered(ChoosePieceSize(n), s))
            IN /\ info.pieces = Pieces(n, info.pieceLength)
               /\ info.layer \in {info.pieces, <<>>}
               /\ info.root = IF n > 0 THEN info.pieces ELSE <<<<0, 0>>>>

\* Pieces streamed at LanPieceLen, as NewPieceHasher's comment has it
\* (piece_hasher.go:29), do not go with the torrent of a file of two pieces.
ASSUME LanPieceLenDisagrees ==
    LET given == Hashed(LanPieceLen, <<8>>).pieces
        info  == HybridInfo(given, 8, 8, Layered(ChoosePieceSize(8), <<2, 2, 2, 2>>))
    IN info.layer # info.pieces
=============================================================================
