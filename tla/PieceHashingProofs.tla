------------------------- MODULE PieceHashingProofs -------------------------
(***************************************************************************)
(* Proofs about PieceHashing: every turn of the loops of PieceHasher and   *)
(* of buildHybridSingleFileInfo leaves the pieces cut so far where they    *)
(* belong, whatever the piece size and the buffers; so the pieces of a     *)
(* whole stream are those of the reference, from either.                   *)
(***************************************************************************)
EXTENDS PieceHashing, TLAPS

\* The first k pieces.
Cuts(k, size) == [j \in 1..k |-> <<(j - 1) * size, j * size>>]

\* All of a stream up to a byte of piece k + 1 has been cut into pieces of `size`.
Hasher ==
    [pieceSize: Nat \ {0}, offset: Nat, pieceIndex: Nat, from: Nat, at: Nat,
     pieces: Seq(Nat \X Nat), finalized: BOOLEAN]

Aligned(h) ==
    /\ h \in Hasher /\ h.offset < h.pieceSize
    /\ h.from = h.pieceIndex * h.pieceSize /\ h.at = h.from + h.offset
    /\ h.pieces = Cuts(h.pieceIndex, h.pieceSize)

Layers ==
    [pieceLength: Nat \ {0}, remaining: Nat \ {0}, from: Nat, at: Nat, hashes: Seq(Nat \X Nat)]

\* The same of the layers, k of which have been cut.
LayersAligned(l, k) ==
    /\ l \in Layers /\ l.remaining <= l.pieceLength
    /\ l.from = k * l.pieceLength /\ l.at = l.from + (l.pieceLength - l.remaining)
    /\ l.hashes = Cuts(k, l.pieceLength)

-----------------------------------------------------------------------------
(* Pieces *)

\* Multiplication by a size is monotone.
LEMMA TimesMonotone ==
  ASSUME NEW a \in Nat, NEW b \in Nat, a <= b, NEW size \in Nat
  PROVE  a * size <= b * size
  OBVIOUS

\* One more piece.
LEMMA Successor ==
  ASSUME NEW k \in Nat, NEW size \in Nat
  PROVE  (k + 1) * size = k * size + size /\ k * size \in Nat
  OBVIOUS

\* A sequence with one more element, position by position.
LEMMA Extended ==
  ASSUME NEW T, NEW s \in Seq(T), NEW e \in T, NEW k \in Nat, Len(s) = k
  PROVE  Append(s, e) = [j \in 1..(k + 1) |-> IF j <= k THEN s[j] ELSE e]
<1> DEFINE a == Append(s, e)
<1>1. a \in Seq(T) /\ Len(a) = k + 1
      /\ \A j \in 1..(k + 1) : a[j] = IF j <= k THEN s[j] ELSE e
  OBVIOUS
<1> HIDE DEF a
<1>2. a = [j \in 1..(k + 1) |-> a[j]]
  BY <1>1
<1>3. QED
  BY <1>1, <1>2 DEF a

\* A whole piece is appended.
LEMMA CutsExtend ==
  ASSUME NEW k \in Nat, NEW size \in Nat \ {0}
  PROVE  /\ Cuts(k, size) \in Seq(Nat \X Nat) /\ Len(Cuts(k, size)) = k
         /\ Append(Cuts(k, size), <<k * size, (k + 1) * size>>) = Cuts(k + 1, size)
<1>1. \A j \in 1..(k + 1) : (j - 1) * size \in Nat /\ j * size \in Nat
  BY Successor
<1>2. Cuts(k, size) \in Seq(Nat \X Nat) /\ Len(Cuts(k, size)) = k
  BY <1>1 DEF Cuts
<1> DEFINE last == <<k * size, (k + 1) * size>>
<1>3. Cuts(k + 1, size) = [j \in 1..(k + 1) |-> IF j <= k THEN Cuts(k, size)[j] ELSE last]
  BY DEF Cuts
<1> HIDE DEF last
<1>4. QED
  <2>1. last \in Nat \X Nat
    BY Successor DEF last
  <2>2. Append(Cuts(k, size), last) = Cuts(k + 1, size)
    <3>1. Append(Cuts(k, size), last)
            = [j \in 1..(k + 1) |-> IF j <= k THEN Cuts(k, size)[j] ELSE last]
      BY <1>2, <2>1, Extended
    <3>2. QED
      BY <1>3, <3>1, Zenon
  <2>3. QED
    BY <1>2, <2>2 DEF last

\* The pieces of a stream that ends r bytes into piece k + 1.
LEMMA NumbersOf ==
  ASSUME NEW k \in Nat, NEW size \in Nat \ {0}, NEW r \in 0..(size - 1)
  PROVE  PieceNumbers(k * size + r, size) = 1..(IF r > 0 THEN k + 1 ELSE k)
<1> DEFINE n == k * size + r
<1>1. n \in Nat /\ k * size \in Nat /\ k <= k * size
  <2>1. k * 1 <= k * size
    BY TimesMonotone
  <2>2. QED
    BY <2>1, Successor
<1>2. ASSUME NEW j \in 1..k PROVE (j - 1) * size < n /\ j <= n
  <2>1. j * size <= k * size /\ j * size = (j - 1) * size + size
    BY TimesMonotone, Successor
  <2>2. QED
    BY <1>1, <2>1
<1>3. ASSUME NEW j \in Nat, j > k + 1 PROVE ~((j - 1) * size < n)
  <2>1. (k + 1) * size <= (j - 1) * size /\ (k + 1) * size = k * size + size
    BY <1>3, TimesMonotone, Successor
  <2>2. (j - 1) * size \in Int
    BY <1>3
  <2>3. QED
    BY <1>1, <2>1, <2>2
<1>4. (k + 1 - 1) * size = k * size
  OBVIOUS
<1>5. (k * size < n <=> r > 0) /\ (r > 0 => k + 1 <= n)
  BY <1>1
<1>6. QED
  BY <1>1, <1>2, <1>3, <1>4, <1>5 DEF PieceNumbers

\* A stream that ends with a piece, ...
LEMMA WholePieces ==
  ASSUME NEW k \in Nat, NEW size \in Nat \ {0}
  PROVE  Pieces(k * size, size) = Cuts(k, size)
<1>1. k * size + 0 = k * size /\ k * size \in Nat
  BY Successor
<1>2. PieceNumbers(k * size, size) = 1..k
  BY <1>1, NumbersOf
<1>3. ASSUME NEW j \in 1..k PROVE PieceEnd(j, k * size, size) = j * size
  <2>1. j * size <= k * size
    BY TimesMonotone
  <2>2. j * size \in Nat
    BY Successor
  <2>3. QED
    BY <1>1, <2>1, <2>2 DEF PieceEnd
<1>4. QED
  BY <1>2, <1>3 DEF Pieces, Cuts

\* ... and one that ends within.
LEMMA PartialPiece ==
  ASSUME NEW k \in Nat, NEW size \in Nat \ {0}, NEW r \in 1..(size - 1)
  PROVE  Pieces(k * size + r, size) = Append(Cuts(k, size), <<k * size, k * size + r>>)
<1> DEFINE n == k * size + r
<1>1. n \in Nat /\ k * size \in Nat
  BY Successor
<1>2. PieceNumbers(n, size) = 1..(k + 1)
  <2>1. r \in 0..(size - 1) /\ r > 0
    OBVIOUS
  <2>2. QED
    BY <2>1, NumbersOf
<1>3. ASSUME NEW j \in 1..k PROVE PieceEnd(j, n, size) = j * size
  <2>1. j * size <= k * size /\ j * size \in Nat
    BY TimesMonotone, Successor
  <2>2. QED
    BY <1>1, <2>1 DEF PieceEnd
<1>4. PieceEnd(k + 1, n, size) = n
  BY <1>1, Successor DEF PieceEnd
<1>5. (k + 1 - 1) * size = k * size
  OBVIOUS
<1>6. Pieces(n, size) = [j \in 1..(k + 1) |->
                           IF j <= k THEN Cuts(k, size)[j] ELSE <<k * size, n>>]
  <2>1. Pieces(n, size) = [j \in 1..(k + 1) |-> <<(j - 1) * size, PieceEnd(j, n, size)>>]
    BY <1>2 DEF Pieces
  <2>2. ASSUME NEW j \in 1..(k + 1)
        PROVE  <<(j - 1) * size, PieceEnd(j, n, size)>> =
                 IF j <= k THEN Cuts(k, size)[j] ELSE <<k * size, n>>
    <3>1. CASE j <= k
      <4>1. j \in 1..k
        BY <3>1
      <4>2. QED
        BY <1>3, <3>1, <4>1 DEF Cuts
    <3>2. CASE j = k + 1
      BY <1>4, <1>5, <3>2
    <3>3. QED
      BY <3>1, <3>2
  <2>3. QED
    BY <2>1, <2>2
<1>7. Cuts(k, size) \in Seq(Nat \X Nat) /\ Len(Cuts(k, size)) = k
  BY CutsExtend DEF Cuts
<1>8. <<k * size, n>> \in Nat \X Nat
  BY <1>1
<1>9. QED
  BY <1>6, <1>7, <1>8, Extended DEF n

-----------------------------------------------------------------------------
(* PieceHasher *)

\* A new hasher has cut nothing.
THEOREM NewIsAligned ==
  ASSUME NEW size \in Nat \ {0}
  PROVE  Aligned(NewPieceHasher(size))
<1>1. Cuts(0, size) = <<>> /\ 0 * size = 0
  BY DEF Cuts
<1>2. QED
  BY <1>1 DEF Aligned, Hasher, NewPieceHasher

\* Each turn of Write's loop takes some of the bytes that are left, and leaves the pieces
\* aligned (piece_hasher.go:51-71).
THEOREM TurnIsAligned ==
  ASSUME NEW h, Aligned(h), ~h.finalized, NEW n \in Nat \ {0}
  PROVE  /\ Aligned(Turn(h, n)) /\ ~Turn(h, n).finalized
         /\ Turn(h, n).pieceSize = h.pieceSize
         /\ Taken(h, n) \in 1..n /\ Turn(h, n).at = h.at + Taken(h, n)
<1> DEFINE t == Taken(h, n)
           k == h.pieceIndex
           size == h.pieceSize
           g == [h EXCEPT !.offset = @ + t, !.at = @ + t]
<1>1. /\ h \in Hasher /\ h.offset < size /\ k \in Nat /\ size \in Nat \ {0}
      /\ k = h.pieceIndex /\ size = h.pieceSize /\ h.pieces = Cuts(k, size)
      /\ h.from = k * size /\ h.at = h.from + h.offset
  BY DEF Aligned, Hasher
<1>2. t \in 1..n /\ t \in Nat /\ h.offset + t <= size
  BY <1>1 DEF Taken, Hasher
<1>3. Turn(h, n) = IF g.offset = g.pieceSize THEN CutPiece(g) ELSE g
  BY DEF Turn
<1> HIDE DEF t, k, size
<1>4. /\ g \in Hasher /\ g.offset = h.offset + t /\ g.at = h.at + t
      /\ g.pieceSize = size /\ g.pieceIndex = k /\ g.from = h.from /\ g.pieces = h.pieces
      /\ g.finalized = h.finalized
  <2>1. h.offset + t \in Nat /\ h.at + t \in Nat
    <3>1. h.offset \in Nat /\ h.at \in Nat
      BY <1>1 DEF Hasher
    <3>2. QED
      BY <1>2, <3>1
  <2>2. g = [h EXCEPT !.offset = h.offset + t, !.at = h.at + t]
    OBVIOUS
  <2> HIDE DEF g
  <2>3. g \in Hasher
    BY <1>1, <2>1, <2>2 DEF Hasher
  <2>4. QED
    BY <1>1, <2>2, <2>3 DEF Hasher
<1> HIDE DEF g
<1>5. h.offset \in Nat /\ h.at \in Nat /\ h.from \in Nat /\ g.offset \in Nat
  BY <1>1, <1>4 DEF Hasher
<1>6. CASE g.offset # size
  <2>1. Turn(h, n) = g
    BY <1>3, <1>4, <1>6
  <2>2. g.at = g.from + g.offset /\ g.offset < size
    BY <1>1, <1>2, <1>4, <1>5, <1>6
  <2>3. Aligned(g)
    BY <1>1, <1>4, <2>2 DEF Aligned
  <2>4. QED
    BY <1>1, <1>2, <1>4, <2>1, <2>3 DEF t
<1>7. CASE g.offset = size
  <2> DEFINE c == CutPiece(g)
  <2>1. Turn(h, n) = c
    BY <1>3, <1>4, <1>7
  <2>2. g.from = k * size /\ g.at = (k + 1) * size
    BY <1>1, <1>2, <1>4, <1>5, <1>7, Successor
  <2>3. /\ c.pieces = Append(h.pieces, <<g.from, g.at>>) /\ c.from = g.at /\ c.at = g.at
        /\ c.offset = 0 /\ c.pieceIndex = k + 1 /\ c.pieceSize = size
        /\ c.finalized = h.finalized
    BY <1>4 DEF CutPiece, Hasher
  <2>4. Append(Cuts(k, size), <<k * size, (k + 1) * size>>) = Cuts(k + 1, size)
        /\ Cuts(k + 1, size) \in Seq(Nat \X Nat)
    <3>1. k + 1 \in Nat
      BY <1>1
    <3>2. QED
      BY <1>1, <3>1, CutsExtend
  <2>5. c.pieces = Cuts(k + 1, size) /\ c.pieces \in Seq(Nat \X Nat)
    BY <1>1, <2>2, <2>3, <2>4
  <2>6. c = [g EXCEPT !.pieces = c.pieces, !.from = g.at, !.offset = 0, !.pieceIndex = k + 1]
    BY <1>4 DEF CutPiece, Hasher
  <2>7. g.at \in Nat /\ k + 1 \in Nat
    <3>1. g.at \in Nat
      BY <1>4 DEF Hasher
    <3>2. QED
      BY <1>1, <3>1
  <2> HIDE DEF c
  <2>8. c \in Hasher
    <3>1. 0 \in Nat /\ g \in Hasher
      BY <1>4
    <3>2. QED
      BY <2>5, <2>6, <2>7, <3>1 DEF Hasher
  <2>9. Aligned(c)
    <3>1. c.pieceSize = size /\ c.pieceIndex = k + 1 /\ c.offset = 0 /\ 0 < size
      BY <1>1, <2>3
    <3>2. c.from = (k + 1) * size /\ c.at = c.from + 0
      BY <2>2, <2>3, <2>7
    <3>3. QED
      BY <2>5, <2>8, <3>1, <3>2 DEF Aligned
  <2>10. c.at = h.at + t /\ c.pieceSize = h.pieceSize /\ c.finalized = h.finalized
    BY <1>1, <1>4, <2>3
  <2>11. QED
    BY <1>2, <2>1, <2>9, <2>10 DEF t
<1>8. QED
  BY <1>6, <1>7

\* Finalize gives the pieces of what was written, counted (piece_hasher.go:75-93): those
\* BuildFromFilePath cuts.
THEOREM FinalizeIsReference ==
  ASSUME NEW h, Aligned(h), ~h.finalized
  PROVE  /\ Finalize(h).pieces = Pieces(h.at, h.pieceSize)
         /\ PieceCount(Finalize(h)) = Len(Finalize(h).pieces)
<1> DEFINE k == h.pieceIndex
           size == h.pieceSize
           g == [h EXCEPT !.finalized = TRUE]
<1>1. /\ h \in Hasher /\ h.offset \in 0..(size - 1) /\ k \in Nat /\ size \in Nat \ {0}
      /\ h.from = k * size /\ h.at = k * size + h.offset /\ h.pieces = Cuts(k, size)
      /\ size = h.pieceSize
  BY DEF Aligned, Hasher
<1>2. /\ g.at = h.at /\ g.from = h.from /\ g.pieces = h.pieces /\ g.pieceIndex = k
      /\ g \in Hasher
  BY <1>1 DEF Hasher
<1>3. Finalize(h) = IF h.offset > 0 THEN CutPiece(g) ELSE g
  BY DEF Finalize
<1> HIDE DEF k, size, g
<1>4. Len(Cuts(k, size)) = k /\ Cuts(k, size) \in Seq(Nat \X Nat) /\ k * size \in Nat
  BY <1>1, CutsExtend, Successor
<1>5. CASE h.offset > 0
  <2>1. Finalize(h) = CutPiece(g)
    BY <1>3, <1>5
  <2>2. CutPiece(g).pieces = Append(Cuts(k, size), <<k * size, k * size + h.offset>>)
    BY <1>1, <1>2 DEF CutPiece, Hasher
  <2>3. CutPiece(g).pieceIndex = k + 1
    BY <1>2 DEF CutPiece, Hasher
  <2>4. CutPiece(g).pieces = Pieces(h.at, size)
    <3>1. h.offset \in 1..(size - 1) /\ size \in Nat \ {0}
      BY <1>1, <1>5
    <3>2. Pieces(k * size + h.offset, size)
            = Append(Cuts(k, size), <<k * size, k * size + h.offset>>)
      BY <1>1, <3>1, PartialPiece
    <3>3. k * size + h.offset = h.at
      BY <1>1
    <3>4. QED
      BY <2>2, <3>2, <3>3, Zenon
  <2>5. Len(CutPiece(g).pieces) = k + 1
    BY <1>1, <1>4, <2>2
  <2>6. QED
    BY <1>1, <2>1, <2>3, <2>4, <2>5 DEF PieceCount
<1>6. CASE h.offset = 0
  <2>1. Finalize(h) = g
    BY <1>3, <1>1, <1>6
  <2>2. h.at = k * size
    BY <1>1, <1>4, <1>6
  <2>3. QED
    BY <1>1, <1>2, <1>4, <2>1, <2>2, WholePieces DEF PieceCount
<1>7. QED
  BY <1>1, <1>5, <1>6

-----------------------------------------------------------------------------
(* The v2 layers *)

\* Before the file is read there are none.
THEOREM NewLayersAreAligned ==
  ASSUME NEW size \in Nat \ {0}
  PROVE  LayersAligned(NewLayers(size), 0)
<1>1. Cuts(0, size) = <<>> /\ 0 * size = 0
  BY DEF Cuts
<1>2. QED
  BY <1>1 DEF LayersAligned, Layers, NewLayers

\* Each turn over a buffer takes some bytes, and cuts a layer exactly at the end of a piece
\* (engine.go:1267-1284).
THEOREM LayerTurnIsAligned ==
  ASSUME NEW k \in Nat, NEW l, LayersAligned(l, k), NEW n \in Nat \ {0}
  PROVE  /\ \E m \in {k, k + 1} : LayersAligned(LayerTurn(l, n), m)
         /\ LayerTurn(l, n).pieceLength = l.pieceLength
         /\ Chunk(l, n) \in 1..n /\ LayerTurn(l, n).at = l.at + Chunk(l, n)
<1> DEFINE t == Chunk(l, n)
           size == l.pieceLength
           g == [l EXCEPT !.remaining = @ - t, !.at = @ + t]
<1>1. /\ l \in Layers /\ l.remaining \in 1..size /\ size \in Nat \ {0} /\ size = l.pieceLength
      /\ l.from = k * size /\ l.at = k * size + (size - l.remaining)
      /\ l.hashes = Cuts(k, size) /\ l.at \in Nat
  BY DEF LayersAligned, Layers
<1>2. t \in 1..n /\ t \in Nat /\ l.remaining - t \in Nat
  BY <1>1 DEF Chunk
<1>3. LayerTurn(l, n) = IF g.remaining = 0 THEN CutLayer(g) ELSE g
  BY DEF LayerTurn
<1> HIDE DEF t, size
<1>4. /\ g = [l EXCEPT !.remaining = l.remaining - t, !.at = l.at + t]
      /\ g.remaining = l.remaining - t /\ g.at = l.at + t
      /\ g.pieceLength = size /\ g.from = l.from /\ g.hashes = l.hashes
  BY <1>1 DEF Layers
<1> HIDE DEF g
<1>5. k * size \in Nat
  BY <1>1, Successor
<1>6. CASE g.remaining # 0
  <2>1. LayerTurn(l, n) = g
    BY <1>3, <1>6
  <2>2. l.remaining - t \in Nat \ {0} /\ l.at + t \in Nat
    BY <1>1, <1>2, <1>4, <1>6
  <2>3. g \in Layers
    BY <1>1, <1>4, <2>2 DEF Layers
  <2>4. g.remaining <= size /\ g.at = g.from + (size - g.remaining)
    <3>1. ASSUME NEW base \in Nat, NEW left \in 1..size, left - t \in Nat
          PROVE  left - t <= size /\ base + (size - left) + t = base + (size - (left - t))
      BY <1>1, <1>2
    <3>2. QED
      BY <1>1, <1>2, <1>4, <1>5, <3>1
  <2>5. LayersAligned(g, k)
    BY <1>1, <1>4, <2>3, <2>4 DEF LayersAligned
  <2>6. QED
    BY <1>1, <1>2, <1>4, <2>1, <2>5 DEF t
<1>7. CASE g.remaining = 0
  <2> DEFINE c == CutLayer(g)
  <2>1. LayerTurn(l, n) = c
    BY <1>3, <1>7
  <2>2. g.from = k * size /\ g.at = (k + 1) * size /\ g.at \in Nat
    BY <1>1, <1>2, <1>4, <1>5, <1>7, Successor
  <2>3. Append(Cuts(k, size), <<k * size, (k + 1) * size>>) = Cuts(k + 1, size)
        /\ Cuts(k + 1, size) \in Seq(Nat \X Nat)
    <3>1. k + 1 \in Nat
      OBVIOUS
    <3>2. QED
      BY <1>1, <3>1, CutsExtend
  <2>4. g.hashes = Cuts(k, size) /\ Append(g.hashes, <<g.from, g.at>>) = Cuts(k + 1, size)
    BY <1>1, <1>4, <2>2, <2>3
  <2>5. c = [pieceLength |-> size, remaining |-> size, from |-> g.at, at |-> g.at,
             hashes |-> Cuts(k + 1, size)]
    <3>1. g = [pieceLength |-> size, remaining |-> l.remaining - t, from |-> l.from,
               at |-> l.at + t, hashes |-> l.hashes]
      BY <1>1, <1>4 DEF Layers
    <3>2. c = [g EXCEPT !.hashes = Cuts(k + 1, size), !.from = g.at, !.remaining = size]
      BY <1>4, <2>4 DEF CutLayer
    <3>3. QED
      BY <3>1, <3>2
  <2> HIDE DEF c
  <2>6. c \in Layers
    BY <1>1, <2>2, <2>3, <2>5 DEF Layers
  <2>7. c.from = (k + 1) * size /\ c.at = c.from + (size - size)
    BY <1>1, <2>2, <2>5
  <2>8. LayersAligned(c, k + 1)
    BY <1>1, <2>5, <2>6, <2>7 DEF LayersAligned
  <2>9. QED
    BY <1>1, <1>2, <1>4, <2>1, <2>5, <2>8 DEF t
<1>8. QED
  BY <1>6, <1>7

\* At the end of the file the layers are the pieces of what was read
\* (engine.go:1294-1302), ...
THEOREM TailIsReference ==
  ASSUME NEW k \in Nat, NEW l, LayersAligned(l, k), NEW length \in Nat \ {0}
  PROVE  CutTail(l, length).hashes = Pieces(l.at, l.pieceLength)
<1> DEFINE size == l.pieceLength
<1>1. /\ l \in Layers /\ l.remaining \in 1..size /\ size \in Nat \ {0} /\ size = l.pieceLength
      /\ l.from = k * size /\ l.at = k * size + (size - l.remaining)
      /\ l.hashes = Cuts(k, size)
  BY DEF LayersAligned, Layers
<1> HIDE DEF size
<1>2. k * size \in Nat
  BY <1>1, Successor
<1>3. CASE l.remaining = size
  <2>1. CutTail(l, length) = l /\ l.at = k * size
    BY <1>1, <1>2, <1>3 DEF CutTail
  <2>2. QED
    BY <1>1, <2>1, WholePieces
<1>4. CASE l.remaining # size
  <2>1. CutTail(l, length) = CutLayer(l)
    BY <1>1, <1>4 DEF CutTail
  <2>2. CutLayer(l).hashes = Append(Cuts(k, size), <<k * size, l.at>>)
    BY <1>1 DEF CutLayer, Layers
  <2>3. PICK r \in 1..(size - 1) : r = size - l.remaining
    BY <1>1, <1>4
  <2>4. l.at = k * size + r
    BY <1>1, <2>3
  <2>5. Pieces(k * size + r, size) = Append(Cuts(k, size), <<k * size, k * size + r>>)
    BY <1>1, PartialPiece
  <2>6. QED
    BY <1>1, <2>1, <2>2, <2>4, <2>5
<1>5. QED
  BY <1>3, <1>4

\* ... so those that go with the pieces of a hasher that has written the same bytes at the
\* same size: a hybrid torrent describes one file (engine.go:1226).
THEOREM HybridIsConsistent ==
  ASSUME NEW h, Aligned(h), ~h.finalized, NEW k \in Nat, NEW l, LayersAligned(l, k),
         h.pieceSize = l.pieceLength, h.at = l.at, NEW length \in Nat \ {0}
  PROVE  CutTail(l, length).hashes = Finalize(h).pieces
  BY FinalizeIsReference, TailIsReference

-----------------------------------------------------------------------------
(* The piece size *)

\* A larger file never has smaller pieces, ...
THEOREM PieceSizeMonotone ==
  ASSUME NEW a \in Nat, NEW b \in Nat, a <= b
  PROVE  /\ ChoosePieceSize(a) \in Nat \ {0}
         /\ ChoosePieceSize(a) <= ChoosePieceSize(b)
  BY MiBPositive DEF ChoosePieceSize, GiB

\* ... and up to 160 GiB a piece list has at most 10240 entries: "large files use 16 MiB
\* pieces to cap the piece-hash list size" (engine.go:44-45).
THEOREM PieceListCapped ==
  ASSUME NEW n \in Nat, n <= 160 * GiB
  PROVE  n <= 10240 * ChoosePieceSize(n)
  BY MiBPositive DEF ChoosePieceSize, GiB
=============================================================================
