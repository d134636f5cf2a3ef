-------------------------- MODULE ScalarTextProofs --------------------------
(***************************************************************************)
(* The scanners find the first byte that stops them, for every size of     *)
(* vector, every threshold, with and without the kernels, on slices of any *)
(* length.  With them, strings of any length and any bytes: what           *)
(* writeQuoted writes, parseString reads as that string.  And string       *)
(* literals of any fragments, whole or cut short: parseString reads what   *)
(* they mean, or reports an error.                                         *)
(***************************************************************************)
EXTENDS ScalarText, SequenceFacts

-----------------------------------------------------------------------------
(* The scanners.                                                           *)

\* A lane of a vector step decides what the byte loop decides: with the bias the
\* signed comparison of VPCMPGTB is the unsigned one (escapeIndexAVX2).
LEMMA LaneIsStops ==
    ASSUME NEW k \in Kinds, NEW c \in Byte
    PROVE  Lane(k, c) <=> Stops(k, c)
<1>1. Signed(160) = -96
  BY DEF Signed
<1>2. CASE c < 128
  <2>1. (c + 128) % 256 = c + 128
    BY <1>2 DEF Byte
  <2>2. Signed((c + 128) % 256) = c - 128
    BY <1>2, <2>1 DEF Signed, Byte
  <2> QED
    BY <1>1, <2>2 DEF Lane, Stops, Byte
<1>3. CASE c >= 128
  <2>1. (c + 128) % 256 = c - 128
    BY <1>3 DEF Byte
  <2>2. Signed((c + 128) % 256) = c - 128
    BY <1>3, <2>1 DEF Signed, Byte
  <2> QED
    BY <1>1, <1>3, <2>2 DEF Lane, Stops, Byte
<1> QED
  BY <1>2, <1>3 DEF Byte

\* BSFL of a vector with a hit: a lane that is set, and none below it is.
LEMMA LowestLane ==
    ASSUME NEW S \in SUBSET Nat, S # {}
    PROVE  Lowest(S) \in S /\ \A m \in S : Lowest(S) <= m
<1> DEFINE Less == {p \in Nat \X Nat : p[1] < p[2]}
<1>1. IsWellFoundedOn(Less, Nat)
  BY NatLessThanWellFounded DEF OpToRel
<1>2. PICK l \in S : \A m \in S : <<m, l>> \notin Less
  BY <1>1, WFMin
<1>3. \A m \in S : l <= m
  <2> TAKE m \in S
  <2>1. m \in Nat /\ l \in Nat
    OBVIOUS
  <2>2. m < l => <<m, l>> \in Less
    BY <2>1
  <2> QED
    BY <1>2, <2>1, <2>2
<1> QED
  BY <1>3 DEF Lowest

\* What holds between two steps of a scan: the bytes before the offset are plain,
\* and a scan that has ended before the end of the slice is at a byte that is not.
ScanInv ==
    /\ slice \in Seq(Byte)
    /\ kind \in Kinds
    /\ scan \in {"idle", "loop", "tail", "done"}
    /\ dx \in Nat
    /\ dx <= Len(slice)
    /\ \A i \in 1..dx : ~Stops(kind, slice[i])
    /\ (scan = "done" /\ dx < Len(slice)) => Stops(kind, slice[dx + 1])

\* A vector: every lane within it decides what the byte loop decides.
LEMMA VectorIsBytes ==
    ASSUME ScanInv, Len(slice) - dx >= Block
    PROVE  /\ Lanes(kind, slice, dx) \in SUBSET Nat
           /\ \A l \in 1..Block : l \in Lanes(kind, slice, dx) <=> Stops(kind, slice[dx + l])
<1> USE BlockAssumption
<1>1. \A l \in 1..Block : dx + l \in 1..Len(slice)
  BY DEF ScanInv
<1>2. \A l \in 1..Block : slice[dx + l] \in Byte
  BY <1>1 DEF ScanInv
<1>3. kind \in Kinds
  BY DEF ScanInv
<1>4. \A l \in 1..Block : Lane(kind, slice[dx + l]) <=> Stops(kind, slice[dx + l])
  BY <1>2, <1>3, LaneIsStops
<1> QED
  BY <1>4 DEF Lanes

LEMMA ScanInvInit == ScanInit => ScanInv
  BY DEF ScanInit, ScanInv, Kinds, Byte

LEMMA ScanInvNext == ScanInv /\ [ScanNext]_scanVars => ScanInv'
<1> USE BlockAssumption
<1> SUFFICES ASSUME ScanInv, [ScanNext]_scanVars
             PROVE  ScanInv'
  OBVIOUS
<1>1. CASE \E k \in Kinds : \E s \in Seq(Byte) : StartScan(k, s)
  <2>1. PICK k \in Kinds, s \in Seq(Byte) : StartScan(k, s)
    BY <1>1
  <2>2. Len(s) \in Nat
    BY <2>1
  <2> QED
    BY <2>1, <2>2 DEF StartScan, ScanInv
<1>2. CASE CleanBlock
  <2>1. dx' = dx + Block /\ dx' \in Nat /\ dx' <= Len(slice)
    BY <1>2 DEF CleanBlock, ScanInv
  <2>2. \A l \in 1..Block : ~Stops(kind, slice[dx + l])
    BY <1>2, VectorIsBytes DEF CleanBlock
  <2>3. \A i \in 1..dx' : i \notin 1..dx => i - dx \in 1..Block /\ i = dx + (i - dx)
    BY <2>1 DEF ScanInv
  <2>4. \A i \in 1..dx' : ~Stops(kind, slice[i])
    BY <2>2, <2>3 DEF ScanInv
  <2> QED
    BY <1>2, <2>1, <2>4 DEF CleanBlock, ScanInv
<1>3. CASE BlockFound
  <2> DEFINE low == Lowest(Lanes(kind, slice, dx))
  <2>1. low \in Lanes(kind, slice, dx) /\ \A m \in Lanes(kind, slice, dx) : low <= m
    BY <1>3, VectorIsBytes, LowestLane DEF BlockFound
  <2>2. low \in 1..Block
    BY <2>1 DEF Lanes
  <2> HIDE DEF low
  <2>3. dx' = dx + low - 1 /\ dx' \in Nat /\ dx' < Len(slice)
    BY <1>3, <2>2 DEF BlockFound, ScanInv, low
  <2>4. Stops(kind, slice[dx' + 1])
    <3>1. dx' + 1 = dx + low
      BY <2>2, <2>3 DEF ScanInv
    <3> QED
      BY <1>3, <2>1, <2>2, <3>1, VectorIsBytes DEF BlockFound
  <2>5. \A l \in 1..Block : l < low => ~Stops(kind, slice[dx + l])
    BY <1>3, <2>1, <2>2, VectorIsBytes DEF BlockFound
  <2>6. \A i \in 1..dx' : i \notin 1..dx =>
            i - dx \in 1..Block /\ i - dx < low /\ i = dx + (i - dx)
    BY <2>2, <2>3 DEF ScanInv
  <2>7. \A i \in 1..dx' : ~Stops(kind, slice[i])
    BY <2>5, <2>6 DEF ScanInv
  <2> QED
    BY <1>3, <2>3, <2>4, <2>7 DEF BlockFound, ScanInv
<1>4. CASE EnterTail
  BY <1>4 DEF EnterTail, ScanInv
<1>5. CASE CleanByte
  <2>1. dx' = dx + 1 /\ dx' \in Nat /\ dx' <= Len(slice)
    BY <1>5 DEF CleanByte, ScanInv
  <2>2. \A i \in 1..dx' : i \in 1..dx \/ i = dx + 1
    BY <2>1 DEF ScanInv
  <2> QED
    BY <1>5, <2>1, <2>2 DEF CleanByte, ScanInv
<1>6. CASE TailDone
  BY <1>6 DEF TailDone, ScanInv
<1>7. CASE scan = "done" /\ EndScan
  BY <1>7 DEF EndScan, ScanInv
<1>8. CASE UNCHANGED scanVars
  BY <1>8 DEF scanVars, ScanInv
<1> QED
  BY <1>1, <1>2, <1>3, <1>4, <1>5, <1>6, <1>7, <1>8 DEF ScanNext, ScanStep

\* escapeIndex and scanStringBody return the offset of the first byte that stops
\* the scan, or the length of the slice, whichever of their loops ran.
THEOREM ScannersExact == ScanSpec => []ScanExact
<1>1. ScanInv => ScanExact
  BY DEF ScanInv, ScanExact
<1> QED
  BY <1>1, ScanInvInit, ScanInvNext, PTL DEF ScanSpec
-----------------------------------------------------------------------------
(* Escapes.                                                                *)

Shorts == {34, 92, 10, 13, 9, 8, 12}

\* The reader takes every letter the writer uses for the byte it stands for, and
\* the u of the long form for none.
LEMMA ShortReads ==
    /\ DOMAIN ShortEscape = Shorts
    /\ \A c \in Shorts : /\ ShortEscape[c] \in Byte
                         /\ ShortEscape[c] \in DOMAIN ReadEscape
                         /\ ReadEscape[ShortEscape[c]] = c
                         /\ ShortEscape[c] # 117
    /\ 117 \notin DOMAIN ReadEscape
  BY DEF ShortEscape, ReadEscape, Shorts, Byte
-----------------------------------------------------------------------------
(* What a byte of a string is written as.                                  *)

Chunk(c) == IF Stops("escape", c) THEN EscapeOf(c) ELSE <<c>>

\* A plain byte is itself; the others are a backslash and a letter, or a
\* backslash, u and four digits, and no long form stands for a byte beyond 31.
LEMMA ChunkForms ==
    ASSUME NEW c \in Byte
    PROVE  /\ ~Stops("escape", c) => Chunk(c) = <<c>>
           /\ c \in Shorts => Stops("escape", c) /\ Chunk(c) = <<BSLASH, ShortEscape[c]>>
           /\ Stops("escape", c) /\ c \notin Shorts =>
                  /\ c \in 0..31
                  /\ Chunk(c) = <<BSLASH, 117, 48, 48, HexDigit(c \div 16), HexDigit(c % 16)>>
<1>1. ~Stops("escape", c) => Chunk(c) = <<c>>
  BY DEF Chunk
<1>2. c \in Shorts => Stops("escape", c) /\ Chunk(c) = <<BSLASH, ShortEscape[c]>>
  <2>1. c \in Shorts => Stops("escape", c)
    BY DEF Shorts, Stops, QUOTE, BSLASH
  <2> QED
    BY <2>1, ShortReads DEF Chunk, EscapeOf
<1>3. Stops("escape", c) /\ c \notin Shorts => c \in 0..31
  BY DEF Stops, Shorts, QUOTE, BSLASH, Byte
<1>4. Stops("escape", c) /\ c \notin Shorts =>
          Chunk(c) = <<BSLASH, 117, 48, 48, HexDigit(c \div 16), HexDigit(c % 16)>>
  BY ShortReads DEF Chunk, EscapeOf
<1> QED
  BY <1>1, <1>2, <1>3, <1>4

LEMMA HexDigits ==
    ASSUME NEW c \in 0..31
    PROVE  /\ HexDigit(c \div 16) \in Byte /\ HexDigit(c % 16) \in Byte
           /\ HexValue(HexDigit(c \div 16)) = c \div 16
           /\ HexValue(HexDigit(c % 16)) = c % 16
           /\ HexValue(48) = 0
           /\ c \div 16 \in 0..1 /\ c % 16 \in 0..15
           /\ 16 * (c \div 16) + (c % 16) = c
<1>1. c \div 16 \in 0..1 /\ c % 16 \in 0..15 /\ 16 * (c \div 16) + (c % 16) = c
  OBVIOUS
<1>2. \A d \in 0..15 : HexDigit(d) \in Byte /\ HexValue(HexDigit(d)) = d
  BY DEF HexDigit, HexValue, Digits, Byte
<1>3. HexValue(48) = 0
  BY DEF HexValue, Digits
<1> QED
  BY <1>1, <1>2, <1>3

LEMMA ChunkBytes ==
    ASSUME NEW c \in Byte
    PROVE  Chunk(c) \in Seq(Byte) /\ Len(Chunk(c)) \in Nat \ {0}
<1>1. BSLASH \in Byte /\ 117 \in Byte /\ 48 \in Byte
  BY DEF BSLASH, Byte
<1> DEFINE S == Byte
<1> HIDE DEF S
<1>2. CASE ~Stops("escape", c)
  <2>1. c \in S /\ Chunk(c) = <<c>>
    BY <1>2, ChunkForms DEF S
  <2>2. <<c>> \in Seq(S) /\ Len(<<c>>) = 1
    BY <2>1
  <2> QED
    BY <2>1, <2>2 DEF S
<1>3. CASE c \in Shorts
  <2> DEFINE e == ShortEscape[c]
  <2>1. e \in Byte /\ Chunk(c) = <<BSLASH, e>>
    BY <1>3, ChunkForms, ShortReads
  <2> HIDE DEF e
  <2>2. <<BSLASH, e>> \in Seq(S) /\ Len(<<BSLASH, e>>) = 2
    BY <1>1, <2>1 DEF S
  <2> QED
    BY <2>1, <2>2 DEF S
<1>4. CASE Stops("escape", c) /\ c \notin Shorts
  <2> DEFINE hi == HexDigit(c \div 16)
             lo == HexDigit(c % 16)
  <2>1. hi \in Byte /\ lo \in Byte /\ Chunk(c) = <<BSLASH, 117, 48, 48, hi, lo>>
    BY <1>4, ChunkForms, HexDigits
  <2> HIDE DEF hi, lo
  <2>2. hi \in S /\ lo \in S /\ BSLASH \in S /\ 117 \in S /\ 48 \in S
    BY <1>1, <2>1 DEF S
  <2>3. <<BSLASH, 117, 48, 48, hi, lo>> \in Seq(S) /\ Len(<<BSLASH, 117, 48, 48, hi, lo>>) = 6
    BY <2>2
  <2> QED
    BY <2>1, <2>3 DEF S
<1> QED
  BY <1>2, <1>3, <1>4

\* A control byte is a rune of one byte.
LEMMA AsciiRune ==
    ASSUME NEW c \in 0..31
    PROVE  Utf8(c) = <<c>>
  BY DEF Utf8

\* readHex4 and the case of \u read a control byte from its long form.
LEMMA LongRead ==
    ASSUME text \in Seq(Byte), NEW p \in Nat \ {0}, p + 3 <= Len(text), NEW c \in 0..31,
           text[p] = 48, text[p + 1] = 48,
           text[p + 2] = HexDigit(c \div 16), text[p + 3] = HexDigit(c % 16)
    PROVE  Unicode(p) = <<<<c>>, p + 4>>
<1>1. /\ HexValue(text[p + 0]) = 0 /\ HexValue(text[p + 1]) = 0
      /\ HexValue(text[p + 2]) = c \div 16 /\ HexValue(text[p + 3]) = c % 16
      /\ c \div 16 \in 0..1 /\ c % 16 \in 0..15 /\ 16 * (c \div 16) + (c % 16) = c
  <2>1. p + 0 = p
    OBVIOUS
  <2> QED
    BY <2>1, HexDigits
<1>2. \A i \in 0..3 : HexValue(text[p + i]) # -1
  <2>1. \A i \in 0..3 : i = 0 \/ i = 1 \/ i = 2 \/ i = 3
    OBVIOUS
  <2> QED
    BY <1>1, <2>1
<1>3. ~(p + 3 > Len(text))
  OBVIOUS
<1>4. Hex4(p) = 16 * (16 * (16 * HexValue(text[p + 0]) + HexValue(text[p + 1]))
                      + HexValue(text[p + 2])) + HexValue(text[p + 3])
  BY <1>2, <1>3 DEF Hex4
<1>5. Hex4(p) = c
  BY <1>1, <1>4
<1>6. c # -1 /\ ~IsHigh(c) /\ ~IsLow(c)
  BY DEF IsHigh, IsLow
<1>7. Utf8(c) = <<c>>
  BY AsciiRune
<1> QED
  BY <1>5, <1>6, <1>7 DEF Unicode
-----------------------------------------------------------------------------
(* A text of chunks.                                                       *)

\* The text b begins with a quote and then spells the first k bytes of w: cut
\* has the position of each one's chunk, and, last, the end of the last chunk.
Laid(w, k, b, cut, end) ==
    /\ cut \in [1..(k + 1) -> 2..end]
    /\ cut[1] = 2 /\ cut[k + 1] = end
    /\ end <= Len(b) + 1
    /\ b[1] = QUOTE
    /\ \A i \in 1..k : cut[i + 1] = cut[i] + Len(Chunk(w[i]))
    /\ \A i \in 1..k : \A j \in 1..Len(Chunk(w[i])) : b[cut[i] + j - 1] = Chunk(w[i])[j]

Spelt(w, k, b, end) == \E cut \in [1..(k + 1) -> 2..end] : Laid(w, k, b, cut, end)

\* Nothing is spelt by the quote alone.
LEMMA SpeltNothing ==
    ASSUME NEW w
    PROVE  Spelt(w, 0, <<QUOTE>>, Len(<<QUOTE>>) + 1)
<1> DEFINE cut == [i \in 1..1 |-> 2]
<1>1. Len(<<QUOTE>>) + 1 = 2 /\ <<QUOTE>>[1] = QUOTE /\ 0 + 1 = 1
  OBVIOUS
<1>2. cut \in [1..(0 + 1) -> 2..2] /\ cut[1] = 2 /\ 1..0 = {}
  BY <1>1
<1> HIDE DEF cut
<1>3. Laid(w, 0, <<QUOTE>>, cut, 2)
  BY <1>1, <1>2 DEF Laid
<1> QED
  BY <1>1, <1>2, <1>3 DEF Spelt

\* r is the bytes of w behind the first k, and none of them is escaped.
PlainPart(r, w, k) == \A i \in 1..Len(r) : r[i] = w[k + i] /\ ~Stops("escape", w[k + i])

\* Plain bytes at the end of the text spell themselves (writeQuoted copies a run).
LEMMA SpeltRun ==
    ASSUME NEW w \in Seq(Byte), NEW k \in Nat, NEW n \in Nat, k + n <= Len(w),
           NEW b \in Seq(Byte), Spelt(w, k, b, Len(b) + 1),
           NEW r \in Seq(Byte), Len(r) = n, PlainPart(r, w, k)
    PROVE  b \o r \in Seq(Byte) /\ Spelt(w, k + n, b \o r, Len(b \o r) + 1)
<1> DEFINE d == b \o r
<1>1. /\ d \in Seq(Byte) /\ Len(d) = Len(b) + n
      /\ \A i \in 1..Len(b) : d[i] = b[i]
      /\ \A i \in 1..n : d[Len(b) + i] = r[i]
      /\ Len(b) \in Nat /\ Len(w) \in Nat
  <2>1. /\ d \in Seq(Byte) /\ Len(d) = Len(b) + Len(r)
        /\ \A i \in 1..Len(b) : d[i] = b[i]
        /\ \A i \in 1..Len(r) : d[Len(b) + i] = r[i]
    <3>1. d \in Seq(Byte)
      BY ConcatParts, Zenon
    <3>2. Len(d) = Len(b) + Len(r)
      BY ConcatParts, Zenon
    <3>3. \A i \in 1..Len(b) : d[i] = b[i]
      BY ConcatParts, Zenon
    <3>4. ASSUME NEW i \in 1..Len(r) PROVE d[Len(b) + i] = r[i]
      BY ConcatParts
    <3> QED
      BY <3>1, <3>2, <3>3, <3>4, Zenon
  <2>2. Len(b) \in Nat /\ Len(w) \in Nat
    OBVIOUS
  <2> HIDE DEF d
  <2> QED
    BY <2>1, <2>2
<1> HIDE DEF d
<1> DEFINE e == Len(b) + 1
<1>2. PICK cut \in [1..(k + 1) -> 2..e] : Laid(w, k, b, cut, e)
  BY DEF Spelt
<1> DEFINE more == [i \in 1..(k + n + 1) |-> IF i <= k + 1 THEN cut[i] ELSE e + (i - (k + 1))]
<1>3. /\ cut[1] = 2 /\ cut[k + 1] = e /\ b[1] = QUOTE
      /\ \A i \in 1..k : cut[i + 1] = cut[i] + Len(Chunk(w[i]))
      /\ \A i \in 1..k : \A j \in 1..Len(Chunk(w[i])) : b[cut[i] + j - 1] = Chunk(w[i])[j]
      /\ \A i \in 1..(k + 1) : cut[i] \in 2..e
  BY <1>2 DEF Laid
<1>4. e \in Nat /\ e >= 2 /\ e = Len(b) + 1
  BY <1>1, <1>3
<1>5. /\ \A i \in 1..(k + 1) : more[i] = cut[i]
      /\ \A i \in (k + 1)..(k + n + 1) : more[i] = e + (i - (k + 1))
  <2> HIDE DEF e
  <2>1. \A i \in 1..(k + 1) : more[i] = cut[i]
    OBVIOUS
  <2>2. ASSUME NEW i \in (k + 1)..(k + n + 1) PROVE more[i] = e + (i - (k + 1))
    <3>1. i \in 1..(k + n + 1)
      OBVIOUS
    <3>2. CASE i = k + 1
      <4>1. more[i] = cut[k + 1] /\ e + (i - (k + 1)) = e
        BY <1>4, <3>1, <3>2
      <4> QED
        BY <1>3, <4>1
    <3>3. CASE i # k + 1
      <4>1. ~(i <= k + 1)
        BY <3>3
      <4> QED
        BY <3>1, <4>1
    <3> QED
      BY <3>2, <3>3
  <2> QED
    BY <2>1, <2>2
<1>6. more \in [1..(k + n + 1) -> 2..(e + n)]
  BY <1>3, <1>4
<1>7. \A i \in 1..(k + n) : Chunk(w[i]) \in Seq(Byte) /\ Len(Chunk(w[i])) \in Nat \ {0}
  <2>1. \A i \in 1..(k + n) : w[i] \in Byte
    BY <1>1
  <2> QED
    BY <2>1, ChunkBytes
<1>8. \A i \in (k + 1)..(k + n) : Chunk(w[i]) = <<w[i]>> /\ d[e + (i - (k + 1))] = w[i]
  <2> TAKE i \in (k + 1)..(k + n)
  <2>1. i - k \in 1..n /\ k + (i - k) = i /\ w[i] \in Byte
    BY <1>1
  <2>2. ~Stops("escape", w[i]) /\ r[i - k] = w[i]
    BY <2>1 DEF PlainPart
  <2>3. e + (i - (k + 1)) = Len(b) + (i - k)
    BY <1>1
  <2> QED
    BY <1>1, <2>1, <2>2, <2>3, ChunkForms
<1> HIDE DEF more, e
<1>9. \A i \in 1..(k + n) : more[i + 1] = more[i] + Len(Chunk(w[i]))
  <2> TAKE i \in 1..(k + n)
  <2>1. CASE i <= k
    <3>1. i \in 1..k /\ i \in 1..(k + 1) /\ i + 1 \in 1..(k + 1)
      BY <2>1
    <3> QED
      BY <1>3, <1>5, <3>1
  <2>2. CASE i > k
    <3>1. i \in (k + 1)..(k + n) /\ i \in (k + 1)..(k + n + 1) /\ i + 1 \in (k + 1)..(k + n + 1)
      BY <2>2
    <3>2. Len(Chunk(w[i])) = 1
      BY <1>8, <3>1
    <3>3. more[i] = e + (i - (k + 1)) /\ more[i + 1] = e + (i + 1 - (k + 1))
      BY <1>5, <3>1
    <3> QED
      BY <1>4, <3>2, <3>3
  <2> QED
    BY <2>1, <2>2
<1>10. \A i \in 1..(k + n) : \A j \in 1..Len(Chunk(w[i])) : d[more[i] + j - 1] = Chunk(w[i])[j]
  <2> TAKE i \in 1..(k + n)
  <2> TAKE j \in 1..Len(Chunk(w[i]))
  <2>1. Len(Chunk(w[i])) \in Nat
    BY <1>7
  <2>2. CASE i <= k
    <3>1. i \in 1..k /\ i \in 1..(k + 1) /\ i + 1 \in 1..(k + 1)
      BY <2>2
    <3>2. cut[i + 1] = cut[i] + Len(Chunk(w[i])) /\ cut[i] \in 2..e /\ cut[i + 1] \in 2..e
      BY <1>3, <3>1
    <3>3. cut[i] + j - 1 \in 1..Len(b)
      <4> DEFINE l == Len(Chunk(w[i]))
                 p == cut[i]
      <4>1. l \in Nat /\ p \in Nat /\ p >= 2 /\ p + l <= Len(b) + 1 /\ j \in 1..l
        BY SMTT(30), <1>4, <2>1, <3>2
      <4>2. Len(b) \in Nat
        BY <1>1
      <4> HIDE DEF l, p
      <4>3. p + j - 1 \in 1..Len(b)
        BY <4>1, <4>2
      <4> QED
        BY <4>3 DEF p
    <3>4. b[cut[i] + j - 1] = Chunk(w[i])[j] /\ more[i] = cut[i]
      BY <1>3, <1>5, <3>1
    <3> QED
      BY <1>1, <3>3, <3>4
  <2>3. CASE i > k
    <3>1. i \in (k + 1)..(k + n) /\ i \in (k + 1)..(k + n + 1)
      BY <2>3
    <3>2. Chunk(w[i]) = <<w[i]>> /\ d[e + (i - (k + 1))] = w[i]
      BY <1>8, <3>1
    <3>3. j = 1
      BY <3>2
    <3>4. more[i] = e + (i - (k + 1))
      BY <1>5, <3>1
    <3>5. more[i] + j - 1 = more[i] /\ Chunk(w[i])[j] = w[i]
      BY <1>4, <3>2, <3>3, <3>4
    <3> QED
      BY <3>2, <3>4, <3>5
  <2> QED
    BY <2>2, <2>3
<1>11. Len(d) + 1 = e + n /\ more[1] = 2 /\ more[k + n + 1] = e + n
  <2> DEFINE last == k + n + 1
  <2>1. 1 \in 1..(k + 1) /\ last \in (k + 1)..(k + n + 1) /\ last - (k + 1) = n
    OBVIOUS
  <2> HIDE DEF last
  <2>2. more[1] = cut[1] /\ more[last] = e + (last - (k + 1))
    BY <1>5, <2>1
  <2>3. more[1] = 2 /\ more[k + n + 1] = e + n
    BY <1>3, <2>1, <2>2 DEF last
  <2> QED
    BY <1>1, <1>4, <2>3
<1>12. d[1] = QUOTE
  <2>1. 1 \in 1..Len(b)
    BY <1>1, <1>4
  <2> QED
    BY <1>1, <1>3, <2>1
<1>13. Laid(w, k + n, d, more, e + n)
  BY <1>6, <1>9, <1>10, <1>11, <1>12 DEF Laid
<1> QED
  BY <1>1, <1>6, <1>11, <1>13 DEF Spelt, d

\* One more chunk at the end of the text spells one more byte.
LEMMA SpeltMore ==
    ASSUME NEW w \in Seq(Byte), NEW k \in Nat, k < Len(w),
           NEW b \in Seq(Byte), Spelt(w, k, b, Len(b) + 1)
    PROVE  LET d == b \o Chunk(w[k + 1])
           IN  d \in Seq(Byte) /\ Spelt(w, k + 1, d, Len(d) + 1)
<1> DEFINE r == Chunk(w[k + 1])
           d == b \o r
           n == Len(r)
<1>1. r \in Seq(Byte) /\ n \in Nat \ {0}
  BY ChunkBytes
<1> HIDE DEF r
<1>2. /\ d \in Seq(Byte) /\ Len(d) = Len(b) + n
      /\ \A i \in 1..Len(b) : d[i] = b[i]
      /\ \A i \in 1..n : d[Len(b) + i] = r[i]
      /\ Len(b) \in Nat /\ Len(w) \in Nat
  BY <1>1
<1> HIDE DEF d, n
<1> DEFINE e == Len(b) + 1
<1>3. PICK cut \in [1..(k + 1) -> 2..e] : Laid(w, k, b, cut, e)
  BY DEF Spelt
<1> DEFINE more == [i \in 1..(k + 1 + 1) |-> IF i <= k + 1 THEN cut[i] ELSE e + n]
<1>4. /\ cut[1] = 2 /\ cut[k + 1] = e /\ b[1] = QUOTE
      /\ \A i \in 1..k : cut[i + 1] = cut[i] + Len(Chunk(w[i]))
      /\ \A i \in 1..k : \A j \in 1..Len(Chunk(w[i])) : b[cut[i] + j - 1] = Chunk(w[i])[j]
      /\ \A i \in 1..(k + 1) : cut[i] \in 2..e
  BY <1>3 DEF Laid
<1>5. e \in Nat /\ e >= 2 /\ e = Len(b) + 1
  BY <1>2, <1>4
<1>6. (\A i \in 1..(k + 1) : more[i] = cut[i]) /\ more[k + 1 + 1] = e + n
  OBVIOUS
<1>7. more \in [1..(k + 1 + 1) -> 2..(e + n)]
  BY <1>1, <1>4, <1>5
<1>8. \A i \in 1..k : Len(Chunk(w[i])) \in Nat \ {0}
  <2>1. \A i \in 1..k : w[i] \in Byte
    BY <1>2
  <2> QED
    BY <2>1, ChunkBytes
<1> HIDE DEF more, e
<1>9. \A i \in 1..(k + 1) : more[i + 1] = more[i] + Len(Chunk(w[i]))
  <2> TAKE i \in 1..(k + 1)
  <2>1. CASE i <= k
    <3>1. i \in 1..k /\ i \in 1..(k + 1) /\ i + 1 \in 1..(k + 1)
      BY <2>1
    <3> QED
      BY <1>4, <1>6, <3>1
  <2>2. CASE i = k + 1
    BY <1>4, <1>6, <2>2 DEF r, n
  <2> QED
    BY <2>1, <2>2
<1>10. \A i \in 1..(k + 1) : \A j \in 1..Len(Chunk(w[i])) : d[more[i] + j - 1] = Chunk(w[i])[j]
  <2> TAKE i \in 1..(k + 1)
  <2> TAKE j \in 1..Len(Chunk(w[i]))
  <2>1. CASE i <= k
    <3>1. i \in 1..k /\ i \in 1..(k + 1) /\ i + 1 \in 1..(k + 1)
      BY <2>1
    <3>2. cut[i + 1] = cut[i] + Len(Chunk(w[i])) /\ cut[i] \in 2..e /\ cut[i + 1] \in 2..e
      BY <1>4, <3>1
    <3>3. cut[i] + j - 1 \in 1..Len(b)
      <4>1. Len(Chunk(w[i])) \in Nat /\ j \in 1..Len(Chunk(w[i]))
        BY <1>8, <3>1
      <4>2. /\ Len(b) \in Int /\ cut[i] \in Int /\ cut[i] >= 2 /\ j \in Int /\ j >= 1
            /\ cut[i] + Len(Chunk(w[i])) <= Len(b) + 1 /\ j <= Len(Chunk(w[i]))
        BY <1>2, <1>5, <3>2, <4>1
      <4>3. \A p, l, m, y \in Int : p >= 2 /\ y >= 1 /\ p + l <= m + 1 /\ y <= l =>
                p + y - 1 \in 1..m
        OBVIOUS
      <4> QED
        BY <4>1, <4>2, <4>3
    <3>4. b[cut[i] + j - 1] = Chunk(w[i])[j] /\ more[i] = cut[i]
      BY <1>4, <1>6, <3>1
    <3> QED
      BY <1>2, <3>3, <3>4
  <2>2. CASE i = k + 1
    <3>1. Chunk(w[i]) = r /\ j \in 1..n
      BY <2>2 DEF r, n
    <3>2. more[i] = e
      BY <1>4, <1>6, <2>2
    <3>3. more[i] + j - 1 = Len(b) + j
      BY <1>1, <1>2, <3>1, <3>2 DEF e
    <3> QED
      BY <1>2, <3>1, <3>3
  <2> QED
    BY <2>1, <2>2
<1>11. Len(d) + 1 = e + n /\ more[1] = 2 /\ d[1] = QUOTE
  <2>1. 1 \in 1..(k + 1) /\ 1 \in 1..Len(b)
    BY <1>2, <1>5
  <2>2. more[1] = cut[1] /\ d[1] = b[1]
    BY <1>2, <1>6, <2>1
  <2> QED
    BY <1>1, <1>2, <1>4, <1>5, <2>2
<1>12. Laid(w, k + 1, d, more, e + n)
  BY SMTT(30), <1>1, <1>6, <1>7, <1>9, <1>10, <1>11 DEF Laid
<1> QED
  BY <1>2, <1>7, <1>11, <1>12 DEF Spelt, d, r
-----------------------------------------------------------------------------
(* Reading such a text.                                                    *)

\* The whole literal: the quote, every byte of w, and the closing quote.
Literal(w, t, cut) ==
    /\ w \in Seq(Byte) /\ t \in Seq(Byte)
    /\ Laid(w, Len(w), t, cut, Len(t))
    /\ t[Len(t)] = QUOTE

\* Every chunk's position is in the text, and the closing quote's is the last.
LEMMA InLiteral ==
    ASSUME NEW w, NEW t, NEW cut, Literal(w, t, cut), NEW k \in 0..Len(w)
    PROVE  /\ Len(w) \in Nat /\ Len(t) \in Nat
           /\ cut[k + 1] \in 2..Len(t)
           /\ k = Len(w) => cut[k + 1] = Len(t) /\ t[cut[k + 1]] = QUOTE
<1>1. Len(w) \in Nat /\ Len(t) \in Nat
  BY DEF Literal
<1>2. k + 1 \in 1..(Len(w) + 1)
  BY <1>1
<1> QED
  BY <1>1, <1>2 DEF Literal, Laid

\* At a byte's position is its chunk, whole: a plain byte, which stops no scan, or
\* an escape, which stops it with its backslash.
LEMMA AtChunk ==
    ASSUME NEW w, NEW t, NEW cut, Literal(w, t, cut), NEW k \in 0..Len(w), k < Len(w)
    PROVE  LET c == w[k + 1]
               p == cut[k + 1]
           IN  /\ c \in Byte /\ k + 1 \in 0..Len(w)
               /\ cut[k + 2] = p + Len(Chunk(c)) /\ cut[k + 2] \in 2..Len(t)
               /\ \A j \in 1..Len(Chunk(c)) : t[p + j - 1] = Chunk(c)[j]
               /\ t[p] = Chunk(c)[1]
               /\ ~Stops("escape", c) => Chunk(c) = <<c>> /\ ~Stops("string", t[p])
               /\ Stops("escape", c) => t[p] = BSLASH
<1> DEFINE N == Len(w)
           m == Len(t)
           c == w[k + 1]
           p == cut[k + 1]
<1>1. /\ N \in Nat /\ m \in Nat
      /\ \A i \in 1..N : w[i] \in Byte
      /\ cut \in [1..(N + 1) -> 2..m]
      /\ \A i \in 1..N : cut[i + 1] = cut[i] + Len(Chunk(w[i]))
      /\ \A i \in 1..N : \A j \in 1..Len(Chunk(w[i])) : t[cut[i] + j - 1] = Chunk(w[i])[j]
  BY DEF Literal, Laid
<1>2. k + 1 \in 1..N /\ k + 1 \in 0..N /\ k + 2 \in 1..(N + 1) /\ k + 1 + 1 = k + 2
      /\ k + 1 \in 1..(N + 1)
  BY <1>1
<1> HIDE DEF N, m
<1>3. c \in Byte /\ p \in Nat /\ cut[k + 2] \in 2..m /\ cut[k + 2] = p + Len(Chunk(c))
  BY <1>1, <1>2
<1>4. \A j \in 1..Len(Chunk(c)) : t[p + j - 1] = Chunk(c)[j]
  BY <1>1, <1>2
<1> HIDE DEF c, p
<1>5. t[p] = Chunk(c)[1]
  <2>1. Len(Chunk(c)) \in Nat \ {0}
    BY <1>3, ChunkBytes
  <2>2. 1 \in 1..Len(Chunk(c)) /\ p + 1 - 1 = p
    BY <1>3, <2>1
  <2> QED
    BY <1>4, <2>2
<1>6. ~Stops("escape", c) => Chunk(c) = <<c>> /\ ~Stops("string", t[p])
  <2>1. ~Stops("escape", c) => Chunk(c) = <<c>> /\ Chunk(c)[1] = c
    BY <1>3, ChunkForms
  <2>2. ~Stops("escape", c) => ~Stops("string", c)
    BY DEF Stops
  <2> QED
    BY <1>5, <2>1, <2>2
<1>7. Stops("escape", c) => t[p] = BSLASH
  <2>1. Stops("escape", c) => Chunk(c)[1] = BSLASH
    BY <1>3, ChunkForms
  <2> QED
    BY <1>5, <2>1
<1> QED
  BY <1>2, <1>3, <1>4, <1>5, <1>6, <1>7 DEF N, m, c, p

PlainFrom(t, p, n) == \A i \in 0..(n - 1) : ~Stops("string", t[p + i])

\* A run of bytes that stop no scan, from the position of a chunk on, is that many
\* bytes of w, and ends at the position of a chunk (parseString copies it).
LEMMA PlainRun ==
    ASSUME NEW w, NEW t, NEW cut, Literal(w, t, cut), NEW k \in 0..Len(w), NEW n \in Nat,
           PlainFrom(t, cut[k + 1], n)
    PROVE  /\ k + n \in 0..Len(w)
           /\ cut[k + n + 1] = cut[k + 1] + n
           /\ \A i \in 1..n : w[k + i] = t[cut[k + 1] + i - 1]
<1> DEFINE N == Len(w)
           p == cut[k + 1]
           Good(j) == /\ k + j \in 0..N
                      /\ cut[k + j + 1] = p + j
                      /\ \A i \in 1..j : w[k + i] = t[p + i - 1]
           Wrong == {j \in 0..n : ~Good(j)}
<1>1. N \in Nat /\ k \in 0..N /\ p \in Nat
  <2>1. p \in 2..Len(t) /\ Len(t) \in Nat /\ Len(w) \in Nat
    BY InLiteral
  <2> QED
    BY <2>1
<1>2. \A j \in 0..(n - 1) : k + j \in 0..N /\ cut[k + j + 1] = p + j =>
          /\ k + j < N /\ cut[k + j + 2] = p + j + 1 /\ w[k + j + 1] = t[p + j]
  <2> SUFFICES ASSUME NEW j \in 0..(n - 1), k + j \in 0..N, cut[k + j + 1] = p + j
               PROVE  /\ k + j < N /\ cut[k + j + 2] = p + j + 1 /\ w[k + j + 1] = t[p + j]
    OBVIOUS
  <2> DEFINE q == k + j
  <2>1. q \in 0..Len(w) /\ ~Stops("string", t[cut[q + 1]])
    BY DEF PlainFrom
  <2>2. cut[q + 1] = p + j
    OBVIOUS
  <2> HIDE DEF q, p
  <2>3. q # Len(w)
    <3>1. Stops("string", QUOTE)
      BY DEF Stops
    <3> QED
      BY <2>1, <3>1, InLiteral
  <2>4. q < Len(w)
    BY <1>1, <2>1, <2>3 DEF N
  <2>5. /\ t[cut[q + 1]] = Chunk(w[q + 1])[1]
        /\ cut[q + 2] = cut[q + 1] + Len(Chunk(w[q + 1]))
        /\ ~Stops("escape", w[q + 1]) => Chunk(w[q + 1]) = <<w[q + 1]>>
        /\ Stops("escape", w[q + 1]) => t[cut[q + 1]] = BSLASH
    BY <2>1, <2>4, AtChunk
  <2>6. Chunk(w[q + 1]) = <<w[q + 1]>>
    <3>1. Stops("string", BSLASH)
      BY DEF Stops
    <3> QED
      BY <2>1, <2>5, <3>1
  <2>7. Chunk(w[q + 1])[1] = w[q + 1] /\ Len(Chunk(w[q + 1])) = 1
    BY <2>6
  <2>8. t[p + j] = w[q + 1] /\ cut[q + 2] = p + j + 1
    BY <2>2, <2>5, <2>7
  <2> QED
    BY <2>4, <2>8 DEF q, N
<1>3. Good(0)
  BY <1>1
<1>4. ASSUME NEW j \in 0..(n - 1), Good(j) PROVE Good(j + 1)
  <2>1. k + j < N /\ cut[k + j + 2] = p + j + 1 /\ w[k + j + 1] = t[p + j]
    BY <1>2, <1>4
  <2>2. k + (j + 1) \in 0..N /\ k + (j + 1) + 1 = k + j + 2 /\ p + (j + 1) = p + j + 1
    BY SMTT(30), <1>1, <2>1
  <2>3. \A i \in 1..(j + 1) : w[k + i] = t[p + i - 1]
    <3> TAKE i \in 1..(j + 1)
    <3>1. CASE i \in 1..j
      BY <1>4, <3>1
    <3>2. CASE i = j + 1
      <4>1. k + i = k + j + 1 /\ p + i - 1 = p + j
        BY <1>1, <3>2
      <4> QED
        BY <2>1, <4>1
    <3> QED
      BY <3>1, <3>2
  <2> QED
    BY <2>1, <2>2, <2>3
<1> HIDE DEF Good, p, N
<1>5. ASSUME Wrong # {} PROVE FALSE
  <2>1. Wrong \in SUBSET Nat
    OBVIOUS
  <2>2. PICK l \in Wrong : \A m \in Wrong : l <= m
    BY <1>5, <2>1, LeastNumber
  <2>3. l \in 0..n /\ ~Good(l) /\ l # 0
    BY <1>3, <2>2
  <2>4. l - 1 \in 0..(n - 1) /\ l - 1 \in 0..n /\ l - 1 + 1 = l /\ ~(l <= l - 1)
    BY <2>3
  <2>5. l - 1 \notin Wrong
    BY <2>2, <2>4
  <2>6. Good(l - 1)
    BY <2>4, <2>5
  <2> QED
    BY <1>4, <2>3, <2>4, <2>6
<1>6. Good(n)
  BY <1>5
<1> QED
  BY <1>6 DEF Good, N, p
LEMMA QuoteIsEnd ==
    ASSUME NEW w, NEW t, NEW cut, Literal(w, t, cut), NEW k \in 0..Len(w)
    PROVE  /\ Stops("string", t[cut[k + 1]]) =>
                  \/ k = Len(w) /\ t[cut[k + 1]] = QUOTE /\ cut[k + 1] = Len(t)
                  \/ k < Len(w) /\ t[cut[k + 1]] = BSLASH /\ Stops("escape", w[k + 1])
           /\ QUOTE # BSLASH
<1>1. QUOTE # BSLASH
  BY DEF QUOTE, BSLASH
<1>2. k = Len(w) \/ k < Len(w)
  BY InLiteral
<1>3. CASE k = Len(w)
  BY <1>1, <1>3, InLiteral
<1>4. CASE k < Len(w)
  BY <1>1, <1>4, AtChunk
<1> QED
  BY <1>1, <1>2, <1>3, <1>4

\* A scan of the text that began at a chunk has ended: never at the end of the
\* text, always at another chunk, with the bytes of w in between.
LEMMA TextScanned ==
    ASSUME NEW w, NEW cut, Literal(w, text, cut), ScanInv,
           NEW k \in 0..Len(w), pos = cut[k + 1],
           slice = From(pos), kind = "string", scan = "done"
    PROVE  /\ dx \in Nat
           /\ k + dx \in 0..Len(w) /\ pos + dx = cut[k + dx + 1]
           /\ pos \in 2..Len(text) /\ pos + dx \in 2..Len(text)
           /\ SubSeq(text, pos, pos + dx - 1) = SubSeq(w, k + 1, k + dx)
           /\ Stops("string", text[pos + dx])
<1> DEFINE m == Len(text)
           N == Len(w)
<1>1. /\ text \in Seq(Byte) /\ m \in Nat /\ text[m] = QUOTE
      /\ w \in Seq(Byte) /\ N \in Nat /\ pos \in 2..m
  BY InLiteral DEF Literal
<1>2. /\ dx \in Nat /\ dx <= Len(slice)
      /\ \A i \in 1..dx : ~Stops("string", slice[i])
      /\ dx < Len(slice) => Stops("string", slice[dx + 1])
  BY DEF ScanInv
<1>3. Len(slice) = m - pos + 1 /\ \A i \in 1..(m - pos + 1) : slice[i] = text[pos + i - 1]
  BY <1>1 DEF From
<1>4. dx < Len(slice)
  <2>1. CASE dx = Len(slice)
    <3>1. dx \in 1..dx /\ pos + dx - 1 = m /\ dx \in 1..(m - pos + 1)
      BY SMTT(30), <1>1, <1>2, <1>3, <2>1
    <3>2. ~Stops("string", text[m])
      BY <1>2, <1>3, <3>1
    <3> QED
      BY <1>1, <3>2 DEF Stops
  <2> QED
    BY <1>1, <1>2, <1>3, <2>1
<1>5. PlainFrom(text, cut[k + 1], dx)
  <2> SUFFICES ASSUME NEW i \in 0..(dx - 1)
               PROVE  ~Stops("string", text[cut[k + 1] + i])
    BY DEF PlainFrom
  <2>1. i + 1 \in 1..dx /\ i + 1 \in 1..(m - pos + 1) /\ pos + (i + 1) - 1 = pos + i
    BY <1>1, <1>2, <1>3, <1>4
  <2> QED
    BY <1>2, <1>3, <2>1
<1>6. /\ k + dx \in 0..N /\ cut[k + dx + 1] = pos + dx
      /\ \A i \in 1..dx : w[k + i] = text[pos + i - 1]
  BY <1>2, <1>5, PlainRun
<1>7. pos + dx \in 2..m /\ Stops("string", text[pos + dx])
  <2>1. dx < m - pos + 1
    BY <1>3, <1>4
  <2>2. m \in Nat /\ pos \in 2..m /\ dx \in Nat
    BY <1>1, <1>2
  <2> HIDE DEF m
  <2>3. dx + 1 \in 1..(m - pos + 1) /\ pos + (dx + 1) - 1 = pos + dx /\ pos + dx \in 2..m
    BY SMTT(30), <2>1, <2>2
  <2> QED
    BY <1>2, <1>3, <1>4, <2>3
<1>8. SubSeq(text, pos, pos + dx - 1) = SubSeq(w, k + 1, k + dx)
  <2> DEFINE x == SubSeq(text, pos, pos + dx - 1)
             y == SubSeq(w, k + 1, k + dx)
  <2>1. x \in Seq(Byte) /\ Len(x) = dx /\ \A i \in 1..dx : x[i] = text[pos + i - 1]
    <3>1. pos \in Nat \ {0} /\ pos + dx - 1 <= Len(text)
      BY <1>1, <1>2, <1>7
    <3>2. dx \in Nat /\ text \in Seq(Byte)
      BY <1>1, <1>2
    <3> QED
      BY SMTT(30), <3>1, <3>2, SubSeqPart
  <2>2. y \in Seq(Byte) /\ Len(y) = dx /\ \A i \in 1..dx : y[i] = w[k + i]
    BY <1>1, <1>2, <1>6
  <2> HIDE DEF x, y
  <2>3. \A i \in 1..dx : x[i] = y[i]
    BY <1>6, <2>1, <2>2
  <2>4. x = y
    BY <2>1, <2>2, <2>3, SeqEqual
  <2> QED
    BY <2>4 DEF x, y
<1> QED
  BY <1>1, <1>2, <1>6, <1>7, <1>8
-----------------------------------------------------------------------------
(* The invariant.                                                          *)

\* writeQuoted between two scans, or in one: what it wrote spells what it has of
\* the string, and the rest is still to be written.
Writing(w) ==
    /\ pos = 1 /\ buf \in Seq(Byte)
    /\ \E k \in 0..Len(w) : rest = SubSeq(w, k + 1, Len(w)) /\ Spelt(w, k, buf, Len(buf) + 1)
    /\ scan # "idle" => slice = rest /\ kind = "escape"

\* parseString in its slow loop is at a chunk, and has decoded what is before it.
InLoop(w, cut) ==
    \E k \in 0..Len(w) :
        /\ pos = cut[k + 1] /\ buf = SubSeq(w, 1, k)
        /\ scan # "idle" => slice = From(pos) /\ kind = "string"

Reading(w, cut) ==
    /\ Literal(w, text, cut)
    /\ mode = "value" => pos = 1 /\ scan = "idle"
    /\ mode = "fast" => pos = 2 /\ slice = From(2) /\ kind = "string"
    /\ mode = "slow" => InLoop(w, cut)
    /\ mode = "accept" => pos = Len(text) + 1 /\ result = String(w)

ScalarInv ==
    IsA("write", input) =>
        /\ input.write \in Seq(Byte)
        /\ ScanInv
        /\ mode \in {"write", "value", "fast", "slow", "accept"}
        /\ mode = "write" => Writing(input.write)
        /\ mode # "write" => \E cut \in [1..(Len(input.write) + 1) -> 2..Len(text)] :
                                 Reading(input.write, cut)

LEMMA ScalarInvInit == ScalarInit => ScalarInv
<1> SUFFICES ASSUME ScalarInit, IsA("write", input)
             PROVE  ScalarInv
  BY DEF ScalarInv
<1>1. input \in [write : Strings]
  <2>1. "write" \in DOMAIN input /\ input \in Inputs
    BY DEF ScalarInit, IsA
  <2> QED
    BY <2>1 DEF Inputs
<1> DEFINE w == input.write
<1>2. w \in Seq(Byte)
  BY <1>1, StringsAssumption
<1>3. /\ mode = "write" /\ rest = w /\ buf = <<QUOTE>> /\ pos = 1 /\ scan = "idle"
      /\ ScanInit
  BY DEF ScalarInit, ScanInit
<1> HIDE DEF w
<1>4. ScanInv
  BY <1>3, ScanInvInit
<1>5. buf \in Seq(Byte)
  <2>1. QUOTE \in Byte
    BY DEF QUOTE, Byte
  <2> QED
    BY <1>3, <2>1
<1>6. 0 \in 0..Len(w) /\ rest = SubSeq(w, 0 + 1, Len(w)) /\ Spelt(w, 0, buf, Len(buf) + 1)
  <2>1. SubSeq(w, 1, Len(w)) = w /\ Len(w) \in Nat
    BY <1>2, SubSeqFull
  <2> QED
    BY <1>3, <2>1, SpeltNothing
<1>7. Writing(w)
  BY <1>3, <1>5, <1>6 DEF Writing
<1> QED
  BY <1>2, <1>3, <1>4, <1>7 DEF ScalarInv, w

\* The scanners are called as ByteScan has it, and with bytes.
LEMMA ScansInside ==
    ASSUME ScalarInv, ScalarNext, IsA("write", input)
    PROVE  [ScanNext]_scanVars /\ ScanInv'
<1> SUFFICES [ScanNext]_scanVars
  BY ScanInvNext DEF ScalarInv
<1>1. /\ input.write \in Seq(Byte) /\ ScanInv
      /\ mode \in {"write", "value", "fast", "slow", "accept"}
      /\ mode = "write" => rest \in Seq(Byte)
      /\ mode # "write" => text \in Seq(Byte)
      /\ mode \in {"value", "slow"} => pos \in Nat \ {0}
  <2>1. mode = "write" => rest \in Seq(Byte)
    <3> SUFFICES ASSUME mode = "write" PROVE rest \in Seq(Byte)
      OBVIOUS
    <3>1. PICK k \in 0..Len(input.write) : rest = SubSeq(input.write, k + 1, Len(input.write))
      BY DEF ScalarInv, Writing
    <3> DEFINE w == input.write
    <3>2. w \in Seq(Byte) /\ k \in 0..Len(w) /\ 0 \in 0..(Len(w) - k)
      BY DEF ScalarInv
    <3> HIDE DEF w
    <3>3. SubSeq(w, k + 1, Len(w)) \in Seq(Byte)
      BY <3>2, SubSeqEnd
    <3> QED
      BY <3>1, <3>3 DEF w
  <2>2. mode # "write" => text \in Seq(Byte)
    BY DEF ScalarInv, Reading, Literal
  <2>3. mode = "value" => pos \in Nat \ {0}
    BY DEF ScalarInv, Reading
  <2>4. mode = "slow" => pos \in Nat \ {0}
    <3> SUFFICES ASSUME mode = "slow" PROVE pos \in Nat \ {0}
      OBVIOUS
    <3> DEFINE w == input.write
    <3>1. PICK cut \in [1..(Len(w) + 1) -> 2..Len(text)] : Reading(w, cut)
      BY DEF ScalarInv
    <3>2. PICK k \in 0..Len(w) : pos = cut[k + 1]
      BY <3>1 DEF Reading, InLoop
    <3>3. Literal(w, text, cut)
      BY <3>1 DEF Reading
    <3> HIDE DEF w
    <3>4. cut[k + 1] \in 2..Len(text) /\ Len(text) \in Nat
      BY <3>3, InLiteral
    <3> QED
      BY <3>2, <3>4
  <2> QED
    BY <2>1, <2>2, <2>3, <2>4 DEF ScalarInv
<1>2. \A p \in Nat \ {0} : mode # "write" => From(p) \in Seq(Byte)
  BY <1>1 DEF From
<1>3. CASE Scanning
  BY <1>3 DEF Scanning, ScanNext
<1>4. CASE WriteString
  <2>1. CASE ScanForEscape
    BY <1>1, <2>1 DEF ScanForEscape, ScanNext, Kinds
  <2>2. CASE WriteRun
    BY <2>2 DEF WriteRun, ScanNext
  <2>3. CASE WriteClose
    BY <2>3 DEF WriteClose
  <2> QED
    BY <1>4, <2>1, <2>2, <2>3 DEF WriteString
<1>5. CASE ReadString
  <2>1. CASE OpenString
    BY <1>1, <1>2, <2>1 DEF OpenString, ScanNext, Kinds
  <2>2. CASE FastPath
    BY <2>2 DEF FastPath, ScanNext
  <2>3. CASE CloseString \/ Escape \/ Unterminated
    BY <2>3 DEF CloseString, Escape, Unterminated
  <2>4. CASE ScanRun
    BY <1>1, <1>2, <2>4 DEF ScanRun, ScanNext, Kinds
  <2>5. CASE CopyRun
    BY <2>5 DEF CopyRun, ScanNext
  <2> QED
    BY <1>5, <2>1, <2>2, <2>3, <2>4, <2>5 DEF ReadString
<1>6. CASE ReadNumber
  BY <1>6 DEF ReadNumber, OpenNumber, MantissaByte, FractionByte, FinishInteger, FinishFloat
<1>7. CASE UNCHANGED scanVars
  BY <1>7
<1> QED
  BY <1>3, <1>4, <1>5, <1>6, <1>7 DEF ScalarNext
-----------------------------------------------------------------------------
(* Writing.                                                                *)

LEMMA WriteRunStep ==
    ASSUME NEW w \in Seq(Byte), Writing(w), ScanInv, WriteRun
    PROVE  Writing(w)'
<1> DEFINE N == Len(w)
<1>1. PICK k \in 0..Len(w) : rest = SubSeq(w, k + 1, Len(w)) /\ Spelt(w, k, buf, Len(buf) + 1)
  BY DEF Writing
<1>2. /\ pos = 1 /\ pos' = 1 /\ buf \in Seq(Byte) /\ scan' = "idle" /\ N \in Nat /\ k \in 0..N
      /\ slice = rest /\ kind = "escape"
  <2>1. scan = "done" /\ pos' = pos /\ scan' = "idle"
    BY DEF WriteRun, EndScan, inputVars
  <2>2. Len(w) \in Nat
    OBVIOUS
  <2> QED
    BY <2>1, <2>2 DEF Writing
<1>3. rest \in Seq(Byte) /\ Len(rest) = N - k /\ \A i \in 1..Len(rest) : rest[i] = w[k + i]
  <2>1. 0 \in 0..(Len(w) - k)
    BY <1>2
  <2> QED
    BY <1>1, <2>1, SubSeqEnd
<1>4. /\ dx \in Nat /\ dx <= N - k
      /\ \A i \in 1..dx : ~Stops("escape", rest[i])
      /\ dx < N - k => Stops("escape", rest[dx + 1])
  BY <1>2, <1>3, Zenon DEF ScanInv, WriteRun
<1> DEFINE run == SubSeq(rest, 1, dx)
<1>5. run \in Seq(Byte) /\ Len(run) = dx /\ \A i \in 1..dx : run[i] = rest[i]
  <2>1. 1 + dx - 1 = dx /\ dx <= Len(rest) /\ 1 \in Nat \ {0}
    BY <1>2, <1>3, <1>4
  <2>2. /\ SubSeq(rest, 1, 1 + dx - 1) \in Seq(Byte) /\ Len(SubSeq(rest, 1, 1 + dx - 1)) = dx
        /\ \A i \in 1..dx : SubSeq(rest, 1, 1 + dx - 1)[i] = rest[1 + i - 1]
    BY <1>3, <1>4, <2>1, SubSeqPart
  <2>3. \A i \in 1..dx : 1 + i - 1 = i
    OBVIOUS
  <2> QED
    BY <2>1, <2>2, <2>3
<1> DEFINE b == buf \o run
           tail == IF dx = Len(rest) THEN <<>> ELSE EscapeOf(rest[dx + 1])
<1>6. buf' = b \o tail /\ rest' = SubSeq(rest, dx + 2, Len(rest))
  BY DEF WriteRun
<1> HIDE DEF run, N, tail
<1>7. k + dx \in 0..N
  BY <1>2, <1>4
<1>8. b \in Seq(Byte) /\ Spelt(w, k + dx, b, Len(b) + 1)
  <2>1. PlainPart(run, w, k)
    <3> SUFFICES ASSUME NEW i \in 1..dx
                 PROVE  run[i] = w[k + i] /\ ~Stops("escape", w[k + i])
      BY <1>5 DEF PlainPart
    <3>1. i \in 1..Len(rest)
      BY <1>2, <1>3, <1>4
    <3> QED
      BY <1>3, <1>4, <1>5, <3>1
  <2>2. k \in Nat /\ k + dx <= Len(w)
    BY <1>2, <1>7 DEF N
  <2> QED
    BY <1>1, <1>2, <1>4, <1>5, <2>1, <2>2, SpeltRun
<1> HIDE DEF b
<1>9. \E j \in 0..N : rest' = SubSeq(w, j + 1, N) /\ buf' \in Seq(Byte)
                          /\ Spelt(w, j, buf', Len(buf') + 1)
  <2>1. CASE dx = N - k
    <3>1. buf' = b
      <4>1. tail = <<>>
        BY <1>3, <2>1 DEF tail
      <4> QED
        BY <1>6, <1>8, <4>1, ConcatEmptySeq
    <3>2. rest' = <<>>
      <4>1. Len(rest) < dx + 2 /\ dx + 2 \in Int /\ Len(rest) \in Int
        BY <1>2, <1>3, <1>4, <2>1
      <4> QED
        BY <1>3, <1>6, <4>1, SubSeqEmpty
    <3>3. SubSeq(w, k + dx + 1, N) = <<>>
      <4>1. N < k + dx + 1 /\ k + dx + 1 \in Int /\ N \in Int
        BY <1>2, <1>4, <2>1
      <4> QED
        BY <4>1, SubSeqEmpty
    <3> QED
      BY <1>7, <1>8, <3>1, <3>2, <3>3
  <2>2. CASE dx < N - k
    <3> DEFINE j == k + dx
    <3>1. j \in Nat /\ j < N /\ j + 1 \in 0..N /\ dx + 1 \in 1..Len(rest) /\ k + (dx + 1) = j + 1
      BY <1>2, <1>3, <1>4, <2>2
    <3>2. rest[dx + 1] = w[j + 1] /\ Stops("escape", w[j + 1])
      BY <1>3, <1>4, <2>2, <3>1
    <3>3. tail = Chunk(w[j + 1])
      <4>1. dx # Len(rest)
        BY <1>3, <1>4, <2>2
      <4> QED
        BY <3>2, <4>1 DEF tail, Chunk
    <3> HIDE DEF j
    <3>4. buf' \in Seq(Byte) /\ Spelt(w, j + 1, buf', Len(buf') + 1)
      <4>1. Spelt(w, j, b, Len(b) + 1)
        BY <1>8 DEF j
      <4>2. j < Len(w)
        BY <3>1 DEF N
      <4>3. LET d == b \o Chunk(w[j + 1]) IN d \in Seq(Byte) /\ Spelt(w, j + 1, d, Len(d) + 1)
        BY <1>8, <3>1, <4>1, <4>2, SpeltMore
      <4> QED
        BY <1>6, <3>3, <4>3
    <3>5. rest' = SubSeq(w, j + 2, N)
      <4>1. dx + 1 \in 0..(Len(w) - k) /\ k \in 0..Len(w)
        BY <1>2, <1>4, <2>2 DEF N
      <4>2. SubSeq(rest, dx + 1 + 1, Len(rest)) = SubSeq(w, k + (dx + 1) + 1, Len(w))
        BY <1>1, <4>1, SubSeqEnd
      <4>3. dx + 1 + 1 = dx + 2 /\ k + (dx + 1) + 1 = j + 2
        BY <1>2, <1>4 DEF j
      <4> QED
        BY <1>6, <4>2, <4>3 DEF N
    <3>6. j + 1 + 1 = j + 2
      BY <3>1
    <3> QED
      BY <3>1, <3>4, <3>5, <3>6
  <2> QED
    BY <1>2, <1>4, <2>1, <2>2
<1> QED
  BY <1>2, <1>9 DEF Writing, N

\* The text is closed: it is the whole literal.
LEMMA WriteCloseStep ==
    ASSUME NEW w \in Seq(Byte), Writing(w), WriteClose
    PROVE  \E cut \in [1..(Len(w) + 1) -> 2..Len(text')] : Reading(w, cut)'
<1> DEFINE N == Len(w)
           e == Len(buf) + 1
           t == buf \o <<QUOTE>>
<1>1. PICK k \in 0..Len(w) : rest = SubSeq(w, k + 1, Len(w)) /\ Spelt(w, k, buf, Len(buf) + 1)
  BY DEF Writing
<1>2. /\ text' = t /\ pos' = 1 /\ mode' = "value" /\ scan' = "idle" /\ rest = <<>>
      /\ buf \in Seq(Byte) /\ N \in Nat /\ Len(buf) \in Nat
  BY DEF Writing, WriteClose, scanVars
<1>3. k = N
  <2>1. 0 \in 0..(Len(w) - k)
    BY <1>2
  <2>2. Len(rest) = Len(w) - k
    BY <1>1, <2>1, SubSeqEnd
  <2> QED
    BY <1>2, <2>2
<1>4. t \in Seq(Byte) /\ Len(t) = e /\ t[e] = QUOTE /\ \A i \in 1..Len(buf) : t[i] = buf[i]
  <2>1. QUOTE \in Byte
    BY DEF QUOTE, Byte
  <2> QED
    BY <1>2, <2>1
<1> HIDE DEF t
<1>5. PICK cut \in [1..(N + 1) -> 2..e] : Laid(w, N, buf, cut, e)
  BY <1>1, <1>3 DEF Spelt
<1>6. e \in Nat /\ e = Len(buf) + 1
  BY <1>2
<1> HIDE DEF N, e
<1>7. /\ cut[1] = 2 /\ cut[N + 1] = e /\ buf[1] = QUOTE
      /\ \A i \in 1..N : cut[i + 1] = cut[i] + Len(Chunk(w[i]))
      /\ \A i \in 1..N : \A j \in 1..Len(Chunk(w[i])) : buf[cut[i] + j - 1] = Chunk(w[i])[j]
      /\ \A i \in 1..(N + 1) : cut[i] \in 2..e
  BY <1>5 DEF Laid
<1>8. \A i \in 1..N : \A j \in 1..Len(Chunk(w[i])) : t[cut[i] + j - 1] = Chunk(w[i])[j]
  <2> TAKE i \in 1..N
  <2> TAKE j \in 1..Len(Chunk(w[i]))
  <2> DEFINE l == Len(Chunk(w[i]))
             p == cut[i]
  <2>1. l \in Nat
    <3>1. w[i] \in Byte
      BY DEF N
    <3> QED
      BY <3>1, ChunkBytes
  <2>2. i \in 1..(N + 1) /\ i + 1 \in 1..(N + 1)
    BY <1>2
  <2>3. p \in 2..e /\ p + l \in 2..e /\ j \in 1..l
    BY <1>7, <2>2
  <2> HIDE DEF l, p
  <2>4. p + j - 1 \in 1..Len(buf)
    BY <1>2, <1>6, <2>1, <2>3
  <2>5. t[p + j - 1] = buf[p + j - 1]
    BY <1>4, <2>4
  <2> QED
    BY <1>7, <2>5 DEF p
<1>9. t[1] = QUOTE
  <2>1. 1 \in 1..(N + 1)
    BY <1>2 DEF N
  <2>2. e >= 2
    BY <1>6, <1>7, <2>1
  <2>3. 1 \in 1..Len(buf)
    BY <1>2, <1>6, <2>2
  <2> QED
    BY <1>4, <1>7, <2>3
<1>10. Laid(w, N, t, cut, Len(t))
  BY <1>4, <1>5, <1>6, <1>7, <1>8, <1>9 DEF Laid
<1>11. Literal(w, t, cut)
  BY <1>4, <1>10 DEF Literal, N
<1>12. Reading(w, cut)'
  BY <1>2, <1>11 DEF Reading
<1> QED
  BY <1>2, <1>4, <1>5, <1>12 DEF N
-----------------------------------------------------------------------------
(* Reading.  No step changes the text, and w is spelt in it as before.     *)

LEMMA OpenStep ==
    ASSUME NEW w, NEW cut, Reading(w, cut), OpenString
    PROVE  Reading(w, cut)' /\ mode' = "fast" /\ text' = text
<1>1. /\ Literal(w, text, cut) /\ mode = "value" /\ pos = 1
      /\ text' = text /\ mode' = "fast" /\ pos' = pos + 1
      /\ slice' = From(pos + 1) /\ kind' = "string"
  BY DEF Reading, OpenString, StartScan
<1>2. pos' = 2 /\ slice' = From(2)'
  BY <1>1 DEF From
<1> QED
  BY <1>1, <1>2 DEF Reading

\* The run before the first backslash or quote is the beginning of w.
LEMMA FastStep ==
    ASSUME NEW w, NEW cut, Reading(w, cut), ScanInv, FastPath
    PROVE  Reading(w, cut)' /\ mode' \in {"slow", "accept"} /\ text' = text
<1>1. /\ Literal(w, text, cut) /\ mode = "fast" /\ scan = "done" /\ scan' = "idle"
      /\ pos = 2 /\ slice = From(2) /\ kind = "string"
  BY DEF Reading, FastPath, EndScan
<1>2. Len(w) \in Nat /\ 0 \in 0..Len(w) /\ cut[0 + 1] = pos /\ w \in Seq(Byte)
  BY <1>1, InLiteral DEF Literal, Laid
<1>3. /\ dx \in Nat /\ dx \in 0..Len(w) /\ pos + dx = cut[dx + 1]
      /\ pos + dx \in 2..Len(text) /\ Len(text) \in Nat
      /\ SubSeq(text, pos, pos + dx - 1) = SubSeq(w, 1, dx)
      /\ Stops("string", text[pos + dx])
  <2>1. /\ dx \in Nat
        /\ 0 + dx \in 0..Len(w) /\ pos + dx = cut[0 + dx + 1]
        /\ pos + dx \in 2..Len(text)
        /\ SubSeq(text, pos, pos + dx - 1) = SubSeq(w, 0 + 1, 0 + dx)
        /\ Stops("string", text[pos + dx])
    BY <1>1, <1>2, TextScanned
  <2>2. 0 + dx = dx /\ 0 + dx + 1 = dx + 1 /\ 0 + 1 = 1
    BY <2>1
  <2>3. Len(text) \in Nat
    BY <1>1, InLiteral
  <2> QED
    BY <2>1, <2>2, <2>3
<1> DEFINE p == pos + dx
           run == SubSeq(text, pos, p - 1)
<1>4. ~(p > Len(text))
  BY <1>3
<1>5. run = SubSeq(w, 1, dx)
  <2>1. p - 1 = pos + dx - 1
    BY <1>1, <1>3
  <2> QED
    BY <1>3, <2>1
<1>6. CASE p <= Len(text) /\ text[p] = QUOTE /\ Accept(String(run), p + 1)
  <2>1. dx = Len(w) /\ p = Len(text)
    BY <1>1, <1>3, <1>6, QuoteIsEnd
  <2>2. run = w
    <3>1. run = SubSeq(w, 1, dx)
      BY <1>5
    <3>2. SubSeq(w, 1, Len(w)) = w
      BY <1>2, SubSeqFull
    <3> QED
      BY <2>1, <3>1, <3>2
  <2>3. mode' = "accept" /\ result' = String(run) /\ pos' = p + 1 /\ text' = text
    BY <1>6 DEF Accept
  <2> QED
    BY <1>1, <2>1, <2>2, <2>3 DEF Reading
<1>7. CASE mode' = "slow" /\ pos' = p /\ buf' = run /\ text' = text
  <2>1. InLoop(w, cut)'
    BY <1>1, <1>3, <1>7, <1>5 DEF InLoop
  <2> QED
    BY <1>1, <1>7, <2>1 DEF Reading
<1>8. \/ p > Len(text)
      \/ p <= Len(text) /\ text[p] = QUOTE /\ Accept(String(run), p + 1)
      \/ mode' = "slow" /\ pos' = p /\ buf' = run /\ text' = text
  BY Zenon DEF FastPath
<1> QED
  BY <1>4, <1>6, <1>7, <1>8

LEMMA CloseStep ==
    ASSUME NEW w, NEW cut, Reading(w, cut), CloseString
    PROVE  Reading(w, cut)' /\ mode' = "accept" /\ text' = text
<1>1. /\ Literal(w, text, cut) /\ mode = "slow" /\ InLoop(w, cut)
      /\ text[pos] = QUOTE
      /\ mode' = "accept" /\ result' = String(buf) /\ pos' = pos + 1 /\ text' = text
  BY DEF Reading, CloseString, Accept, NextIn
<1>2. PICK k \in 0..Len(w) : pos = cut[k + 1] /\ buf = SubSeq(w, 1, k)
  BY <1>1 DEF InLoop
<1>3. Stops("string", text[pos])
  BY <1>1 DEF Stops
<1>4. k = Len(w) /\ pos = Len(text)
  BY <1>1, <1>2, <1>3, QuoteIsEnd
<1>5. buf = w
  <2>1. w \in Seq(Byte)
    BY <1>1 DEF Literal
  <2> QED
    BY <1>2, <1>4, <2>1, SubSeqFull
<1> QED
  BY <1>1, <1>4, <1>5 DEF Reading

\* A scan of the slow loop begins, or moves: the position stays.
LEMMA ScanRunStep ==
    ASSUME NEW w, NEW cut, Reading(w, cut), ScanRun
    PROVE  Reading(w, cut)' /\ mode' = "slow" /\ text' = text
<1>1. /\ Literal(w, text, cut) /\ mode = "slow" /\ InLoop(w, cut)
      /\ text' = text /\ mode' = mode /\ pos' = pos /\ buf' = buf
      /\ slice' = From(pos) /\ kind' = "string"
  BY DEF Reading, ScanRun, StartScan, inputVars, stringVars
<1>2. slice' = From(pos)'
  BY <1>1 DEF From
<1>3. InLoop(w, cut)'
  BY <1>1, <1>2 DEF InLoop
<1> QED
  BY <1>1, <1>3 DEF Reading

LEMMA CopyStep ==
    ASSUME NEW w, NEW cut, Reading(w, cut), ScanInv, CopyRun
    PROVE  Reading(w, cut)' /\ mode' = "slow" /\ text' = text
<1>1. /\ Literal(w, text, cut) /\ mode = "slow" /\ InLoop(w, cut)
      /\ scan = "done" /\ scan' = "idle"
      /\ buf' = buf \o SubSeq(text, pos, pos + dx - 1) /\ pos' = pos + dx
      /\ text' = text /\ mode' = mode
  BY DEF Reading, CopyRun, EndScan
<1>2. PICK k \in 0..Len(w) : /\ pos = cut[k + 1] /\ buf = SubSeq(w, 1, k)
                             /\ slice = From(pos) /\ kind = "string"
  BY <1>1 DEF InLoop
<1>3. /\ dx \in Nat
      /\ k + dx \in 0..Len(w) /\ pos + dx = cut[k + dx + 1]
      /\ SubSeq(text, pos, pos + dx - 1) = SubSeq(w, k + 1, k + dx)
  BY <1>1, <1>2, TextScanned
<1>4. buf' = SubSeq(w, 1, k + dx)
  <2>1. w \in Seq(Byte) /\ Len(w) \in Nat
    BY <1>1 DEF Literal
  <2>2. k \in Nat /\ k + dx \in Nat /\ k <= k + dx /\ k + dx <= Len(w)
    BY <1>3, <2>1
  <2>3. SubSeq(w, 1, k) \o SubSeq(w, k + 1, k + dx) = SubSeq(w, 1, k + dx)
    BY <2>1, <2>2, SubSeqJoin
  <2> QED
    BY <1>1, <1>2, <1>3, <2>3
<1>5. InLoop(w, cut)'
  BY <1>1, <1>3, <1>4 DEF InLoop
<1> QED
  BY <1>1, <1>5 DEF Reading

\* A backslash: the escape that writeQuoted wrote there is read, whole, as the byte
\* it stands for, and is never an error.
LEMMA EscapeStep ==
    ASSUME NEW w, NEW cut, Reading(w, cut), Escape
    PROVE  Reading(w, cut)' /\ mode' = "slow" /\ text' = text
<1> DEFINE e == IF pos + 1 > Len(text) THEN -1 ELSE text[pos + 1]
           u == Unicode(pos + 2)
<1>1. /\ Literal(w, text, cut) /\ mode = "slow" /\ InLoop(w, cut) /\ scan = "idle" /\ scan' = "idle"
      /\ text[pos] = BSLASH /\ text \in Seq(Byte) /\ w \in Seq(Byte)
  BY DEF Reading, Escape, NextIn, Literal, scanVars
<1>2. PICK k \in 0..Len(w) : pos = cut[k + 1] /\ buf = SubSeq(w, 1, k)
  BY <1>1 DEF InLoop
<1> DEFINE c == w[k + 1]
<1>3. k < Len(w) /\ Stops("escape", c)
  <2>1. Stops("string", text[pos])
    BY <1>1 DEF Stops
  <2> QED
    BY <1>1, <1>2, <2>1, QuoteIsEnd
<1>4. /\ c \in Byte /\ k + 1 \in 0..Len(w) /\ Len(w) \in Nat
      /\ cut[k + 2] = pos + Len(Chunk(c)) /\ cut[k + 2] \in 2..Len(text)
      /\ \A j \in 1..Len(Chunk(c)) : text[pos + j - 1] = Chunk(c)[j]
      /\ pos \in 2..Len(text) /\ Len(text) \in Nat
  <2>1. pos \in 2..Len(text) /\ Len(text) \in Nat /\ Len(w) \in Nat
    BY <1>1, <1>2, InLiteral
  <2> QED
    BY <1>1, <1>2, <1>3, <2>1, AtChunk
<1>5. SubSeq(w, 1, k) \o <<c>> = SubSeq(w, 1, k + 1)
  <2>1. k \in Nat /\ k + 1 \in Nat /\ k <= k + 1 /\ k + 1 <= Len(w)
    BY <1>3, <1>4
  <2>2. SubSeq(w, 1, k) \o SubSeq(w, k + 1, k + 1) = SubSeq(w, 1, k + 1)
    BY <1>1, <2>1, SubSeqJoin
  <2>3. SubSeq(w, k + 1, k + 1) = <<c>>
    <3> DEFINE x == SubSeq(w, k + 1, k + 1)
    <3>1. k + 1 + 1 - 1 = k + 1 /\ k + 1 \in Nat \ {0} /\ k + 1 + 1 - 1 <= Len(w)
      BY <2>1
    <3>2. LET y == SubSeq(w, k + 1, k + 1 + 1 - 1)
          IN  y \in Seq(Byte) /\ Len(y) = 1 /\ \A i \in 1..1 : y[i] = w[k + 1 + i - 1]
      BY <1>1, <3>1, SubSeqPart
    <3>3. x \in Seq(Byte) /\ Len(x) = 1 /\ x[1] = c
      BY <3>1, <3>2
    <3> HIDE DEF x, c
    <3>4. x = <<c>>
      BY <3>3, OneElement
    <3> QED
      BY <3>4 DEF x
  <2> QED
    BY <2>2, <2>3
\* It is enough that the byte is appended and the next chunk reached.
<1>6. ASSUME mode' = mode, text' = text, buf' = buf \o <<c>>, pos' = cut[k + 2]
      PROVE  Reading(w, cut)' /\ mode' = "slow" /\ text' = text
  <2>1. buf' = SubSeq(w, 1, k + 1)
    BY <1>2, <1>5, <1>6, Zenon
  <2>2. k + 1 + 1 = k + 2
    OBVIOUS
  <2>3. InLoop(w, cut)'
    BY <1>1, <1>4, <1>6, <2>1, <2>2 DEF InLoop
  <2> QED
    BY <1>1, <1>6, <2>3 DEF Reading
<1> HIDE DEF c
<1>7. CASE c \in Shorts
  <2>1. Chunk(c) = <<BSLASH, ShortEscape[c]>>
    BY <1>4, <1>7, ChunkForms
  <2>2. Len(Chunk(c)) = 2 /\ Chunk(c)[2] = ShortEscape[c] /\ 2 \in 1..2
    BY <2>1
  <2>3. pos + 2 - 1 = pos + 1 /\ ~(pos + 1 > Len(text)) /\ cut[k + 2] = pos + 2
    BY <1>4, <2>2
  <2>4. e = ShortEscape[c]
    BY <1>4, <2>2, <2>3
  <2> HIDE DEF e, u
  <2>5. e \in DOMAIN ReadEscape /\ ReadEscape[e] = c /\ e # 117
    BY <1>7, <2>4, ShortReads
  <2>6. /\ buf' = Append(buf, ReadEscape[e]) /\ pos' = pos + 2
        /\ text' = text /\ mode' = mode
    BY <2>5 DEF Escape, e, u
  <2>7. Append(buf, c) = buf \o <<c>>
    <3>1. buf \in Seq(Byte)
      <4>1. k \in Nat /\ k <= Len(w) /\ 1 + k - 1 = k /\ 1 \in Nat \ {0}
        BY <1>3, <1>4
      <4>2. SubSeq(w, 1, 1 + k - 1) \in Seq(Byte)
        BY <1>1, <4>1, SubSeqPart
      <4> QED
        BY <1>2, <4>1, <4>2
    <3> QED
      BY <1>4, <3>1, AppendIsConcat
  <2> QED
    BY <1>6, <2>3, <2>5, <2>6, <2>7
<1>8. CASE c \notin Shorts
  <2> DEFINE hi == HexDigit(c \div 16)
             lo == HexDigit(c % 16)
  <2>1. c \in 0..31 /\ Chunk(c) = <<BSLASH, 117, 48, 48, hi, lo>>
    BY <1>3, <1>4, <1>8, ChunkForms
  <2> HIDE DEF hi, lo
  <2>2. /\ Len(Chunk(c)) = 6 /\ Chunk(c)[2] = 117 /\ Chunk(c)[3] = 48 /\ Chunk(c)[4] = 48
        /\ Chunk(c)[5] = hi /\ Chunk(c)[6] = lo
    BY <2>1
  <2>3. /\ pos + 2 - 1 = pos + 1 /\ pos + 3 - 1 = pos + 2 /\ pos + 4 - 1 = pos + 2 + 1
        /\ pos + 5 - 1 = pos + 2 + 2 /\ pos + 6 - 1 = pos + 2 + 3
        /\ 2 \in 1..6 /\ 3 \in 1..6 /\ 4 \in 1..6 /\ 5 \in 1..6 /\ 6 \in 1..6
    BY <1>4
  <2>4. /\ text[pos + 1] = 117 /\ text[pos + 2] = 48 /\ text[pos + 2 + 1] = 48
        /\ text[pos + 2 + 2] = hi /\ text[pos + 2 + 3] = lo
    BY <1>4, <2>2, <2>3
  <2>5. /\ ~(pos + 1 > Len(text)) /\ pos + 2 + 3 <= Len(text) /\ pos + 2 \in Nat \ {0}
        /\ cut[k + 2] = pos + 2 + 4
    <3>1. cut[k + 2] = pos + 6
      BY <1>4, <2>2
    <3>2. \A p, m \in Int : p \in 2..m /\ p + 6 \in 2..m =>
              ~(p + 1 > m) /\ p + 2 + 3 <= m /\ p + 2 \in Nat \ {0} /\ p + 6 = p + 2 + 4
      OBVIOUS
    <3>3. pos \in Int /\ Len(text) \in Int
      BY <1>4
    <3> QED
      BY <1>4, <3>1, <3>2, <3>3
  <2>6. e = 117
    BY <2>4, <2>5
  <2>7. u = <<<<c>>, pos + 2 + 4>>
    BY <1>1, <2>1, <2>4, <2>5, LongRead DEF hi, lo
  <2> HIDE DEF e, u
  <2>8. u # <<>> /\ u[1] = <<c>> /\ u[2] = pos + 2 + 4
    BY <2>7
  <2>9. 117 \notin DOMAIN ReadEscape
    BY ShortReads
  <2>10. /\ buf' = buf \o u[1] /\ pos' = u[2]
         /\ text' = text /\ mode' = mode
    BY <2>6, <2>8, <2>9 DEF Escape, e, u
  <2> QED
    BY <1>6, <2>5, <2>8, <2>10
<1> QED
  BY <1>7, <1>8

\* At a quote, and behind the end, there is nothing to skip and no container.
LEMMA NothingAround ==
    ASSUME text \in Seq(Byte), mode = "value" => NextIn({QUOTE}), mode = "accept" => AtEnd
    PROVE  ~SkipBlank /\ ~OpenContainer
<1>1. ASSUME NEW d, Item(text, pos, d)
      PROVE  ~AtEnd /\ text[pos] \in White \cup {239, SLASH}
  <2>1. pos \in 1..Len(text) /\ Len(text) \in Nat
    BY <1>1, LenProperties DEF Item
  <2>2. text[pos] \in White \cup {239, SLASH}
    BY <1>1 DEF Item, LineComment, BlockComment
  <2> QED
    BY <2>1, <2>2 DEF AtEnd
<1>2. QUOTE \notin White \cup {239, SLASH} /\ QUOTE \notin Brackets
  BY DEF QUOTE, White, SLASH, Brackets
<1>3. ~SkipBlank
  BY <1>1, <1>2 DEF SkipBlank, NextIn
<1>4. ~OpenContainer
  BY <1>2 DEF OpenContainer, NextIn
<1> QED
  BY <1>3, <1>4

\* What a literal never leads to: the end of the text, a blank, a container, a number,
\* a literal word, or something behind the value.
LEMMA NoOtherStep ==
    ASSUME NEW w, NEW cut, Reading(w, cut), mode \in {"value", "fast", "slow", "accept"}
    PROVE  /\ ~Unterminated /\ ~ReadNumber /\ ~ReadLiteral /\ ~NoScalar /\ ~TrailingText
           /\ ~SkipBlank /\ ~OpenContainer
<1>1. Literal(w, text, cut)
  BY DEF Reading
<1>2. Len(text) \in Nat /\ Len(text) >= 2 /\ Len(w) \in Nat /\ text[1] = QUOTE
  <2>1. Len(w) \in Nat
    BY <1>1 DEF Literal
  <2>2. 0 \in 0..Len(w)
    BY <2>1
  <2> QED
    BY <1>1, <2>1, <2>2, InLiteral DEF Literal, Laid
<1>3. ~Unterminated
  <2> SUFFICES ASSUME mode = "slow", AtEnd PROVE FALSE
    BY DEF Unterminated
  <2>1. PICK k \in 0..Len(w) : pos = cut[k + 1]
    BY DEF Reading, InLoop
  <2> QED
    BY <1>1, <1>2, <2>1, InLiteral DEF AtEnd
<1>4. mode = "value" => ~AtEnd /\ text[pos] = QUOTE
  BY <1>2 DEF Reading, AtEnd
<1>5. QUOTE \notin Digits \cup {MINUS, 73, 78} /\ QUOTE \notin {116, 102, 110}
  BY DEF QUOTE, Digits, MINUS
<1>6. ~ReadNumber
  BY <1>4, <1>5 DEF ReadNumber, OpenNumber, MantissaByte, FractionByte, FinishInteger,
                    FinishFloat, NextIn
<1>7. ~ReadLiteral
  BY <1>4, <1>5 DEF ReadLiteral, NextIn
<1>8. ~NoScalar
  BY <1>4 DEF NoScalar, NextIn
<1>9. ~TrailingText
  BY <1>2 DEF TrailingText, AtEnd, Reading
<1>10. ~SkipBlank /\ ~OpenContainer
  <2>1. text \in Seq(Byte)
    BY <1>1 DEF Literal
  <2>2. mode = "value" => NextIn({QUOTE})
    BY <1>4 DEF NextIn
  <2>3. mode = "accept" => AtEnd
    BY <1>2 DEF Reading, AtEnd
  <2> QED
    BY <2>1, <2>2, <2>3, NothingAround
<1> QED
  BY <1>3, <1>6, <1>7, <1>8, <1>9, <1>10
-----------------------------------------------------------------------------
\* An iteration of a scanner's loop: the caller is where it was.
LEMMA ScanningStep ==
    ASSUME NEW w, Scanning
    PROVE  /\ mode' = mode /\ text' = text
           /\ Writing(w) => Writing(w)'
           /\ \A cut : Reading(w, cut) => Reading(w, cut)'
<1>1. /\ text' = text /\ pos' = pos /\ mode' = mode /\ result' = result
      /\ rest' = rest /\ buf' = buf /\ slice' = slice /\ kind' = kind
      /\ scan # "idle"
  BY DEF Scanning, ScanStep, CleanBlock, BlockFound, EnterTail, CleanByte, TailDone,
         inputVars, stringVars
<1>2. Writing(w) => Writing(w)'
  BY <1>1 DEF Writing
<1>3. ASSUME NEW cut, Reading(w, cut) PROVE Reading(w, cut)'
  <2>1. From(pos)' = From(pos) /\ From(2)' = From(2)
    BY <1>1 DEF From
  <2>2. mode # "value"
    BY <1>1, <1>3 DEF Reading
  <2>3. InLoop(w, cut) => InLoop(w, cut)'
    BY <1>1, <2>1 DEF InLoop
  <2> QED
    BY <1>1, <1>3, <2>1, <2>2, <2>3 DEF Reading
<1> QED
  BY <1>1, <1>2, <1>3

LEMMA ReadingStep ==
    ASSUME NEW w, NEW cut, Reading(w, cut), ScanInv, ScalarNext,
           mode \in {"value", "fast", "slow", "accept"}
    PROVE  /\ Reading(w, cut)' /\ text' = text
           /\ mode' \in {"value", "fast", "slow", "accept"}
<1>1. /\ ~Unterminated /\ ~ReadNumber /\ ~ReadLiteral /\ ~NoScalar /\ ~TrailingText
      /\ ~SkipBlank /\ ~OpenContainer
  BY NoOtherStep
<1>2. ~WriteString
  BY DEF WriteString, ScanForEscape, WriteRun, WriteClose
<1>3. CASE Scanning
  BY <1>3, ScanningStep
<1>4. CASE ReadString
  BY <1>1, <1>4, OpenStep, FastStep, CloseStep, EscapeStep, ScanRunStep, CopyStep DEF ReadString
<1> QED
  BY <1>1, <1>2, <1>3, <1>4 DEF ScalarNext

LEMMA WritingStep ==
    ASSUME NEW w \in Seq(Byte), Writing(w), ScanInv, ScalarNext, mode = "write"
    PROVE  \/ mode' = "write" /\ Writing(w)'
           \/ /\ mode' = "value"
              /\ \E cut \in [1..(Len(w) + 1) -> 2..Len(text')] : Reading(w, cut)'
<1>1. CASE Scanning
  BY <1>1, ScanningStep
<1>2. CASE ScanForEscape
  <2>1. /\ mode' = mode /\ pos' = pos /\ rest' = rest /\ buf' = buf
        /\ slice' = rest /\ kind' = "escape"
    BY <1>2 DEF ScanForEscape, StartScan, inputVars, stringVars
  <2> QED
    BY <2>1 DEF Writing
<1>3. CASE WriteRun
  <2>1. mode' = mode
    BY <1>3 DEF WriteRun, inputVars
  <2> QED
    BY <1>3, <2>1, WriteRunStep
<1>4. CASE WriteClose
  <2>1. mode' = "value"
    BY <1>4 DEF WriteClose
  <2> QED
    BY <1>4, <2>1, WriteCloseStep
<1>5. ~ReadString
  BY DEF ReadString, OpenString, FastPath, CloseString, Escape, ScanRun, CopyRun, Unterminated
<1>6. ~ReadNumber
  BY DEF ReadNumber, OpenNumber, MantissaByte, FractionByte, FinishInteger, FinishFloat
<1>7. ~ReadLiteral /\ ~NoScalar /\ ~TrailingText /\ ~SkipBlank /\ ~OpenContainer
  BY DEF ReadLiteral, NoScalar, TrailingText, SkipBlank, OpenContainer
<1> QED
  BY <1>1, <1>2, <1>3, <1>4, <1>5, <1>6, <1>7 DEF ScalarNext, WriteString

LEMMA ScalarInvNext == ScalarInv /\ [ScalarNext]_scalarVars => ScalarInv'
<1> SUFFICES ASSUME ScalarInv, [ScalarNext]_scalarVars, IsA("write", input')
             PROVE  ScalarInv'
  BY DEF ScalarInv
<1>1. input' = input
  BY DEF ScalarNext, scalarVars
<1>2. IsA("write", input)
  BY <1>1
<1>3. PICK w \in Seq(Byte) : w = input.write
  BY <1>2 DEF ScalarInv
<1>4. /\ w = input'.write /\ ScanInv
      /\ mode \in {"write", "value", "fast", "slow", "accept"}
      /\ mode = "write" => Writing(w)
      /\ mode # "write" => \E cut \in [1..(Len(w) + 1) -> 2..Len(text)] : Reading(w, cut)
  BY <1>1, <1>2, <1>3 DEF ScalarInv
<1>5. SUFFICES /\ ScanInv'
               /\ \/ mode' = "write" /\ Writing(w)'
                  \/ /\ mode' \in {"value", "fast", "slow", "accept"}
                     /\ \E cut \in [1..(Len(w) + 1) -> 2..Len(text')] : Reading(w, cut)'
  BY <1>3, <1>4 DEF ScalarInv
<1>6. CASE ScalarNext
  <2>1. ScanInv'
    BY <1>2, <1>6, ScansInside
  <2>2. CASE mode = "write"
    BY <1>4, <1>6, <2>1, <2>2, WritingStep
  <2>3. CASE mode # "write"
    <3>1. PICK cut \in [1..(Len(w) + 1) -> 2..Len(text)] : Reading(w, cut)
      BY <1>4, <2>3
    <3>2. mode \in {"value", "fast", "slow", "accept"}
      BY <1>4, <2>3
    <3>3. /\ Reading(w, cut)' /\ text' = text
          /\ mode' \in {"value", "fast", "slow", "accept"}
      BY <1>4, <1>6, <3>1, <3>2, ReadingStep
    <3> QED
      BY <2>1, <3>3
  <2> QED
    BY <2>2, <2>3
<1>7. CASE UNCHANGED scalarVars
  <2>1. /\ text' = text /\ pos' = pos /\ mode' = mode /\ result' = result
        /\ rest' = rest /\ buf' = buf /\ slice' = slice /\ kind' = kind
        /\ dx' = dx /\ scan' = scan
    BY <1>7 DEF scalarVars, inputVars, stringVars, numberVars, scanVars
  <2>2. ScanInv'
    BY <1>4, <2>1 DEF ScanInv
  <2>3. Writing(w) => Writing(w)'
    BY <2>1 DEF Writing
  <2>4. \A cut : Reading(w, cut) => Reading(w, cut)'
    BY <2>1 DEF Reading, InLoop, From
  <2> QED
    BY <1>4, <2>1, <2>2, <2>3, <2>4
<1> QED
  BY <1>6, <1>7

LEMMA ScalarInvReads == ScalarInv => QuotedRoundTrips
<1> SUFFICES ASSUME ScalarInv, IsA("write", input), Finished
             PROVE  Accepted /\ result = String(input.write)
  BY DEF QuotedRoundTrips
<1>1. mode = "accept" /\ AtEnd
  BY DEF ScalarInv, Finished
<1>2. PICK cut \in [1..(Len(input.write) + 1) -> 2..Len(text)] : Reading(input.write, cut)
  BY <1>1 DEF ScalarInv
<1> QED
  BY <1>1, <1>2 DEF Reading, Accepted

\* Every string, of any bytes, is written as one literal that reads as that string
\* (writeQuoted against parseString), whatever the vectors are and whether there
\* are any.
THEOREM StringsRoundTrip == ScalarSpec => []QuotedRoundTrips
  BY ScalarInvInit, ScalarInvNext, ScalarInvReads, PTL DEF ScalarSpec
-----------------------------------------------------------------------------
(* Sequences one behind the other.                                         *)

\* Each sequence is found behind the ones before it.
Parts(g, ss, n) ==
    \A k \in 0..n :
        /\ Len(g[k]) \in Nat /\ Len(g[k]) <= Len(g[n])
        /\ k < n => Len(g[k + 1]) = Len(g[k]) + Len(ss[k + 1])
        /\ k < n => \A j \in 1..Len(ss[k + 1]) : g[n][Len(g[k]) + j] = ss[k + 1][j]

\* What is joined stays in front.
LEMMA JoinedParts ==
    ASSUME NEW S, NEW n \in Nat, NEW ss \in [1..n -> Seq(S)],
           NEW g \in [0..n -> Seq(S)], Running(g, ss, n)
    PROVE  Parts(g, ss, n)
<1> DEFINE Begins(k, m) == Len(g[k]) <= Len(g[m]) /\ \A i \in 1..Len(g[k]) : g[m][i] = g[k][i]
<1>1. \A k \in 0..n : g[k] \in Seq(S) /\ Len(g[k]) \in Nat
  BY LenProperties
<1>2. ASSUME NEW k \in 0..n, k < n
      PROVE  /\ k + 1 \in 0..n
             /\ Len(g[k + 1]) = Len(g[k]) + Len(ss[k + 1]) /\ Len(ss[k + 1]) \in Nat
             /\ \A i \in 1..Len(g[k]) : g[k + 1][i] = g[k][i]
             /\ \A j \in 1..Len(ss[k + 1]) : g[k + 1][Len(g[k]) + j] = ss[k + 1][j]
  <2>1. k + 1 \in 1..n /\ k + 1 \in 0..n /\ k + 1 - 1 = k
    BY <1>2
  <2>2. g[k + 1] = g[k] \o ss[k + 1]
    <3>1. \A i \in 1..n : g[i] = g[i - 1] \o ss[i]
      BY DEF Running
    <3> DEFINE m == k + 1
    <3>2. m \in 1..n /\ m - 1 = k
      BY <2>1
    <3> HIDE DEF m
    <3>3. g[m] = g[m - 1] \o ss[m]
      BY <3>1, <3>2
    <3> QED
      BY <3>2, <3>3 DEF m
  <2>3. g[k] \in Seq(S) /\ ss[k + 1] \in Seq(S)
    BY <2>1
  <2> DEFINE a == g[k]
             b == ss[k + 1]
  <2>4. a \in Seq(S) /\ b \in Seq(S) /\ g[k + 1] = a \o b
    BY <2>2, <2>3
  <2> HIDE DEF a, b
  <2>5. /\ Len(g[k + 1]) = Len(a) + Len(b) /\ Len(b) \in Nat
        /\ \A i \in 1..Len(a) : g[k + 1][i] = a[i]
        /\ \A j \in 1..Len(b) : g[k + 1][Len(a) + j] = b[j]
    BY <2>4, ConcatParts, LenProperties
  <2> QED
    BY <2>1, <2>5 DEF a, b
<1>3. \A k \in 0..n : Begins(k, n)
  <2> DEFINE P == {d \in Nat : \A k \in 0..n : k + d <= n => Begins(k, k + d)}
  <2>1. 0 \in P
    BY <1>1
  <2>2. ASSUME NEW d \in Nat, d \in P PROVE d + 1 \in P
    <3> SUFFICES ASSUME NEW k \in 0..n, k + (d + 1) <= n PROVE Begins(k, k + (d + 1))
      OBVIOUS
    <3> DEFINE m == k + d
    <3>1. m \in 0..n /\ m < n /\ k + d <= n /\ k + (d + 1) = m + 1 /\ m + 1 \in 0..n
      OBVIOUS
    <3>2. Begins(k, m)
      BY <2>2, <3>1
    <3> HIDE DEF m
    <3>3. /\ Len(g[m + 1]) = Len(g[m]) + Len(ss[m + 1]) /\ Len(ss[m + 1]) \in Nat
          /\ \A i \in 1..Len(g[m]) : g[m + 1][i] = g[m][i]
      BY <1>2, <3>1
    <3>4. Len(g[k]) \in Nat /\ Len(g[m]) \in Nat /\ Len(g[k]) <= Len(g[m])
      BY <1>1, <3>1, <3>2
    <3>5. Len(g[k]) <= Len(g[m + 1])
      <4>1. Len(g[m + 1]) = Len(g[m]) + Len(ss[m + 1]) /\ Len(ss[m + 1]) \in Nat
        BY <3>3
      <4> DEFINE x == Len(g[k])
                 y == Len(g[m])
                 z == Len(ss[m + 1])
      <4>2. x \in Nat /\ y \in Nat /\ x <= y /\ z \in Nat /\ Len(g[m + 1]) = y + z
        BY <3>4, <4>1
      <4> HIDE DEF x, y, z
      <4>3. x <= y + z
        BY <4>2
      <4> QED
        BY <4>2, <4>3 DEF x
    <3>6. \A i \in 1..Len(g[k]) : i \in 1..Len(g[m])
      BY <3>4
    <3>7. \A i \in 1..Len(g[k]) : g[m + 1][i] = g[k][i]
      BY <3>2, <3>3, <3>6
    <3> QED
      BY <3>1, <3>5, <3>7
  <2>3. \A d \in Nat : d \in P
    <3> HIDE DEF P
    <3> QED
      BY <2>1, <2>2, InductionInSet
  <2> TAKE k \in 0..n
  <2>4. n - k \in Nat /\ k + (n - k) = n
    OBVIOUS
  <2>5. n - k \in P
    BY <2>3, <2>4
  <2> QED
    BY <2>4, <2>5
<1>4. ASSUME NEW k \in 0..n, k < n
      PROVE  \A j \in 1..Len(ss[k + 1]) : g[n][Len(g[k]) + j] = ss[k + 1][j]
  <2> TAKE j \in 1..Len(ss[k + 1])
  <2>1. /\ k + 1 \in 0..n /\ Len(g[k + 1]) = Len(g[k]) + Len(ss[k + 1]) /\ Len(ss[k + 1]) \in Nat
        /\ g[k + 1][Len(g[k]) + j] = ss[k + 1][j]
    BY <1>2, <1>4
  <2>2. Len(g[k]) \in Nat
    BY <1>1
  <2>3. Len(g[k]) + j \in 1..Len(g[k + 1])
    BY <2>1, <2>2
  <2>4. Begins(k + 1, n)
    BY <1>3, <2>1
  <2>5. g[n][Len(g[k]) + j] = g[k + 1][Len(g[k]) + j]
    BY <2>3, <2>4
  <2> QED
    BY <2>1, <2>5
<1> HIDE DEF Begins
<1>5. ASSUME NEW k \in 0..n PROVE Len(g[k]) <= Len(g[n])
  BY <1>3 DEF Begins
<1> QED
  BY <1>1, <1>2, <1>4, <1>5 DEF Parts
-----------------------------------------------------------------------------
(* UTF-8.                                                                  *)

LEMMA ByteIsInt == \A c \in Byte : c \in Int /\ 0 <= c
<1> DEFINE n == 255
<1>1. Byte = 0..n
  BY DEF Byte
<1>2. n \in Int
  OBVIOUS
<1> HIDE DEF n
<1> QED
  BY <1>1, <1>2

\* A sequence of bytes as long as another, with the same bytes.
LEMMA SameBytes ==
    ASSUME NEW s \in Seq(Byte), NEW r \in Seq(Byte), NEW n \in Nat,
           Len(s) = n, Len(r) = n, \A i \in 1..n : s[i] = r[i]
    PROVE  s = r
  BY SeqEqual

LEMMA TwoElements ==
    ASSUME NEW s \in Seq(Byte), Len(s) = 2
    PROVE  s = <<s[1], s[2]>>
<1> DEFINE r == <<s[1], s[2]>>
<1>1. s[1] \in Byte /\ s[2] \in Byte
  BY ElementOfSeq
<1>2. r \in Seq(Byte) /\ Len(r) = 2 /\ r[1] = s[1] /\ r[2] = s[2]
  BY <1>1
<1> HIDE DEF r
<1>3. \A i \in 1..2 : s[i] = r[i]
  BY <1>2
<1>4. s = r
  BY <1>2, <1>3, SameBytes
<1> QED
  BY <1>4 DEF r

LEMMA ThreeElements ==
    ASSUME NEW s \in Seq(Byte), Len(s) = 3
    PROVE  s = <<s[1], s[2], s[3]>>
<1> DEFINE r == <<s[1], s[2], s[3]>>
<1>1. s[1] \in Byte /\ s[2] \in Byte /\ s[3] \in Byte
  BY ElementOfSeq
<1>2. r \in Seq(Byte) /\ Len(r) = 3 /\ r[1] = s[1] /\ r[2] = s[2] /\ r[3] = s[3]
  BY <1>1
<1> HIDE DEF r
<1>3. \A i \in 1..3 : s[i] = r[i]
  BY <1>2
<1>4. s = r
  BY <1>2, <1>3, SameBytes
<1> QED
  BY <1>4 DEF r

LEMMA FourElements ==
    ASSUME NEW s \in Seq(Byte), Len(s) = 4
    PROVE  s = <<s[1], s[2], s[3], s[4]>>
<1> DEFINE r == <<s[1], s[2], s[3], s[4]>>
<1>1. s[1] \in Byte /\ s[2] \in Byte /\ s[3] \in Byte /\ s[4] \in Byte
  BY ElementOfSeq
<1>2. r \in Seq(Byte) /\ Len(r) = 4 /\ r[1] = s[1] /\ r[2] = s[2] /\ r[3] = s[3] /\ r[4] = s[4]
  BY <1>1
<1> HIDE DEF r
<1>3. \A i \in 1..4 : s[i] = r[i]
  BY <1>2
<1>4. s = r
  BY <1>2, <1>3, SameBytes
<1> QED
  BY <1>4 DEF r

\* Six bits, and what is above them.
LEMMA LowBits ==
    ASSUME NEW q \in Int, NEW y \in Int, 0 <= y, y < 64
    PROVE  (64 * q + y) \div 64 = q /\ (64 * q + y) % 64 = y
  OBVIOUS

\* The bytes that are read as a rune are the ones AppendRune writes for it.
LEMMA Utf8Is ==
    ASSUME NEW b, NEW r, Encodes(b, r)
    PROVE  Utf8(r) = b
<1> DEFINE x == b[1]
           y == b[2] - 128
           z == b[3] - 128
           u == b[4] - 128
<1>1. b \in Seq(Byte) /\ \A i \in 2..Len(b) : 128 <= b[i] /\ b[i] < 192
  BY DEF Encodes
<1>2. \A i \in 1..Len(b) : b[i] \in Int
  BY <1>1, ElementOfSeq, ByteIsInt
<1>3. \A i \in 2..Len(b) : /\ b[i] - 128 \in Int /\ 0 <= b[i] - 128 /\ b[i] - 128 < 64
                           /\ b[i] = 128 + (b[i] - 128)
  <2> TAKE i \in 2..Len(b)
  <2>1. Len(b) \in Int
    BY <1>1, LenProperties
  <2>2. i \in 1..Len(b)
    BY <2>1
  <2>3. b[i] \in Int /\ 128 <= b[i] /\ b[i] < 192
    BY <1>1, <1>2, <2>2
  <2> QED
    BY <2>3
<1>4. CASE Len(b) = 1 /\ r < 128 /\ r = b[1]
  <2>1. b = <<b[1]>>
    BY <1>1, <1>4, OneElement
  <2> QED
    BY <1>4, <2>1 DEF Utf8
<1>5. CASE Len(b) = 2 /\ 128 <= r /\ r < 2048 /\ r = 64 * (x - 192) + y
  <2>1. x \in Int /\ y \in Int /\ 0 <= y /\ y < 64 /\ b[2] = 128 + y
    BY <1>1, <1>2, <1>5
  <2>2. b = <<b[1], b[2]>>
    BY <1>1, <1>5, TwoElements
  <2> HIDE DEF y
  <2>3. r \div 64 = x - 192 /\ r % 64 = y
    <3> DEFINE q == x - 192
    <3>1. q \in Int
      BY <2>1
    <3> HIDE DEF q, x
    <3>2. r = 64 * q + y
      BY <1>5 DEF q, x
    <3> QED
      BY <2>1, <3>1, <3>2, LowBits DEF q
  <2>4. 192 + r \div 64 = b[1] /\ 128 + (r % 64) = b[2]
    BY <2>1, <2>3
  <2>5. Utf8(r) = <<192 + r \div 64, 128 + (r % 64)>>
    <3>1. ~(r < 128)
      BY <1>5, <2>1
    <3> QED
      BY <1>5, <3>1 DEF Utf8
  <2> QED
    BY <2>2, <2>4, <2>5
<1>6. CASE Len(b) = 3 /\ 2048 <= r /\ r < 65536 /\ r = 4096 * (x - 224) + 64 * y + z
  <2>1. /\ x \in Int /\ y \in Int /\ 0 <= y /\ y < 64 /\ b[2] = 128 + y
        /\ z \in Int /\ 0 <= z /\ z < 64 /\ b[3] = 128 + z
    BY SMTT(30), <1>1, <1>2, <1>6
  <2>2. b = <<b[1], b[2], b[3]>>
    BY <1>1, <1>6, ThreeElements
  <2> DEFINE p == x - 224
             q == 64 * p + y
  <2>3. p \in Int /\ q \in Int /\ r = 64 * q + z
    BY <1>6, <2>1
  <2> HIDE DEF y, z
  <2>4. r \div 64 = q /\ r % 64 = z
    <3> HIDE DEF q, p, x
    <3> QED
      BY <2>1, <2>3, LowBits
  <2>5. q % 64 = y /\ q \div 64 = p
    <3> HIDE DEF p, x
    <3> QED
      BY <2>1, <2>3, LowBits
  <2>6. r \div 4096 = p
    <3> HIDE DEF p, x
    <3>1. r = 4096 * p + (64 * y + z)
      BY <2>1, <2>3
    <3> QED
      BY <2>1, <2>3, <3>1
  <2>7. 224 + r \div 4096 = b[1] /\ 128 + ((r \div 64) % 64) = b[2] /\ 128 + (r % 64) = b[3]
    BY <2>1, <2>4, <2>5, <2>6
  <2>8. Utf8(r) = <<224 + r \div 4096, 128 + ((r \div 64) % 64), 128 + (r % 64)>>
    <3> HIDE DEF q
    <3>1. r \in Int
      BY <2>1, <2>3
    <3>2. ~(r < 128) /\ ~(r < 2048)
      BY <1>6, <3>1
    <3> QED
      BY <1>6, <3>2 DEF Utf8
  <2> QED
    BY <2>2, <2>7, <2>8
<1>7. CASE Len(b) = 4 /\ 65536 <= r /\ r = 262144 * (x - 240) + 4096 * y + 64 * z + u
  <2>1. /\ x \in Int /\ y \in Int /\ 0 <= y /\ y < 64 /\ b[2] = 128 + y
        /\ z \in Int /\ 0 <= z /\ z < 64 /\ b[3] = 128 + z
        /\ u \in Int /\ 0 <= u /\ u < 64 /\ b[4] = 128 + u
    <3>1. 1 \in 1..Len(b) /\ 2 \in 2..Len(b) /\ 3 \in 2..Len(b) /\ 4 \in 2..Len(b)
      BY <1>7
    <3>2. b[1] \in Int
      BY <1>2, <3>1
    <3> HIDE DEF x
    <3> QED
      BY <1>3, <3>1, <3>2 DEF x
  <2>2. b = <<b[1], b[2], b[3], b[4]>>
    BY <1>1, <1>7, FourElements
  <2> DEFINE p == x - 240
             q == 64 * p + y
             w == 64 * q + z
  <2>3. p \in Int /\ q \in Int /\ w \in Int /\ r = 64 * w + u
    BY <1>7, <2>1
  <2> HIDE DEF y, z, u
  <2>4. r \div 64 = w /\ r % 64 = u
    <3> HIDE DEF w, q, p, x
    <3> QED
      BY <2>1, <2>3, LowBits
  <2>5. w % 64 = z /\ w \div 64 = q
    <3> HIDE DEF q, p, x
    <3> QED
      BY <2>1, <2>3, LowBits
  <2>6. q % 64 = y
    <3> HIDE DEF p, x
    <3> QED
      BY <2>1, <2>3, LowBits
  <2>7. r \div 4096 = q
    <3> HIDE DEF q, p, x
    <3>1. r = 4096 * q + (64 * z + u)
      BY <2>1, <2>3
    <3> QED
      BY <2>1, <2>3, <3>1
  <2>8. r \div 262144 = p
    <3> HIDE DEF p, x
    <3>1. r = 262144 * p + (4096 * y + 64 * z + u)
      BY <2>1, <2>3
    <3> QED
      BY <2>1, <2>3, <3>1
  <2>9. /\ 240 + r \div 262144 = b[1] /\ 128 + ((r \div 4096) % 64) = b[2]
        /\ 128 + ((r \div 64) % 64) = b[3] /\ 128 + (r % 64) = b[4]
    BY <2>1, <2>4, <2>5, <2>6, <2>7, <2>8
  <2>10. Utf8(r) = <<240 + r \div 262144, 128 + ((r \div 4096) % 64),
                     128 + ((r \div 64) % 64), 128 + (r % 64)>>
    <3> HIDE DEF q, w
    <3>1. r \in Int
      BY <2>1, <2>3
    <3>2. ~(r < 128) /\ ~(r < 2048) /\ ~(r < 65536)
      BY <1>7, <3>1
    <3> QED
      BY <3>2 DEF Utf8
  <2> QED
    BY <2>2, <2>9, <2>10
<1> QED
  BY <1>4, <1>5, <1>6, <1>7 DEF Encodes
-----------------------------------------------------------------------------
(* Fragments.                                                              *)

\* The kinds of fragment, by how they are spelled: a byte, an escape the reader knows,
\* one it does not, and four digits, or what stands where they should.
OneByte(f) ==
    /\ Len(f.spell) = 1 /\ f.spell[1] \notin {QUOTE, BSLASH}
    /\ IsA("mean", f) /\ ~IsA("high", f) /\ ~IsA("low", f) /\ f.mean = <<f.spell[1]>>

Known(f) ==
    /\ Len(f.spell) = 2 /\ f.spell[1] = BSLASH /\ f.spell[2] \in DOMAIN ReadEscape
    /\ IsA("mean", f) /\ ~IsA("high", f) /\ ~IsA("low", f)
    /\ f.mean = <<ReadEscape[f.spell[2]]>>

Unknown(f) ==
    /\ Len(f.spell) = 2 /\ f.spell[1] = BSLASH /\ f.spell[2] \notin DOMAIN ReadEscape \cup {117}
    /\ ~IsA("mean", f) /\ ~IsA("high", f) /\ ~IsA("low", f)

Rune(f) ==
    /\ LongEscape(f.spell)
    /\ IsA("high", f) <=> InHex(f.spell) /\ IsHigh(HexRune(f.spell))
    /\ IsA("low", f) <=> InHex(f.spell) /\ IsLow(HexRune(f.spell))
    /\ IsA("mean", f) <=>
           InHex(f.spell) /\ ~IsHigh(HexRune(f.spell)) /\ ~IsLow(HexRune(f.spell))
    /\ IsA("mean", f) => f.mean = Utf8(HexRune(f.spell))

LEMMA HexValueType ==
    ASSUME NEW c
    PROVE  HexValue(c) \in -1..15
<1>1. CASE c \in 48..57
  BY <1>1 DEF HexValue, Digits
<1>2. CASE c \in 97..102
  BY <1>2 DEF HexValue, Digits
<1>3. CASE c \in 65..70
  BY <1>3 DEF HexValue, Digits
<1>4. CASE c \notin 48..57 /\ c \notin 97..102 /\ c \notin 65..70
  <2>1. HexValue(c) = -1
    BY <1>4 DEF HexValue, Digits
  <2> QED
    BY <2>1
<1> QED
  BY <1>1, <1>2, <1>3, <1>4

LEMMA HexRuneType ==
    ASSUME NEW s
    PROVE  HexRune(s) \in Int
<1>1. /\ HexValue(s[3]) \in Int /\ HexValue(s[4]) \in Int
      /\ HexValue(s[5]) \in Int /\ HexValue(s[6]) \in Int
  BY HexValueType
<1> QED
  BY <1>1 DEF HexRune

LEMMA FragmentKinds ==
    ASSUME NEW f, Fragment(f)
    PROVE  /\ f.spell \in Seq(Byte)
           /\ IsA("mean", f) => f.mean \in Seq(Byte)
           /\ OneByte(f) \/ Known(f) \/ Unknown(f) \/ Rune(f)
<1>1. ASSUME NEW s, NEW m, f = Plain(s, m)
      PROVE  f.spell = s /\ f.mean = m /\ IsA("mean", f) /\ ~IsA("high", f) /\ ~IsA("low", f)
  BY <1>1 DEF Plain, IsA
<1>2. ASSUME NEW s, f = Bad(s)
      PROVE  f.spell = s /\ ~IsA("mean", f) /\ ~IsA("high", f) /\ ~IsA("low", f)
  BY <1>2 DEF Bad, IsA
<1>3. ASSUME NEW s, f = High(s)
      PROVE  f.spell = s /\ ~IsA("mean", f) /\ IsA("high", f) /\ ~IsA("low", f)
  BY <1>3 DEF High, IsA
<1>4. ASSUME NEW s, f = Low(s)
      PROVE  f.spell = s /\ ~IsA("mean", f) /\ ~IsA("high", f) /\ IsA("low", f)
  BY <1>4 DEF Low, IsA
<1>5. BSLASH \in Byte /\ \A e \in DOMAIN ReadEscape : e \in Byte /\ ReadEscape[e] \in Byte
  BY DEF BSLASH, Byte, ReadEscape
<1>6. CASE \E c \in Byte \ {QUOTE, BSLASH} : f = Plain(<<c>>, <<c>>)
  <2>1. PICK c \in Byte \ {QUOTE, BSLASH} : f = Plain(<<c>>, <<c>>)
    BY <1>6
  <2>2. <<c>> \in Seq(Byte) /\ Len(<<c>>) = 1 /\ <<c>>[1] = c
    OBVIOUS
  <2>3. f.spell = <<c>> /\ f.mean = <<c>> /\ IsA("mean", f) /\ ~IsA("high", f) /\ ~IsA("low", f)
    BY <1>1, <2>1
  <2> QED
    BY <2>1, <2>2, <2>3 DEF OneByte
<1>7. CASE \E e \in DOMAIN ReadEscape : f = Plain(<<BSLASH, e>>, <<ReadEscape[e]>>)
  <2>1. PICK e \in DOMAIN ReadEscape : f = Plain(<<BSLASH, e>>, <<ReadEscape[e]>>)
    BY <1>7
  <2> DEFINE s == <<BSLASH, e>>
             m == <<ReadEscape[e]>>
  <2>2. s \in Seq(Byte) /\ Len(s) = 2 /\ s[1] = BSLASH /\ s[2] = e /\ m \in Seq(Byte)
    BY <1>5
  <2>3. f.spell = s /\ f.mean = m /\ IsA("mean", f) /\ ~IsA("high", f) /\ ~IsA("low", f)
    BY <1>1, <2>1
  <2> HIDE DEF s
  <2> QED
    BY <2>1, <2>2, <2>3 DEF Known
<1>8. CASE \E e \in Byte \ (DOMAIN ReadEscape \cup {117}) : f = Bad(<<BSLASH, e>>)
  <2>1. PICK e \in Byte \ (DOMAIN ReadEscape \cup {117}) : f = Bad(<<BSLASH, e>>)
    BY <1>8
  <2> DEFINE s == <<BSLASH, e>>
  <2>2. s \in Seq(Byte) /\ Len(s) = 2 /\ s[1] = BSLASH /\ s[2] = e
    BY <1>5
  <2>3. f.spell = s /\ ~IsA("mean", f) /\ ~IsA("high", f) /\ ~IsA("low", f)
    BY <1>2, <2>1
  <2> HIDE DEF s
  <2> QED
    BY <2>1, <2>2, <2>3 DEF Unknown
<1> DEFINE s == f.spell
           r == HexRune(s)
<1>9. ~(IsHigh(r) /\ IsLow(r))
  <2>1. r \in Int
    BY HexRuneType
  <2> HIDE DEF r
  <2> QED
    BY <2>1 DEF IsHigh, IsLow
<1>10. ASSUME LongEscape(s) PROVE s \in Seq(Byte)
  BY <1>10 DEF LongEscape
<1>11. CASE LongEscape(s) /\ ~InHex(s) /\ f = Bad(s)
  BY <1>2, <1>10, <1>11 DEF Rune
<1>12. CASE LongEscape(s) /\ InHex(s) /\ IsHigh(r) /\ f = High(s)
  BY <1>3, <1>9, <1>10, <1>12 DEF Rune
<1>13. CASE LongEscape(s) /\ InHex(s) /\ IsLow(r) /\ f = Low(s)
  BY <1>4, <1>9, <1>10, <1>13 DEF Rune
<1>14. CASE /\ LongEscape(s) /\ InHex(s) /\ ~IsHigh(r) /\ ~IsLow(r)
            /\ f = Plain(s, f.mean) /\ Encodes(f.mean, r)
  <2>1. f.mean = Utf8(r) /\ f.mean \in Seq(Byte)
    BY <1>14, Utf8Is DEF Encodes
  <2> QED
    BY <1>1, <1>10, <1>14, <2>1 DEF Rune
<1> QED
  BY <1>6, <1>7, <1>8, <1>11, <1>12, <1>13, <1>14 DEF Fragment
-----------------------------------------------------------------------------
(* A text that spells fragments, whole or cut short.                       *)

\* Each high surrogate with a low one behind it has the bytes of its rune.
PairsRead(fs) ==
    \A i \in 1..Len(fs) : Halves(fs, i) =>
        Pair(fs[i].spell, fs[i + 1].spell)
            = Utf8(DecodeRune(HexRune(fs[i].spell), HexRune(fs[i + 1].spell)))
        /\ Pair(fs[i].spell, fs[i + 1].spell) \in Seq(Byte)

\* Fragment i begins at ps[i], and the closing quote stands behind the last.
Spelling(fs, n, ps, t) ==
    /\ IsSeq(fs) /\ n = Len(fs) /\ n \in Nat /\ \A i \in 1..n : Fragment(fs[i])
    /\ PairsRead(fs)
    /\ ps \in [1..(n + 1) -> Nat] /\ ps[1] = 2
    /\ \A i \in 1..n : ps[i + 1] = ps[i] + Len(fs[i].spell)
    /\ \A i \in 1..(n + 1) : 2 <= ps[i] /\ ps[i] <= ps[n + 1]
    /\ t \in Seq(Byte) /\ Len(t) \in Nat \ {0} /\ Len(t) <= ps[n + 1] /\ t[1] = QUOTE
    /\ \A i \in 1..n : \A j \in 1..Len(fs[i].spell) :
           ps[i] + j - 1 <= Len(t) => t[ps[i] + j - 1] = fs[i].spell[j]
    /\ Len(t) = ps[n + 1] => t[Len(t)] = QUOTE

\* The first byte of a fragment says what kind it is.
LEMMA FirstByte ==
    ASSUME NEW f, Fragment(f)
    PROVE  /\ Len(f.spell) \in Nat \ {0} /\ f.spell[1] # QUOTE
           /\ f.spell[1] # BSLASH => OneByte(f)
           /\ f.spell[1] = BSLASH =>
                 Known(f) \/ Unknown(f) \/ (Rune(f) /\ Len(f.spell) = 6 /\ f.spell[2] = 117)
<1>1. QUOTE # BSLASH
  BY DEF QUOTE, BSLASH
<1>2. OneByte(f) => Len(f.spell) = 1 /\ f.spell[1] # QUOTE /\ f.spell[1] # BSLASH
  BY DEF OneByte
<1>3. Known(f) \/ Unknown(f) => Len(f.spell) = 2 /\ f.spell[1] = BSLASH
  BY DEF Known, Unknown
<1>4. Rune(f) => Len(f.spell) = 6 /\ f.spell[1] = BSLASH /\ f.spell[2] = 117
  BY DEF Rune, LongEscape
<1> QED
  BY <1>1, <1>2, <1>3, <1>4, FragmentKinds

\* What stands at a position that is in the text.
LEMMA AtFragment ==
    ASSUME NEW fs, NEW n, NEW ps, NEW t, Spelling(fs, n, ps, t),
           NEW i \in 1..(n + 1), ps[i] <= Len(t)
    PROVE  \/ i = n + 1 /\ ps[i] = Len(t) /\ t[ps[i]] = QUOTE
           \/ /\ i \in 1..n /\ i + 1 \in 1..(n + 1) /\ Fragment(fs[i])
              /\ t[ps[i]] = fs[i].spell[1] /\ t[ps[i]] # QUOTE
              /\ ps[i + 1] = ps[i] + Len(fs[i].spell)
<1>1. n \in Nat /\ Len(t) \in Nat /\ Len(t) <= ps[n + 1] /\ ps[i] \in Nat /\ ps[n + 1] \in Nat
  BY DEF Spelling
<1>2. CASE i = n + 1
  <2>1. ps[i] = Len(t) /\ Len(t) = ps[n + 1]
    BY <1>1, <1>2
  <2>2. t[Len(t)] = QUOTE
    BY <2>1 DEF Spelling
  <2> QED
    BY <1>2, <2>1, <2>2
<1>3. CASE i # n + 1
  <2>1. i \in 1..n /\ i + 1 \in 1..(n + 1)
    BY <1>1, <1>3
  <2>2. /\ Fragment(fs[i]) /\ ps[i + 1] = ps[i] + Len(fs[i].spell)
        /\ \A j \in 1..Len(fs[i].spell) :
               ps[i] + j - 1 <= Len(t) => t[ps[i] + j - 1] = fs[i].spell[j]
    BY <2>1 DEF Spelling
  <2>3. Len(fs[i].spell) \in Nat \ {0} /\ fs[i].spell[1] # QUOTE
    BY <2>2, FirstByte
  <2>4. 1 \in 1..Len(fs[i].spell) /\ ps[i] + 1 - 1 = ps[i]
    BY <1>1, <2>3
  <2>5. t[ps[i]] = fs[i].spell[1]
    BY <2>2, <2>4
  <2> QED
    BY <2>1, <2>2, <2>3, <2>5
<1> QED
  BY <1>2, <1>3

\* Where the quote is, the literal ends.
LEMMA QuoteEnds ==
    ASSUME NEW fs, NEW n, NEW ps, NEW t, Spelling(fs, n, ps, t),
           NEW i \in 1..(n + 1), ps[i] <= Len(t), t[ps[i]] = QUOTE
    PROVE  i = n + 1 /\ ps[i] = Len(t)
  BY AtFragment

\* A text that ends in the middle of a fragment, or before one, is not whole.
LEMMA CutShort ==
    ASSUME NEW fs, NEW n, NEW ps, NEW t, Spelling(fs, n, ps, t),
           NEW i \in 1..(n + 1), Len(t) < ps[i]
    PROVE  Len(t) # ps[n + 1]
<1>1. /\ Len(t) \in Nat /\ n \in Nat /\ ps \in [1..(n + 1) -> Nat]
      /\ \A k \in 1..(n + 1) : ps[k] <= ps[n + 1]
  BY DEF Spelling
<1>2. n + 1 \in 1..(n + 1)
  BY <1>1
<1>3. ps[i] \in Nat /\ ps[n + 1] \in Nat /\ ps[i] <= ps[n + 1]
  BY <1>1, <1>2
<1> QED
  BY <1>1, <1>3
-----------------------------------------------------------------------------
(* What the fragments mean.                                                *)

\* What fragment i adds to the bytes; the high half of a pair adds the pair's.
Part(fs, i) ==
    IF IsA("mean", fs[i]) THEN fs[i].mean
    ELSE IF Halves(fs, i) THEN Pair(fs[i].spell, fs[i + 1].spell) ELSE <<>>

\* ds[i] is what the first i fragments mean.
Decoding(fs, n, ds) ==
    ds \in [0..n -> Seq(Byte)] /\ ds[0] = <<>> /\ \A i \in 1..n : ds[i] = ds[i - 1] \o Part(fs, i)

\* Fragment i has a meaning, by itself or in a pair.
Means(fs, i) ==
    IsA("mean", fs[i]) \/ Halves(fs, i) \/ (IsA("low", fs[i]) /\ i > 1 /\ Halves(fs, i - 1))

\* So have those before i, and no pair is open.
Understood(fs, i) ==
    \A j \in 1..(i - 1) : Means(fs, j) /\ (IsA("high", fs[j]) => j + 1 < i)

\* Kinds exclude each other.
LEMMA OneKind ==
    ASSUME NEW f, Fragment(f)
    PROVE  /\ IsA("high", f) => ~IsA("mean", f) /\ ~IsA("low", f)
           /\ IsA("low", f) => ~IsA("mean", f) /\ ~IsA("high", f)
<1>1. Rune(f) => \/ ~IsA("mean", f) /\ ~IsA("high", f) /\ ~IsA("low", f)
                 \/ InHex(f.spell)
  BY DEF Rune
<1>2. HexRune(f.spell) \in Int
  BY HexRuneType
<1>3. ~(IsHigh(HexRune(f.spell)) /\ IsLow(HexRune(f.spell)))
  <2> DEFINE r == HexRune(f.spell)
  <2>1. r \in Int
    BY <1>2
  <2> HIDE DEF r
  <2>2. ~(IsHigh(r) /\ IsLow(r))
    BY <2>1 DEF IsHigh, IsLow
  <2> QED
    BY <2>2 DEF r
<1>4. CASE Rune(f)
  BY <1>3, <1>4 DEF Rune
<1>5. CASE OneByte(f) \/ Known(f) \/ Unknown(f)
  BY <1>5 DEF OneByte, Known, Unknown
<1> QED
  BY <1>4, <1>5, FragmentKinds

\* From fragment i to fragment k everything is understood, and the bytes b are decoded.
MeansMore(fs, ds, i, k, b) == Understood(fs, k) /\ ds[k - 1] = ds[i - 1] \o b

\* One fragment more, which means something by itself.
LEMMA MeansAlone ==
    ASSUME NEW fs, NEW n, NEW ds, Decoding(fs, n, ds), NEW i \in 1..n, n \in Nat,
           Understood(fs, i), IsA("mean", fs[i]), Fragment(fs[i])
    PROVE  MeansMore(fs, ds, i, i + 1, fs[i].mean)
<1>1. ds[i] = ds[i - 1] \o fs[i].mean
  BY DEF Decoding, Part
<1>2. ~IsA("high", fs[i])
  BY OneKind
<1>3. ASSUME NEW j \in 1..((i + 1) - 1)
      PROVE  Means(fs, j) /\ (IsA("high", fs[j]) => j + 1 < i + 1)
  <2>1. CASE j = i
    BY <1>2, <2>1 DEF Means
  <2>2. CASE j # i
    <3>1. j \in 1..(i - 1) /\ (j + 1 < i => j + 1 < i + 1)
      BY <1>3, <2>2
    <3> QED
      BY <3>1 DEF Understood
  <2> QED
    BY <2>1, <2>2
<1>4. Understood(fs, i + 1)
  BY <1>3, Zenon DEF Understood
<1>5. ds[(i + 1) - 1] = ds[i]
  OBVIOUS
<1> QED
  BY <1>1, <1>4, <1>5, Zenon DEF MeansMore

\* A pair more.
LEMMA MeansPair ==
    ASSUME NEW fs, NEW n, NEW ds, Decoding(fs, n, ds), NEW i \in 1..n, n \in Nat,
           n = Len(fs), Understood(fs, i), Halves(fs, i), \A k \in 1..n : Fragment(fs[k])
    PROVE  MeansMore(fs, ds, i, i + 2, Pair(fs[i].spell, fs[i + 1].spell))
<1>1. /\ i + 1 \in 1..n /\ i + 1 - 1 = i /\ i + 1 > 1 /\ i - 1 \in 0..n /\ i \in 0..n
      /\ IsA("high", fs[i]) /\ IsA("low", fs[i + 1])
  BY DEF Halves
<1>2. ~IsA("mean", fs[i]) /\ ~IsA("mean", fs[i + 1]) /\ ~IsA("high", fs[i + 1])
  BY <1>1, OneKind
<1>3. ds[i] = ds[i - 1] \o Pair(fs[i].spell, fs[i + 1].spell)
  BY <1>2 DEF Decoding, Part
<1>4. ds[i + 1] = ds[i]
  <2>1. Part(fs, i + 1) = <<>>
    BY <1>2 DEF Part, Halves
  <2> DEFINE k == i + 1
  <2>2. k \in 1..n /\ k - 1 = i /\ Part(fs, k) = <<>>
    BY <1>1, <2>1
  <2> HIDE DEF k
  <2>3. ds[k] = ds[i] \o <<>> /\ ds[i] \in Seq(Byte)
    BY <1>1, <2>2 DEF Decoding
  <2>4. ds[k] = ds[i]
    BY <2>3, ConcatEmptySeq
  <2> QED
    BY <2>4 DEF k
<1>5. ASSUME NEW j \in 1..((i + 2) - 1)
      PROVE  Means(fs, j) /\ (IsA("high", fs[j]) => j + 1 < i + 2)
  <2>1. CASE j = i
    BY <1>5, <2>1 DEF Means
  <2>2. CASE j = i + 1
    BY <1>1, <1>2, <2>2 DEF Means
  <2>3. CASE j # i /\ j # i + 1
    <3>1. j \in 1..(i - 1) /\ (j + 1 < i => j + 1 < i + 2)
      BY <1>5, <2>3
    <3> QED
      BY <3>1 DEF Understood
  <2> QED
    BY <2>1, <2>2, <2>3
<1>6. Understood(fs, i + 2)
  BY <1>5, Zenon DEF Understood
<1>7. ds[(i + 2) - 1] = ds[i + 1]
  <2> DEFINE k == (i + 2) - 1
  <2>1. k = i + 1
    OBVIOUS
  <2> HIDE DEF k
  <2>2. ds[k] = ds[i + 1]
    BY <2>1
  <2> QED
    BY <2>2 DEF k
<1> QED
  BY <1>3, <1>4, <1>6, <1>7, Zenon DEF MeansMore

\* A fragment that ends the reading: an error, or half a pair.
LEMMA MeansNothing ==
    ASSUME NEW fs, IsSeq(fs), NEW n, n = Len(fs), NEW i \in 1..n,
           Understood(fs, i), ~IsA("mean", fs[i]), ~Halves(fs, i)
    PROVE  ~Meant(fs)
<1> SUFFICES ASSUME Meant(fs) PROVE FALSE
  OBVIOUS
<1>1. DOMAIN fs = 1..n
  BY IsSeqLen
<1>2. IsA("low", fs[i]) /\ i > 1 /\ Halves(fs, i - 1)
  BY <1>1 DEF Meant
<1>3. i - 1 \in 1..(i - 1) /\ ~(i - 1 + 1 < i)
  BY <1>2
<1>4. ~IsA("high", fs[i - 1])
  BY <1>3 DEF Understood
<1> QED
  BY <1>2, <1>4 DEF Halves

\* Everything is understood: the literal is meant, and means what was decoded.
LEMMA AllUnderstood ==
    ASSUME NEW fs, NEW n, NEW ps, NEW t, Spelling(fs, n, ps, t),
           NEW ds, Decoding(fs, n, ds), Understood(fs, n + 1)
    PROVE  Meant(fs) /\ Meaning(fs) = ds[n]
<1>1. /\ DOMAIN fs = 1..n /\ n \in Nat /\ Len(fs) = n /\ \A i \in 1..n : Fragment(fs[i])
      /\ PairsRead(fs)
  BY IsSeqLen DEF Spelling
<1>2. \A i \in 1..n : Means(fs, i)
  <2> DEFINE m == n + 1
  <2>1. Understood(fs, m) /\ m - 1 = n
    BY <1>1
  <2> HIDE DEF m
  <2>2. \A j \in 1..(m - 1) : Means(fs, j) /\ (IsA("high", fs[j]) => j + 1 < m)
    BY <2>1, Zenon DEF Understood
  <2> TAKE i \in 1..n
  <2>3. i \in 1..(m - 1)
    BY <2>1
  <2> QED
    BY <2>2, <2>3, Zenon
<1>3. Meant(fs)
  BY <1>1, <1>2 DEF Meant, Means
<1> DEFINE part(i) == IF IsA("mean", fs[i]) THEN fs[i].mean
                      ELSE IF IsA("high", fs[i]) THEN Pair(fs[i].spell, fs[i + 1].spell) ELSE <<>>
           ss == [i \in DOMAIN fs |-> part(i)]
<1>4. \A i \in 1..n : part(i) = Part(fs, i) /\ Part(fs, i) \in Seq(Byte)
  <2> TAKE i \in 1..n
  <2>1. CASE IsA("mean", fs[i])
    BY <1>1, <2>1, FragmentKinds DEF Part
  <2>2. CASE ~IsA("mean", fs[i]) /\ IsA("high", fs[i])
    <3>1. ~IsA("low", fs[i])
      BY <1>1, <2>2, OneKind
    <3>2. Halves(fs, i)
      BY <1>2, <2>2, <3>1 DEF Means
    <3>3. Pair(fs[i].spell, fs[i + 1].spell) \in Seq(Byte)
      BY <1>1, <3>2 DEF PairsRead
    <3> QED
      BY <2>2, <3>2, <3>3 DEF Part
  <2>3. CASE ~IsA("mean", fs[i]) /\ ~IsA("high", fs[i])
    BY <2>3, EmptySeq DEF Part, Halves
  <2> QED
    BY <2>1, <2>2, <2>3
<1>5. ss \in Seq(Seq(Byte)) /\ Len(ss) = n /\ \A i \in 1..n : ss[i] = Part(fs, i)
  <2>1. \A i \in 1..n : ss[i] = Part(fs, i) /\ ss[i] \in Seq(Byte)
    <3> HIDE DEF part
    <3> QED
      BY <1>1, <1>4
  <2>2. DOMAIN ss = 1..n
    BY <1>1
  <2> HIDE DEF ss
  <2>3. ss = [i \in 1..n |-> ss[i]]
    BY <1>1 DEF ss
  <2>4. ss \in [1..n -> Seq(Byte)]
    BY <2>1, <2>3
  <2>5. ss \in Seq(Seq(Byte))
    BY <1>1, <2>4, SeqDef
  <2>6. Len(ss) = n
    BY <1>1, <2>2, <2>5, LenProperties
  <2> QED
    BY <2>1, <2>5, <2>6
<1>6. Meaning(fs) = FlattenSeq(ss)
  BY DEF Meaning
<1> HIDE DEF ss
<1>7. Running(ds, ss, n)
  BY <1>5 DEF Running, Decoding
<1>8. FlattenSeq(ss) = ds[n]
  BY <1>5, <1>7, FlattenIs
<1> QED
  BY <1>3, <1>6, <1>8
-----------------------------------------------------------------------------
(* Runs of plain bytes.                                                    *)

\* The reader stands at fragment i, at position p, and has decoded b.
Stands(fs, n, ps, ds, i, p, b) ==
    i \in 1..(n + 1) /\ p = ps[i] /\ b = ds[i - 1] /\ Understood(fs, i)

\* A run of bytes that stop no scan is that many fragments of one byte.
LEMMA OneByteOn ==
    ASSUME NEW fs, NEW n, NEW ps, NEW t, Spelling(fs, n, ps, t),
           NEW ds, Decoding(fs, n, ds),
           NEW i, NEW p, NEW b, Stands(fs, n, ps, ds, i, p, b),
           p <= Len(t), ~Stops("string", t[p])
    PROVE  Stands(fs, n, ps, ds, i + 1, p + 1, b \o <<t[p]>>)
<1>1. n \in Nat /\ i \in 1..(n + 1) /\ p = ps[i] /\ b = ds[i - 1] /\ Understood(fs, i)
  BY DEF Spelling, Stands
<1>2. t[p] # QUOTE /\ t[p] # BSLASH
  BY DEF Stops
<1>3. /\ i \in 1..n /\ i + 1 \in 1..(n + 1) /\ Fragment(fs[i])
      /\ t[p] = fs[i].spell[1] /\ ps[i + 1] = p + Len(fs[i].spell)
  BY <1>1, <1>2, AtFragment
<1>4. OneByte(fs[i])
  BY <1>2, <1>3, FirstByte
<1>5. Len(fs[i].spell) = 1 /\ IsA("mean", fs[i]) /\ fs[i].mean = <<t[p]>>
  BY <1>3, <1>4 DEF OneByte
<1>6. MeansMore(fs, ds, i, i + 1, fs[i].mean)
  <2>1. n \in Nat /\ i \in 1..n /\ Understood(fs, i) /\ IsA("mean", fs[i]) /\ Fragment(fs[i])
    BY <1>1, <1>3, <1>5
  <2> QED
    BY <2>1, MeansAlone
<1> QED
  BY <1>1, <1>3, <1>5, <1>6 DEF Stands, MeansMore

LEMMA OneByteRun ==
    ASSUME NEW fs, NEW n, NEW ps, NEW t, Spelling(fs, n, ps, t),
           NEW ds, Decoding(fs, n, ds),
           NEW i, NEW p, NEW b, Stands(fs, n, ps, ds, i, p, b),
           NEW d \in Nat, p + d - 1 <= Len(t), PlainFrom(t, p, d)
    PROVE  Stands(fs, n, ps, ds, i + d, p + d, b \o SubSeq(t, p, p + d - 1))
<1>1. /\ n \in Nat /\ i \in 1..(n + 1) /\ i \in Nat /\ p = ps[i] /\ p \in Nat /\ 2 <= p
      /\ b = ds[i - 1] /\ b \in Seq(Byte) /\ t \in Seq(Byte) /\ Len(t) \in Nat
  <2>1. n \in Nat /\ i \in 1..(n + 1) /\ p = ps[i] /\ b = ds[i - 1]
    BY DEF Spelling, Stands
  <2>2. i - 1 \in 0..n
    BY <2>1
  <2>3. ps[i] \in Nat /\ 2 <= ps[i] /\ ds[i - 1] \in Seq(Byte)
    BY <2>1, <2>2 DEF Spelling, Decoding
  <2> QED
    BY <2>1, <2>3 DEF Spelling
<1> DEFINE At(j) == Stands(fs, n, ps, ds, i + j, p + j, b \o SubSeq(t, p, p + j - 1))
           P == {j \in Nat : j <= d => At(j)}
<1>2. At(0)
  <2>1. p + 0 - 1 \in Int /\ p + 0 - 1 < p /\ i + 0 = i /\ p + 0 = p
    BY <1>1
  <2>2. SubSeq(t, p, p + 0 - 1) = <<>>
    <3> DEFINE e == p + 0 - 1
    <3>1. e \in Int /\ p \in Int /\ e < p
      BY <1>1, <2>1
    <3> HIDE DEF e
    <3>2. SubSeq(t, p, e) = <<>>
      BY <3>1, SubSeqEmpty
    <3> QED
      BY <3>2 DEF e
  <2>3. b \o <<>> = b
    BY <1>1, ConcatEmptySeq
  <2> QED
    BY <2>1, <2>2, <2>3
<1>3. ASSUME NEW j \in Nat, j + 1 <= d, At(j) PROVE At(j + 1)
  <2> DEFINE k == i + j
             q == p + j
             r == SubSeq(t, p, p + j - 1)
             c == t[q]
  <2>1. q \in 1..Len(t) /\ q <= Len(t) /\ p \in 1..Len(t) /\ q \in p..Len(t) /\ p + j - 1 = q - 1
    <3> DEFINE m == Len(t)
    <3> HIDE DEF At
    <3>1. m \in Nat /\ p \in Nat /\ 2 <= p /\ j + 1 <= d /\ p + d - 1 <= m
      BY <1>1, <1>3
    <3> HIDE DEF m
    <3>2. q <= m /\ p <= q /\ q \in Nat /\ 2 <= q
      BY <3>1
    <3> QED
      BY <3>1, <3>2 DEF m
  <2>2. ~Stops("string", t[q])
    <3>1. j \in 0..(d - 1)
      BY <1>3
    <3> QED
      BY <3>1 DEF PlainFrom
  <2>3. Stands(fs, n, ps, ds, k, q, b \o r)
    BY <1>3
  <2>4. Stands(fs, n, ps, ds, k + 1, q + 1, (b \o r) \o <<c>>)
    <3> HIDE DEF k, q, r
    <3> QED
      BY <2>1, <2>2, <2>3, OneByteOn
  <2>5. (b \o r) \o <<c>> = b \o SubSeq(t, p, q)
    <3>1. SubSeq(t, p, q) = r \o <<c>>
      <4> HIDE DEF q
      <4> QED
        BY <1>1, <2>1, SubSeqRecursiveSecond
    <3>2. r \in Seq(Byte) /\ <<c>> \in Seq(Byte)
      <4>1. c \in Byte
        BY <1>1, <2>1, ElementOfSeq
      <4>2. p + j - 1 <= Len(t) /\ p \in Nat \ {0}
        <5> HIDE DEF At
        <5>1. q - 1 <= q /\ q \in Int
          BY <1>1
        <5> HIDE DEF q
        <5> QED
          BY <1>1, <2>1, <5>1
      <4>3. r \in Seq(Byte)
        BY <1>1, <4>2, SubSeqPart
      <4> QED
        BY <4>1, <4>3
    <3> HIDE DEF r, c, q, At
    <3>3. (b \o r) \o <<c>> = b \o (r \o <<c>>)
      <4>1. b \in Seq(Byte) /\ r \in Seq(Byte) /\ <<c>> \in Seq(Byte)
        BY <1>1, <3>2
      <4> DEFINE o == <<c>>
      <4>2. o \in Seq(Byte)
        BY <4>1
      <4> HIDE DEF o
      <4>3. (b \o r) \o o = b \o (r \o o)
        BY <4>1, <4>2, ConcatAssociative, SMTT(30)
      <4> QED
        BY <4>3 DEF o
    <3> QED
      BY <3>1, <3>3
  <2>6. k + 1 = i + (j + 1) /\ q + 1 = p + (j + 1) /\ q = p + (j + 1) - 1
    <3> HIDE DEF At
    <3>1. i \in Int /\ p \in Int
      BY <1>1
    <3> QED
      BY <3>1
  <2> HIDE DEF k, q, r, c
  <2> QED
    BY <2>4, <2>5, <2>6
<1>4. 0 \in P
  BY <1>2
<1>5. ASSUME NEW j \in Nat, j \in P PROVE j + 1 \in P
  <2> SUFFICES ASSUME j + 1 <= d PROVE At(j + 1)
    OBVIOUS
  <2>1. j <= d
    OBVIOUS
  <2>2. At(j)
    BY <1>5, <2>1
  <2> HIDE DEF At
  <2> QED
    BY <1>3, <2>2
<1>6. d \in P
  <2> HIDE DEF P
  <2> QED
    BY <1>4, <1>5, InductionInSet
<1> QED
  BY <1>6

\* A scan of the text that began at a fragment has ended: at another one, behind plain
\* bytes, or where the text is cut short.
LEMMA LiteralScanned ==
    ASSUME NEW fs, NEW n, NEW ps, Spelling(fs, n, ps, text),
           NEW ds, Decoding(fs, n, ds), ScanInv,
           NEW i, NEW b, Stands(fs, n, ps, ds, i, pos, b), pos <= Len(text) + 1,
           slice = From(pos), kind = "string", scan = "done"
    PROVE  /\ dx \in Nat /\ pos \in Nat /\ Len(text) \in Nat
           /\ Stands(fs, n, ps, ds, i + dx, pos + dx, b \o SubSeq(text, pos, pos + dx - 1))
           /\ \/ pos + dx = Len(text) + 1
              \/ pos + dx <= Len(text) /\ Stops("string", text[pos + dx])
<1> DEFINE m == Len(text)
<1>1. text \in Seq(Byte) /\ m \in Nat /\ pos \in Nat /\ 2 <= pos /\ pos <= m + 1
  <2>1. n \in Nat /\ i \in 1..(n + 1) /\ pos = ps[i]
    BY DEF Spelling, Stands
  <2>2. ps[i] \in Nat /\ 2 <= ps[i]
    BY <2>1 DEF Spelling
  <2> QED
    BY <2>1, <2>2 DEF Spelling
<1>2. /\ dx \in Nat /\ dx <= Len(slice)
      /\ \A k \in 1..dx : ~Stops("string", slice[k])
      /\ dx < Len(slice) => Stops("string", slice[dx + 1])
  BY DEF ScanInv
<1>3. Len(slice) = m - pos + 1 /\ \A k \in 1..(m - pos + 1) : slice[k] = text[pos + k - 1]
  <2>1. pos \in Nat \ {0} /\ m - pos + 1 \in Nat /\ pos + (m - pos + 1) - 1 = m
    BY <1>1
  <2> DEFINE e == m - pos + 1
             x == SubSeq(text, pos, pos + e - 1)
  <2>2. e \in Nat /\ pos + e - 1 <= Len(text)
    BY <1>1, <2>1
  <2> HIDE DEF e
  <2>3. Len(x) = e /\ \A k \in 1..e : x[k] = text[pos + k - 1]
    <3>1. text \in Seq(Byte) /\ pos \in Nat \ {0} /\ e \in Nat /\ pos + e - 1 <= Len(text)
      BY <1>1, <2>1, <2>2
    <3> QED
      BY <3>1, SubSeqPart, SMTT(30)
  <2>4. x = slice
    BY <2>1 DEF From, e
  <2> QED
    BY <2>3, <2>4 DEF e
<1> HIDE DEF m
<1>4. dx <= m - pos + 1 /\ pos + dx - 1 <= m
  BY <1>1, <1>2, <1>3
<1>5. PlainFrom(text, pos, dx)
  <2> SUFFICES ASSUME NEW k \in 0..(dx - 1) PROVE ~Stops("string", text[pos + k])
    BY DEF PlainFrom
  <2>1. k + 1 \in 1..dx /\ k + 1 \in 1..(m - pos + 1) /\ pos + (k + 1) - 1 = pos + k
    BY <1>1, <1>2, <1>4
  <2>2. ~Stops("string", slice[k + 1]) /\ slice[k + 1] = text[pos + (k + 1) - 1]
    BY <1>2, <1>3, <2>1
  <2> QED
    BY <2>1, <2>2
<1>6. Stands(fs, n, ps, ds, i + dx, pos + dx, b \o SubSeq(text, pos, pos + dx - 1))
  <2>1. pos + dx - 1 <= Len(text)
    BY <1>4 DEF m
  <2> QED
    BY <1>2, <1>5, <2>1, OneByteRun
<1>7. CASE dx = m - pos + 1
  <2>1. pos + dx = m + 1
    BY <1>1, <1>2, <1>7
  <2> QED
    BY <1>1, <1>2, <1>6, <2>1 DEF m
<1>8. CASE dx # m - pos + 1
  <2>1. dx < Len(slice) /\ dx + 1 \in 1..(m - pos + 1) /\ pos + (dx + 1) - 1 = pos + dx
        /\ pos + dx <= m
    BY <1>1, <1>2, <1>3, <1>4, <1>8
  <2>2. Stops("string", slice[dx + 1]) /\ slice[dx + 1] = text[pos + (dx + 1) - 1]
    BY <1>2, <1>3, <2>1
  <2> QED
    BY <1>1, <1>2, <1>6, <2>1, <2>2 DEF m
<1> QED
  BY <1>7, <1>8
-----------------------------------------------------------------------------
(* Long escapes.                                                           *)

\* readHex4 finds no four bytes, or the four digits of s.
LEMMA HexShort ==
    ASSUME NEW p, p + 3 > Len(text)
    PROVE  Hex4(p) = -1
  BY DEF Hex4

LEMMA HexAt ==
    ASSUME NEW p \in Int, NEW s, Len(text) \in Int, p + 3 <= Len(text),
           text[p] = s[3], text[p + 1] = s[4], text[p + 2] = s[5], text[p + 3] = s[6]
    PROVE  Hex4(p) = IF InHex(s) THEN HexRune(s) ELSE -1
<1> DEFINE a == HexValue(s[3])
           b == HexValue(s[4])
           c == HexValue(s[5])
           d == HexValue(s[6])
<1>1. a \in Int /\ b \in Int /\ c \in Int /\ d \in Int
  <2>1. \A e : HexValue(e) \in Int
    <3> TAKE e
    <3> DEFINE v == HexValue(e)
    <3>1. v \in -1..15
      BY HexValueType
    <3> HIDE DEF v
    <3>2. v \in Int
      BY <3>1
    <3> QED
      BY <3>2 DEF v
  <2> QED
    BY <2>1, Zenon
<1>2. /\ HexValue(text[p + 0]) = a /\ HexValue(text[p + 1]) = b
      /\ HexValue(text[p + 2]) = c /\ HexValue(text[p + 3]) = d
  <2>1. p + 0 = p
    OBVIOUS
  <2> QED
    BY <2>1
<1>3. InHex(s) <=> a # -1 /\ b # -1 /\ c # -1 /\ d # -1
  <2>1. \A k \in 3..6 : k = 3 \/ k = 4 \/ k = 5 \/ k = 6
    OBVIOUS
  <2>2. 3 \in 3..6 /\ 4 \in 3..6 /\ 5 \in 3..6 /\ 6 \in 3..6
    OBVIOUS
  <2> QED
    BY <2>1, <2>2 DEF InHex
<1>4. (\E i \in 0..3 : HexValue(text[p + i]) = -1) <=> a = -1 \/ b = -1 \/ c = -1 \/ d = -1
  <2>1. \A i \in 0..3 : i = 0 \/ i = 1 \/ i = 2 \/ i = 3
    OBVIOUS
  <2>2. 0 \in 0..3 /\ 1 \in 0..3 /\ 2 \in 0..3 /\ 3 \in 0..3
    OBVIOUS
  <2> HIDE DEF a, b, c, d
  <2> QED
    BY <1>2, <2>1, <2>2
<1>5. HexRune(s) = 4096 * a + 256 * b + 16 * c + d
  BY DEF HexRune
<1> HIDE DEF a, b, c, d
<1>6. ~(p + 3 > Len(text))
  OBVIOUS
<1>7. CASE InHex(s)
  <2>1. Hex4(p) = 16 * (16 * (16 * a + b) + c) + d
    BY <1>2, <1>3, <1>4, <1>6, <1>7 DEF Hex4
  <2> QED
    BY <1>1, <1>5, <1>7, <2>1
<1>8. CASE ~InHex(s)
  <2>1. \E i \in 0..3 : HexValue(text[p + i]) = -1
    BY <1>3, <1>4, <1>8
  <2> QED
    BY <1>8, <2>1 DEF Hex4
<1> QED
  BY <1>7, <1>8

\* The long escape of fragment i, as far as the text goes.
LEMMA RuneAt ==
    ASSUME NEW fs, NEW n, NEW ps, Spelling(fs, n, ps, text),
           NEW i \in 1..n, Rune(fs[i]), NEW q, q = ps[i]
    PROVE  /\ q \in Nat /\ i + 1 \in 1..(n + 1) /\ ps[i + 1] = q + 6
           /\ q <= Len(text) => text[q] = BSLASH
           /\ q + 1 <= Len(text) => text[q + 1] = 117
           /\ Len(text) < q + 5 \/ q + 5 <= Len(text)
           /\ Len(text) < q + 5 => Hex4(q + 2) = -1
           /\ q + 5 <= Len(text) =>
                 Hex4(q + 2) = IF InHex(fs[i].spell) THEN HexRune(fs[i].spell) ELSE -1
<1> DEFINE s == fs[i].spell
<1>1. /\ n \in Nat /\ Len(text) \in Nat /\ q \in Nat /\ ps[i + 1] = q + Len(s)
      /\ \A j \in 1..Len(s) : q + j - 1 <= Len(text) => text[q + j - 1] = s[j]
  <2>1. n \in Nat
    BY DEF Spelling
  <2>2. i \in 1..(n + 1)
    BY <2>1
  <2> QED
    BY <2>1, <2>2 DEF Spelling
<1>2. Len(s) = 6 /\ s[1] = BSLASH /\ s[2] = 117
  BY DEF Rune, LongEscape
<1> HIDE DEF s
<1>3. \A j \in 1..6 : q + j - 1 <= Len(text) => text[q + j - 1] = s[j]
  BY <1>1, <1>2
<1>4. /\ q <= Len(text) => text[q] = s[1]
      /\ q + 1 <= Len(text) => text[q + 1] = s[2]
      /\ q + 2 <= Len(text) => text[q + 2] = s[3]
      /\ q + 3 <= Len(text) => text[q + 2 + 1] = s[4]
      /\ q + 4 <= Len(text) => text[q + 2 + 2] = s[5]
      /\ q + 5 <= Len(text) => text[q + 2 + 3] = s[6]
  <2>1. /\ q + 1 - 1 = q /\ q + 2 - 1 = q + 1 /\ q + 3 - 1 = q + 2 /\ q + 4 - 1 = q + 2 + 1
        /\ q + 5 - 1 = q + 2 + 2 /\ q + 6 - 1 = q + 2 + 3
        /\ q + 3 = q + 2 + 1 /\ q + 4 = q + 2 + 2 /\ q + 5 = q + 2 + 3
    BY <1>1
  <2>2. 1 \in 1..6 /\ 2 \in 1..6 /\ 3 \in 1..6 /\ 4 \in 1..6 /\ 5 \in 1..6 /\ 6 \in 1..6
    OBVIOUS
  <2> QED
    BY <1>3, <2>1, <2>2
<1> DEFINE m == Len(text)
           p == q + 2
<1>5. Len(text) < q + 5 => Hex4(p) = -1
  <2>1. Len(text) < q + 5 => p + 3 > Len(text)
    <3>1. m \in Nat /\ q \in Nat /\ p \in Int /\ p = q + 2
      BY <1>1
    <3> HIDE DEF m, p
    <3>2. m < q + 5 => p + 3 > m
      BY <3>1
    <3> QED
      BY <3>2 DEF m
  <2> HIDE DEF p
  <2> QED
    BY <2>1, HexShort
<1>6. q + 5 <= Len(text) => Hex4(p) = IF InHex(s) THEN HexRune(s) ELSE -1
  <2> SUFFICES ASSUME q + 5 <= Len(text)
               PROVE  Hex4(p) = IF InHex(s) THEN HexRune(s) ELSE -1
    OBVIOUS
  <2>1. /\ q + 2 <= Len(text) /\ q + 3 <= Len(text) /\ q + 4 <= Len(text)
        /\ p \in Int /\ p + 3 <= Len(text) /\ Len(text) \in Int
    BY SMTT(30), <1>1
  <2>2. text[p] = s[3] /\ text[p + 1] = s[4] /\ text[p + 2] = s[5] /\ text[p + 3] = s[6]
    BY <1>4, <2>1
  <2> HIDE DEF p
  <2> QED
    BY <2>1, <2>2, HexAt
<1>7. Len(text) < q + 5 \/ q + 5 <= Len(text)
  <2> HIDE DEF p
  <2>1. m \in Nat /\ q \in Nat
    BY <1>1
  <2> HIDE DEF m
  <2>2. m < q + 5 \/ q + 5 <= m
    BY <2>1
  <2> QED
    BY <2>2 DEF m
<1>8. i + 1 \in 1..(n + 1)
  BY <1>1
<1>9. ps[i + 1] = q + 6
  BY <1>1, <1>2
<1> QED
  BY <1>1, <1>2, <1>4, <1>5, <1>6, <1>7, <1>8, <1>9 DEF s, p
LEMMA HexRunePositive ==
    ASSUME NEW s, InHex(s)
    PROVE  HexRune(s) \in Nat
<1> DEFINE a == HexValue(s[3])
           b == HexValue(s[4])
           c == HexValue(s[5])
           d == HexValue(s[6])
<1>1. \A e : HexValue(e) # -1 => HexValue(e) \in Nat
  <2> TAKE e
  <2> DEFINE v == HexValue(e)
  <2>1. v \in -1..15
    BY HexValueType
  <2> HIDE DEF v
  <2>2. v # -1 => v \in Nat
    BY <2>1
  <2> QED
    BY <2>2 DEF v
<1>2. a # -1 /\ b # -1 /\ c # -1 /\ d # -1
  <2>1. 3 \in 3..6 /\ 4 \in 3..6 /\ 5 \in 3..6 /\ 6 \in 3..6
    OBVIOUS
  <2> QED
    BY <2>1 DEF InHex
<1>3. a \in Nat /\ b \in Nat /\ c \in Nat /\ d \in Nat
  BY <1>1, <1>2, Zenon
<1>4. HexRune(s) = 4096 * a + 256 * b + 16 * c + d
  BY DEF HexRune
<1> HIDE DEF a, b, c, d
<1> QED
  BY <1>3, <1>4

\* The digits at p are a high surrogate's, and a low surrogate's escape follows them.
Paired(p) ==
    /\ IsHigh(Hex4(p)) /\ p + 5 <= Len(text)
    /\ text[p + 4] = BSLASH /\ text[p + 5] = 117 /\ IsLow(Hex4(p + 6))

LEMMA UnicodeCases ==
    ASSUME NEW p
    PROVE  /\ Hex4(p) = -1 => Unicode(p) = <<>>
           /\ Hex4(p) # -1 /\ ~IsHigh(Hex4(p)) /\ ~IsLow(Hex4(p)) =>
                  Unicode(p) = <<Utf8(Hex4(p)), p + 4>>
           /\ (IsHigh(Hex4(p)) \/ IsLow(Hex4(p))) /\ ~Paired(p) => Unicode(p) = <<>>
           /\ Hex4(p) # -1 /\ Paired(p) =>
                  Unicode(p) = <<Utf8(DecodeRune(Hex4(p), Hex4(p + 6))), p + 10>>
<1>1. Hex4(p) = -1 => Unicode(p) = <<>>
  BY DEF Unicode
<1>2. Hex4(p) # -1 /\ ~IsHigh(Hex4(p)) /\ ~IsLow(Hex4(p)) => Unicode(p) = <<Utf8(Hex4(p)), p + 4>>
  BY DEF Unicode
<1>3. (IsHigh(Hex4(p)) \/ IsLow(Hex4(p))) /\ ~Paired(p) => Unicode(p) = <<>>
  BY DEF Unicode, Paired
<1>4. Hex4(p) # -1 /\ Paired(p) =>
          Unicode(p) = <<Utf8(DecodeRune(Hex4(p), Hex4(p + 6))), p + 10>>
  BY DEF Unicode, Paired
<1> QED
  BY <1>1, <1>2, <1>3, <1>4

\* Where a low surrogate is read, its digits are there.
LEMMA LowAt ==
    ASSUME NEW fs, NEW n, NEW ps, Spelling(fs, n, ps, text),
           NEW i \in 1..n, Rune(fs[i]), NEW q, q = ps[i], IsLow(Hex4(q + 2))
    PROVE  InHex(fs[i].spell) /\ Hex4(q + 2) = HexRune(fs[i].spell)
<1> DEFINE h == Hex4(q + 2)
<1>1. h = -1 \/ h = IF InHex(fs[i].spell) THEN HexRune(fs[i].spell) ELSE -1
  <2>1. q \in Nat /\ Len(text) \in Nat
    BY RuneAt DEF Spelling
  <2>2. Len(text) < q + 5 \/ q + 5 <= Len(text)
    BY <2>1
  <2> QED
    BY <2>2, RuneAt
<1>2. IsLow(h) /\ ~IsLow(-1)
  BY DEF IsLow
<1> HIDE DEF h
<1>3. InHex(fs[i].spell) /\ h = HexRune(fs[i].spell)
  BY <1>1, <1>2
<1> QED
  BY <1>3 DEF h

\* Only a low surrogate's escape can follow a high one's digits and make a pair.
LEMMA PairedIsHalves ==
    ASSUME NEW fs, NEW n, NEW ps, Spelling(fs, n, ps, text),
           NEW i \in 1..n, Rune(fs[i]), IsA("high", fs[i]), NEW q, q = ps[i], Paired(q + 2)
    PROVE  Halves(fs, i)
<1> DEFINE k == i + 1
           q2 == q + 6
<1>1. /\ q \in Nat /\ k \in 1..(n + 1) /\ ps[k] = q2 /\ n \in Nat /\ n = Len(fs) /\ Len(text) \in Nat
  <2>1. q \in Nat /\ i + 1 \in 1..(n + 1) /\ ps[i + 1] = q + 6
    BY RuneAt
  <2>2. n \in Nat /\ n = Len(fs) /\ Len(text) \in Nat
    BY DEF Spelling
  <2> QED
    BY <2>1, <2>2
<1>2. q2 + 1 <= Len(text) /\ text[q2] = BSLASH /\ text[q2 + 1] = 117 /\ IsLow(Hex4(q2 + 2))
  <2>1. q + 2 + 5 = q2 + 1 /\ q + 2 + 4 = q2 /\ q + 2 + 6 = q2 + 2
    BY <1>1
  <2> HIDE DEF q2
  <2> QED
    BY <2>1 DEF Paired
<1>3. q2 \in Nat /\ q2 <= Len(text)
  BY SMTT(30), <1>1, <1>2
<1> HIDE DEF q2
<1>4. k \in 1..n /\ Fragment(fs[k]) /\ BSLASH = fs[k].spell[1] /\ ps[k + 1] = q2 + Len(fs[k].spell)
  <2>1. BSLASH # QUOTE
    BY DEF BSLASH, QUOTE
  <2> HIDE DEF k
  <2>2. ps[k] <= Len(text) /\ k \in 1..(n + 1) /\ text[ps[k]] = BSLASH
    BY <1>1, <1>2, <1>3
  <2>3. /\ k \in 1..n /\ Fragment(fs[k])
        /\ text[ps[k]] = fs[k].spell[1] /\ ps[k + 1] = ps[k] + Len(fs[k].spell)
    BY <2>1, <2>2, AtFragment
  <2> QED
    BY <1>1, <2>2, <2>3
<1> HIDE DEF k
<1>5. Rune(fs[k])
  <2>1. Known(fs[k]) \/ Unknown(fs[k]) \/ Rune(fs[k])
    BY <1>4, FirstByte
  <2>2. ASSUME Known(fs[k]) \/ Unknown(fs[k]) PROVE FALSE
    <3>1. Len(fs[k].spell) = 2 /\ fs[k].spell[2] # 117
      BY <2>2, ShortReads DEF Known, Unknown
    <3>2. \A j \in 1..Len(fs[k].spell) : q2 + j - 1 <= Len(text) => text[q2 + j - 1] = fs[k].spell[j]
      BY <1>1, <1>4 DEF Spelling
    <3>3. 2 \in 1..2 /\ q2 + 2 - 1 = q2 + 1
      BY <1>3
    <3>4. text[q2 + 1] = fs[k].spell[2]
      BY <1>2, <3>1, <3>2, <3>3
    <3> QED
      BY <1>2, <3>1, <3>4
  <2> QED
    BY <2>1, <2>2
<1>6. IsLow(HexRune(fs[k].spell)) /\ InHex(fs[k].spell)
  <2>1. q2 = ps[k]
    BY <1>1
  <2> QED
    BY <1>2, <1>4, <1>5, <2>1, LowAt
<1>7. IsA("low", fs[k])
  BY <1>5, <1>6 DEF Rune
<1>8. i < n
  BY <1>1, <1>4 DEF k
<1> QED
  BY <1>1, <1>7, <1>8 DEF Halves, k

\* What the case of \u makes of fragment i: an error, its rune, or the rune of a pair.
UnicodeFails(fs, n, ps, i) ==
    Unicode(ps[i] + 2) = <<>> /\ (Len(text) # ps[n + 1] \/ (~IsA("mean", fs[i]) /\ ~Halves(fs, i)))
UnicodeAlone(fs, ps, i) ==
    IsA("mean", fs[i]) /\ Unicode(ps[i] + 2) = <<fs[i].mean, ps[i + 1]>>
UnicodePair(fs, n, ps, i) ==
    /\ Halves(fs, i) /\ i + 2 \in 1..(n + 1)
    /\ Unicode(ps[i] + 2) = <<Pair(fs[i].spell, fs[i + 1].spell), ps[i + 2]>>

LEMMA UnicodeAt ==
    ASSUME NEW fs, NEW n, NEW ps, Spelling(fs, n, ps, text), NEW i \in 1..n, Rune(fs[i])
    PROVE  UnicodeFails(fs, n, ps, i) \/ UnicodeAlone(fs, ps, i) \/ UnicodePair(fs, n, ps, i)
<1> DEFINE q == ps[i]
           p == q + 2
           s == fs[i].spell
           r == HexRune(s)
<1>1. /\ q \in Nat /\ i + 1 \in 1..(n + 1) /\ ps[i + 1] = q + 6
      /\ Len(text) < q + 5 => Hex4(p) = -1
      /\ q + 5 <= Len(text) => Hex4(p) = IF InHex(s) THEN r ELSE -1
  BY RuneAt
<1>2. /\ n \in Nat /\ n = Len(fs) /\ Len(text) \in Nat /\ Fragment(fs[i]) /\ PairsRead(fs)
      /\ p + 4 = q + 6 /\ p + 6 = q + 6 + 2 /\ p + 10 = q + 6 + 6 /\ p + 4 = ps[i + 1]
  BY SMTT(30), <1>1 DEF Spelling
<1> HIDE DEF q
<1>3. CASE Len(text) < q + 5
  <2>1. Len(text) < ps[i + 1]
    BY <1>1, <1>2, <1>3
  <2>2. Len(text) # ps[n + 1]
    BY <1>1, <2>1, CutShort
  <2>3. Unicode(p) = <<>>
    BY <1>1, <1>3, UnicodeCases
  <2> QED
    BY <2>2, <2>3 DEF UnicodeFails, q
<1>4. Len(text) < q + 5 \/ q + 5 <= Len(text)
  BY <1>1, <1>2
<1>5. CASE q + 5 <= Len(text) /\ ~InHex(s)
  <2>1. Unicode(p) = <<>>
    BY <1>1, <1>5, UnicodeCases
  <2>2. ~IsA("mean", fs[i]) /\ ~Halves(fs, i)
    BY <1>5 DEF Rune, Halves
  <2> QED
    BY <2>1, <2>2 DEF UnicodeFails, q
<1>6. CASE q + 5 <= Len(text) /\ InHex(s)
  <2>1. Hex4(p) = r /\ r # -1
    <3>1. r \in Nat
      BY <1>6, HexRunePositive
    <3> HIDE DEF r
    <3>2. r # -1
      BY <3>1
    <3> QED
      BY <1>1, <1>6, <3>2
  <2> HIDE DEF r, p
  <2>2. CASE ~IsHigh(r) /\ ~IsLow(r)
    <3>1. IsA("mean", fs[i]) /\ fs[i].mean = Utf8(r)
      BY <1>6, <2>2 DEF Rune, r
    <3>2. Unicode(p) = <<Utf8(r), p + 4>>
      BY <2>1, <2>2, UnicodeCases
    <3> QED
      BY <1>2, <3>1, <3>2 DEF UnicodeAlone, p, q
  <2>3. CASE (IsHigh(r) \/ IsLow(r)) /\ ~Paired(p)
    <3>1. Unicode(p) = <<>>
      BY <2>1, <2>3, UnicodeCases
    <3>2. ~IsA("mean", fs[i])
      BY <2>3 DEF Rune, r
    <3>3. CASE ~Halves(fs, i)
      BY <3>1, <3>2, <3>3 DEF UnicodeFails, p, q
    <3>4. CASE Halves(fs, i)
      <4> DEFINE k == i + 1
                 q2 == q + 6
      <4>1. k \in 1..n /\ IsA("low", fs[k]) /\ ps[k] = q2 /\ q2 \in Nat
        BY <1>1, <1>2, <3>4 DEF Halves
      <4>2. Fragment(fs[k])
        BY <4>1 DEF Spelling
      <4>3. Rune(fs[k])
        BY <4>1, <4>2, FragmentKinds DEF OneByte, Known, Unknown
      <4>4. IsHigh(r)
        BY <3>4 DEF Rune, Halves, r
      <4> HIDE DEF k
      <4>5. /\ q2 <= Len(text) => text[q2] = BSLASH
            /\ q2 + 1 <= Len(text) => text[q2 + 1] = 117
            /\ q2 + 5 <= Len(text) =>
                 Hex4(q2 + 2) = IF InHex(fs[k].spell) THEN HexRune(fs[k].spell) ELSE -1
            /\ ps[k + 1] = q2 + 6 /\ k + 1 \in 1..(n + 1)
        <5>1. q2 = ps[k]
          BY <4>1
        <5> HIDE DEF q2
        <5>2. q2 <= Len(text) => text[q2] = BSLASH
          BY <4>1, <4>3, <5>1, RuneAt
        <5>3. q2 + 1 <= Len(text) => text[q2 + 1] = 117
          BY <4>1, <4>3, <5>1, RuneAt
        <5>4. q2 + 5 <= Len(text) =>
                 Hex4(q2 + 2) = IF InHex(fs[k].spell) THEN HexRune(fs[k].spell) ELSE -1
          BY <4>1, <4>3, <5>1, RuneAt, SMTT(30)
        <5>5. ps[k + 1] = q2 + 6 /\ k + 1 \in 1..(n + 1)
          BY <4>1, <4>3, <5>1, RuneAt
        <5> QED
          BY <5>2, <5>3, <5>4, <5>5
      <4>6. Len(text) < q2 + 6
        <5> SUFFICES ASSUME q2 + 5 <= Len(text) PROVE FALSE
          <6>1. q2 + 5 <= Len(text) \/ Len(text) < q2 + 5
            BY <1>2, <4>1
          <6>2. Len(text) < q2 + 5 => Len(text) < q2 + 6
            BY <1>2, <4>1
          <6> QED
            BY <6>1, <6>2
        <5>1. q2 <= Len(text) /\ q2 + 1 <= Len(text)
          <6> DEFINE m == Len(text)
          <6>1. m \in Nat /\ q2 \in Nat /\ q2 + 5 <= m
            BY <1>2, <4>1
          <6> HIDE DEF m, q2
          <6>2. q2 <= m /\ q2 + 1 <= m
            BY <6>1
          <6> QED
            BY <6>2 DEF m
        <5>2. IsLow(Hex4(q2 + 2))
          BY <4>1, <4>3, <4>5 DEF Rune
        <5>3. p + 4 = q2 /\ p + 5 = q2 + 1 /\ p + 6 = q2 + 2
          BY <1>1 DEF p
        <5>4. IsHigh(Hex4(p))
          BY <2>1, <4>4
        <5> HIDE DEF q2
        <5>5. Paired(p)
          BY <4>5, <5>1, <5>2, <5>3, <5>4 DEF Paired
        <5> QED
          BY <2>3, <5>5
      <4>7. Len(text) # ps[n + 1]
        <5> HIDE DEF q2
        <5>1. k + 1 \in 1..(n + 1) /\ Len(text) < ps[k + 1]
          BY <4>5, <4>6
        <5> QED
          BY <5>1, CutShort
      <4> QED
        BY <3>1, <4>7 DEF UnicodeFails, p, q
    <3> QED
      BY <3>3, <3>4
  <2>4. CASE Paired(p)
    <3>1. IsHigh(r)
      BY <2>1, <2>4 DEF Paired
    <3>2. IsA("high", fs[i])
      BY <1>6, <3>1 DEF Rune, r
    <3>3. Halves(fs, i)
      BY <2>4, <3>2, PairedIsHalves DEF p, q
    <3> DEFINE k == i + 1
               q2 == q + 6
    <3>4. k \in 1..n /\ IsA("low", fs[k]) /\ ps[k] = q2 /\ q2 \in Nat
      BY <1>1, <1>2, <3>3 DEF Halves
    <3>5. Fragment(fs[k])
      BY <3>4 DEF Spelling
    <3>6. Rune(fs[k])
      BY <3>4, <3>5, FragmentKinds DEF OneByte, Known, Unknown
    <3> HIDE DEF k
    <3>7. ps[k + 1] = q2 + 6 /\ k + 1 \in 1..(n + 1)
      <4>1. q2 = ps[k]
        BY <3>4
      <4> HIDE DEF q2
      <4> QED
        BY <3>4, <3>6, <4>1, RuneAt
    <3>8. Hex4(q2 + 2) = HexRune(fs[k].spell)
      <4>1. q2 = ps[k] /\ IsLow(Hex4(q2 + 2))
        BY <1>2, <2>4, <3>4 DEF Paired
      <4> HIDE DEF q2
      <4> QED
        BY <3>4, <3>6, <4>1, LowAt
    <3>9. Unicode(p) = <<Utf8(DecodeRune(r, HexRune(fs[k].spell))), p + 10>>
      <4>1. p + 6 = q2 + 2
        BY <1>2
      <4> HIDE DEF q2
      <4> QED
        BY <2>1, <2>4, <3>8, <4>1, UnicodeCases
    <3>10. Pair(s, fs[k].spell) = Utf8(DecodeRune(r, HexRune(fs[k].spell)))
      <4>1. i \in 1..Len(fs)
        BY <1>2
      <4> QED
        BY <1>2, <3>3, <4>1 DEF PairsRead, k, r
    <3>11. k + 1 = i + 2
      BY DEF k
    <3>12. p + 10 = ps[i + 2]
      BY <1>2, <3>7, <3>11
    <3>13. i + 2 \in 1..(n + 1)
      BY <3>7, <3>11
    <3>14. Unicode(p) = <<Pair(s, fs[i + 1].spell), ps[i + 2]>>
      BY <3>9, <3>10, <3>12 DEF k
    <3> QED
      BY <3>3, <3>13, <3>14 DEF UnicodePair, p, q
  <2> QED
    BY <2>2, <2>3, <2>4
<1> QED
  BY <1>3, <1>4, <1>5, <1>6
-----------------------------------------------------------------------------
(* Reading a literal of fragments fs, which begin at ps and mean ds.       *)

\* The text is all of the literal, and the literal is meant.
Whole(fs, n, ps, t) == Len(t) = ps[n + 1] /\ Meant(fs)

\* The slow loop stands at a fragment; its scan is of the rest of the text.
SlowAt(fs, n, ps, ds) ==
    \E i : /\ Stands(fs, n, ps, ds, i, pos, buf)
           /\ scan # "idle" => slice = From(pos) /\ kind = "string" /\ pos <= Len(text)

\* Everything is decoded when the literal is whole, and otherwise it is an error.
Read(fs, n, ps) ==
    \/ mode = "accept" /\ pos = Len(text) + 1 /\ Whole(fs, n, ps, text) /\ result = String(Meaning(fs))
    \/ mode = "reject" /\ ~Whole(fs, n, ps, text)

Literally(fs, n, ps, ds) ==
    /\ Spelling(fs, n, ps, text) /\ Decoding(fs, n, ds)
    /\ \/ mode = "value" /\ pos = 1 /\ scan = "idle"
       \/ mode = "fast" /\ pos = 2 /\ slice = From(2) /\ kind = "string"
       \/ mode = "slow" /\ SlowAt(fs, n, ps, ds)
       \/ Read(fs, n, ps)

\* The closing quote is reached with everything understood.
LEMMA ReadWhole ==
    ASSUME NEW fs, NEW n, NEW ps, NEW ds, Spelling(fs, n, ps, text), Decoding(fs, n, ds),
           NEW i, NEW p, NEW b, Stands(fs, n, ps, ds, i, p, b), p <= Len(text), text[p] = QUOTE,
           mode' = "accept", pos' = p + 1, text' = text, result' = String(b)
    PROVE  Read(fs, n, ps)'
<1>1. i \in 1..(n + 1) /\ p = ps[i] /\ b = ds[i - 1] /\ Understood(fs, i)
  BY DEF Stands
<1>2. i = n + 1 /\ ps[i] = Len(text)
  BY <1>1, QuoteEnds
<1>3. n \in Nat
  BY DEF Spelling
<1>4. (n + 1) - 1 = n
  BY <1>3
<1>5. b = ds[n]
  BY <1>1, <1>2, <1>4
<1>6. Understood(fs, n + 1)
  BY <1>1, <1>2
<1>7. Meant(fs) /\ Meaning(fs) = ds[n]
  BY <1>6, AllUnderstood
<1>8. Whole(fs, n, ps, text) /\ p = Len(text)
  BY <1>1, <1>2, <1>7 DEF Whole
<1> QED
  BY <1>5, <1>7, <1>8 DEF Read

\* The text ends too early.
LEMMA ReadCut ==
    ASSUME NEW fs, NEW n, NEW ps, NEW ds, Spelling(fs, n, ps, text),
           NEW i \in 1..(n + 1), Len(text) < ps[i], mode' = "reject", text' = text
    PROVE  Read(fs, n, ps)'
<1>1. Len(text) # ps[n + 1]
  BY CutShort
<1> QED
  BY <1>1 DEF Read, Whole

LEMMA LiteralOpens ==
    ASSUME NEW fs, NEW n, NEW ps, NEW ds, Literally(fs, n, ps, ds), OpenString
    PROVE  Literally(fs, n, ps, ds)'
<1>1. /\ Spelling(fs, n, ps, text) /\ Decoding(fs, n, ds) /\ mode = "value" /\ pos = 1
      /\ text' = text /\ mode' = "fast" /\ pos' = pos + 1
      /\ slice' = From(pos + 1) /\ kind' = "string"
  BY DEF Literally, OpenString, StartScan, Read
<1>2. pos' = 2 /\ slice' = From(2)'
  BY <1>1 DEF From
<1> QED
  BY <1>1, <1>2 DEF Literally

\* The reader stands at the first fragment, with nothing decoded.
LEMMA StandsFirst ==
    ASSUME NEW fs, NEW n, NEW ps, NEW ds, NEW t, Spelling(fs, n, ps, t), Decoding(fs, n, ds)
    PROVE  Stands(fs, n, ps, ds, 1, 2, <<>>)
<1>1. n \in Nat /\ ps[1] = 2 /\ ds[0] = <<>>
  BY DEF Spelling, Decoding
<1>2. 1 \in 1..(n + 1) /\ 1 - 1 = 0
  BY <1>1
<1>3. Understood(fs, 1)
  BY DEF Understood
<1> QED
  BY <1>1, <1>2, <1>3 DEF Stands

LEMMA LiteralFast ==
    ASSUME NEW fs, NEW n, NEW ps, NEW ds, Literally(fs, n, ps, ds), ScanInv, FastPath
    PROVE  Literally(fs, n, ps, ds)'
<1>1. /\ Spelling(fs, n, ps, text) /\ Decoding(fs, n, ds) /\ mode = "fast" /\ scan = "done"
      /\ scan' = "idle" /\ pos = 2 /\ slice = From(pos) /\ kind = "string"
  BY DEF Literally, FastPath, EndScan, Read
<1>2. /\ Stands(fs, n, ps, ds, 1, pos, <<>>) /\ pos <= Len(text) + 1 /\ Len(text) \in Nat
      /\ text \in Seq(Byte)
  <2>1. Len(text) \in Nat \ {0} /\ text \in Seq(Byte)
    BY <1>1 DEF Spelling
  <2> QED
    BY <1>1, <2>1, StandsFirst
<1> DEFINE p == pos + dx
           run == SubSeq(text, pos, p - 1)
<1>3. /\ dx \in Nat
      /\ Stands(fs, n, ps, ds, 1 + dx, p, <<>> \o SubSeq(text, pos, pos + dx - 1))
      /\ \/ p = Len(text) + 1
         \/ p <= Len(text) /\ Stops("string", text[p])
  BY <1>1, <1>2, LiteralScanned
<1>4. <<>> \o SubSeq(text, pos, pos + dx - 1) = run
  <2>1. pos + dx - 1 = p - 1
    BY <1>1, <1>3
  <2>2. run \in Seq(Byte)
    <3>1. pos \in Nat \ {0} /\ pos + dx - 1 <= Len(text)
      BY <1>1, <1>2, <1>3
    <3>2. SubSeq(text, pos, pos + dx - 1) \in Seq(Byte)
      BY <1>2, <1>3, <3>1, SubSeqPart
    <3> QED
      BY <2>1, <3>2
  <2> HIDE DEF p
  <2> QED
    BY <2>1, <2>2, ConcatEmptySeq
<1>5. Stands(fs, n, ps, ds, 1 + dx, p, run)
  BY <1>3, <1>4
<1> HIDE DEF run
<1>6. CASE p > Len(text) /\ Reject
  <2>1. 1 + dx \in 1..(n + 1) /\ p = ps[1 + dx]
    BY <1>5 DEF Stands
  <2> HIDE DEF p
  <2>2. Len(text) < ps[1 + dx]
    <3>1. ps[1 + dx] \in Nat
      BY <1>1, <2>1 DEF Spelling
    <3> QED
      BY <1>2, <1>6, <2>1, <3>1
  <2>3. mode' = "reject" /\ text' = text
    BY <1>6 DEF Reject
  <2>4. Read(fs, n, ps)'
    BY <1>1, <2>1, <2>2, <2>3, ReadCut
  <2> QED
    BY <1>1, <2>3, <2>4 DEF Literally
<1>7. CASE p <= Len(text) /\ text[p] = QUOTE /\ Accept(String(run), p + 1)
  <2> HIDE DEF p
  <2>1. mode' = "accept" /\ result' = String(run) /\ pos' = p + 1 /\ text' = text
    BY <1>7 DEF Accept
  <2>2. Read(fs, n, ps)'
    BY <1>1, <1>5, <1>7, <2>1, ReadWhole
  <2> QED
    BY <1>1, <2>1, <2>2 DEF Literally
<1>8. CASE mode' = "slow" /\ pos' = p /\ buf' = run /\ text' = text
  <2> HIDE DEF p
  <2>1. SlowAt(fs, n, ps, ds)'
    BY <1>1, <1>5, <1>8 DEF SlowAt
  <2> QED
    BY <1>1, <1>8, <2>1 DEF Literally
<1>9. \/ p > Len(text) /\ Reject
      \/ p <= Len(text) /\ text[p] = QUOTE /\ Accept(String(run), p + 1)
      \/ mode' = "slow" /\ pos' = p /\ buf' = run /\ text' = text
  BY Zenon DEF FastPath, run
<1> QED
  BY <1>6, <1>7, <1>8, <1>9

LEMMA LiteralCloses ==
    ASSUME NEW fs, NEW n, NEW ps, NEW ds, Literally(fs, n, ps, ds), CloseString
    PROVE  Literally(fs, n, ps, ds)'
<1>1. /\ Spelling(fs, n, ps, text) /\ Decoding(fs, n, ds) /\ SlowAt(fs, n, ps, ds)
      /\ pos <= Len(text) /\ text[pos] = QUOTE
      /\ mode' = "accept" /\ result' = String(buf) /\ pos' = pos + 1 /\ text' = text
  <2>1. Len(text) \in Int
    BY DEF Literally, Spelling
  <2>2. /\ Spelling(fs, n, ps, text) /\ Decoding(fs, n, ds) /\ SlowAt(fs, n, ps, ds)
        /\ ~(pos > Len(text)) /\ text[pos] = QUOTE
        /\ mode' = "accept" /\ result' = String(buf) /\ pos' = pos + 1 /\ text' = text
    BY DEF Literally, CloseString, Accept, NextIn, AtEnd, Read
  <2>3. pos \in Int
    <3>1. PICK i : Stands(fs, n, ps, ds, i, pos, buf)
      BY <2>2 DEF SlowAt
    <3> QED
      BY <2>2, <3>1 DEF Stands, Spelling
  <2> QED
    BY <2>1, <2>2, <2>3
<1>2. PICK i : Stands(fs, n, ps, ds, i, pos, buf)
  BY <1>1 DEF SlowAt
<1>3. Read(fs, n, ps)'
  BY <1>1, <1>2, ReadWhole
<1> QED
  BY <1>1, <1>3 DEF Literally

\* In the slow loop the position is a number.
LEMMA SlowPos ==
    ASSUME NEW fs, NEW n, NEW ps, NEW ds, Spelling(fs, n, ps, text), SlowAt(fs, n, ps, ds)
    PROVE  pos \in Nat \ {0} /\ Len(text) \in Nat
<1>1. PICK i : Stands(fs, n, ps, ds, i, pos, buf)
  BY DEF SlowAt
<1>2. i \in 1..(n + 1) /\ pos = ps[i] /\ n \in Nat
  BY <1>1 DEF Stands, Spelling
<1>3. ps[i] \in Nat /\ 2 <= ps[i] /\ Len(text) \in Nat
  BY <1>2 DEF Spelling
<1> QED
  BY <1>2, <1>3

LEMMA LiteralScans ==
    ASSUME NEW fs, NEW n, NEW ps, NEW ds, Literally(fs, n, ps, ds), ScanRun
    PROVE  Literally(fs, n, ps, ds)'
<1>1. /\ Spelling(fs, n, ps, text) /\ Decoding(fs, n, ds) /\ SlowAt(fs, n, ps, ds)
      /\ ~(pos > Len(text))
      /\ text' = text /\ mode' = "slow" /\ pos' = pos /\ buf' = buf
      /\ slice' = From(pos) /\ kind' = "string"
  BY DEF Literally, ScanRun, StartScan, AtEnd, inputVars, stringVars, Read
<1>2. PICK i : Stands(fs, n, ps, ds, i, pos, buf)
  BY <1>1 DEF SlowAt
<1>3. pos <= Len(text)
  BY <1>1, SlowPos
<1>4. slice' = From(pos)'
  BY <1>1 DEF From
<1>5. SlowAt(fs, n, ps, ds)'
  BY <1>1, <1>2, <1>3, <1>4 DEF SlowAt
<1> QED
  BY <1>1, <1>5 DEF Literally

LEMMA LiteralCopies ==
    ASSUME NEW fs, NEW n, NEW ps, NEW ds, Literally(fs, n, ps, ds), ScanInv, CopyRun
    PROVE  Literally(fs, n, ps, ds)'
<1>1. /\ Spelling(fs, n, ps, text) /\ Decoding(fs, n, ds) /\ SlowAt(fs, n, ps, ds)
      /\ scan = "done" /\ scan' = "idle"
      /\ buf' = buf \o SubSeq(text, pos, pos + dx - 1) /\ pos' = pos + dx
      /\ text' = text /\ mode' = "slow"
  BY DEF Literally, CopyRun, EndScan, Read
<1>2. PICK i : /\ Stands(fs, n, ps, ds, i, pos, buf)
               /\ slice = From(pos) /\ kind = "string" /\ pos <= Len(text)
  BY <1>1 DEF SlowAt
<1>3. pos <= Len(text) + 1
  BY <1>1, <1>2, SlowPos
<1>4. Stands(fs, n, ps, ds, i + dx, pos + dx, buf \o SubSeq(text, pos, pos + dx - 1))
  BY <1>1, <1>2, <1>3, LiteralScanned
<1>5. SlowAt(fs, n, ps, ds)'
  BY <1>1, <1>4 DEF SlowAt
<1> QED
  BY <1>1, <1>5 DEF Literally

LEMMA LiteralEndsShort ==
    ASSUME NEW fs, NEW n, NEW ps, NEW ds, Literally(fs, n, ps, ds), Unterminated
    PROVE  Literally(fs, n, ps, ds)'
<1>1. /\ Spelling(fs, n, ps, text) /\ Decoding(fs, n, ds) /\ SlowAt(fs, n, ps, ds)
      /\ pos > Len(text) /\ mode' = "reject" /\ text' = text
  BY DEF Literally, Unterminated, AtEnd, Reject, Read
<1>2. PICK i : Stands(fs, n, ps, ds, i, pos, buf)
  BY <1>1 DEF SlowAt
<1>3. i \in 1..(n + 1) /\ pos = ps[i]
  BY <1>2 DEF Stands
<1>4. Len(text) < ps[i]
  BY <1>1, <1>3, SlowPos
<1>5. Read(fs, n, ps)'
  BY <1>1, <1>3, <1>4, ReadCut
<1> QED
  BY <1>1, <1>5 DEF Literally

\* A backslash: the fragment that begins there is read whole, alone or with the half
\* behind it, or is an error.
LEMMA LiteralEscapes ==
    ASSUME NEW fs, NEW n, NEW ps, NEW ds, Literally(fs, n, ps, ds), Escape
    PROVE  Literally(fs, n, ps, ds)'
<1> DEFINE e == IF pos + 1 > Len(text) THEN -1 ELSE text[pos + 1]
           u == Unicode(pos + 2)
<1>1. /\ Spelling(fs, n, ps, text) /\ Decoding(fs, n, ds) /\ SlowAt(fs, n, ps, ds)
      /\ ~(pos > Len(text)) /\ text[pos] = BSLASH
      /\ mode = "slow" /\ scan = "idle" /\ scan' = "idle" /\ text' = text
  BY DEF Literally, Escape, NextIn, AtEnd, scanVars, Read, Reject
<1>2. PICK i : Stands(fs, n, ps, ds, i, pos, buf)
  BY <1>1 DEF SlowAt
<1>3. /\ i \in 1..(n + 1) /\ pos = ps[i] /\ buf = ds[i - 1] /\ Understood(fs, i)
      /\ pos \in Nat \ {0} /\ Len(text) \in Nat /\ pos <= Len(text)
      /\ n \in Nat /\ IsSeq(fs) /\ n = Len(fs) /\ \A k \in 1..n : Fragment(fs[k])
  <2>1. i \in 1..(n + 1) /\ pos = ps[i] /\ buf = ds[i - 1] /\ Understood(fs, i)
    BY <1>2 DEF Stands
  <2>2. pos \in Nat \ {0} /\ Len(text) \in Nat
    BY <1>1, SlowPos
  <2>3. n \in Nat /\ IsSeq(fs) /\ n = Len(fs) /\ \A k \in 1..n : Fragment(fs[k])
    BY <1>1 DEF Spelling
  <2> QED
    BY <1>1, <2>1, <2>2, <2>3
<1>4. /\ i \in 1..n /\ i + 1 \in 1..(n + 1) /\ Fragment(fs[i]) /\ fs[i].spell[1] = BSLASH
      /\ ps[i + 1] = pos + Len(fs[i].spell)
  <2>1. BSLASH # QUOTE
    BY DEF BSLASH, QUOTE
  <2>2. ps[i] <= Len(text) /\ text[ps[i]] = BSLASH
    BY <1>1, <1>3
  <2> QED
    BY <1>1, <1>3, <2>1, <2>2, AtFragment
<1>5. buf \in Seq(Byte)
  <2>1. i - 1 \in 0..n
    BY <1>3
  <2> QED
    BY <1>1, <1>3, <2>1 DEF Decoding
\* The reader goes on at fragment k, with b decoded ...
<1>6. ASSUME NEW k \in 1..(n + 1), NEW b, MeansMore(fs, ds, i, k, b),
             mode' = mode, pos' = ps[k], buf' = buf \o b
      PROVE  Literally(fs, n, ps, ds)'
  <2>1. Stands(fs, n, ps, ds, k, ps[k], buf \o b)
    BY <1>3, <1>6 DEF MeansMore, Stands
  <2>2. SlowAt(fs, n, ps, ds)'
    BY <1>1, <1>6, <2>1 DEF SlowAt
  <2> QED
    BY <1>1, <1>6, <2>2 DEF Literally
\* ... or the literal is not whole.
<1>7. ASSUME mode' = "reject", ~Whole(fs, n, ps, text) PROVE Literally(fs, n, ps, ds)'
  <2>1. Read(fs, n, ps)'
    BY <1>1, <1>7 DEF Read, Whole
  <2> QED
    BY <1>1, <2>1 DEF Literally
<1>8. ASSUME ~IsA("mean", fs[i]), ~Halves(fs, i) PROVE ~Whole(fs, n, ps, text)
  <2>1. ~Meant(fs)
    BY <1>3, <1>4, <1>8, MeansNothing
  <2> QED
    BY <2>1 DEF Whole
<1>9. ASSUME Len(text) # ps[n + 1] PROVE ~Whole(fs, n, ps, text)
  BY <1>9 DEF Whole
<1>10. \/ /\ e \in DOMAIN ReadEscape
          /\ buf' = Append(buf, ReadEscape[e]) /\ pos' = pos + 2 /\ mode' = mode
       \/ e = 117 /\ u # <<>> /\ buf' = buf \o u[1] /\ pos' = u[2] /\ mode' = mode
       \/ e = 117 /\ u = <<>> /\ mode' = "reject"
       \/ e \notin DOMAIN ReadEscape \cup {117} /\ mode' = "reject"
  BY DEF Escape, Reject
<1>11. CASE pos + 1 > Len(text)
  <2>1. e = -1 /\ e \notin DOMAIN ReadEscape /\ e # 117
    BY <1>11 DEF ReadEscape
  <2>2. mode' = "reject"
    <3> HIDE DEF e, u
    <3> QED
      BY <1>10, <2>1
  <2>3. Len(text) < ps[i + 1]
    <3>1. Known(fs[i]) \/ Unknown(fs[i]) \/ Len(fs[i].spell) = 6
      BY <1>4, FirstByte
    <3>2. Len(fs[i].spell) \in Nat /\ 2 <= Len(fs[i].spell)
      BY <3>1 DEF Known, Unknown
    <3> DEFINE l == Len(fs[i].spell)
               m == Len(text)
    <3>3. l \in Nat /\ 2 <= l /\ m \in Nat /\ pos \in Nat /\ pos + 1 > m /\ ps[i + 1] = pos + l
      BY <1>3, <1>4, <1>11, <3>2
    <3> HIDE DEF l, m
    <3>4. m < pos + l
      BY <3>3
    <3> QED
      BY <3>3, <3>4 DEF m
  <2>4. Len(text) # ps[n + 1]
    BY <1>1, <1>4, <2>3, CutShort
  <2> QED
    BY <1>7, <1>9, <2>2, <2>4
<1>12. CASE ~(pos + 1 > Len(text))
  <2>1. e = fs[i].spell[2] /\ 2 <= Len(fs[i].spell)
    <3>1. Known(fs[i]) \/ Unknown(fs[i]) \/ Len(fs[i].spell) = 6
      BY <1>4, FirstByte
    <3>2. Len(fs[i].spell) \in Nat /\ 2 <= Len(fs[i].spell)
      BY <3>1 DEF Known, Unknown
    <3>3. 2 \in 1..Len(fs[i].spell) /\ ps[i] + 2 - 1 = pos + 1 /\ pos + 1 <= Len(text)
      BY <1>3, <1>12, <3>2
    <3>4. \A j \in 1..Len(fs[i].spell) :
              ps[i] + j - 1 <= Len(text) => text[ps[i] + j - 1] = fs[i].spell[j]
      BY <1>1, <1>4 DEF Spelling
    <3>5. text[pos + 1] = fs[i].spell[2]
      BY <3>3, <3>4
    <3> QED
      BY <1>12, <3>2, <3>5
  <2>2. 117 \notin DOMAIN ReadEscape
    BY ShortReads
  <2> HIDE DEF e, u
  <2>3. CASE Known(fs[i])
    <3>1. /\ e \in DOMAIN ReadEscape /\ e # 117 /\ IsA("mean", fs[i])
          /\ fs[i].mean = <<ReadEscape[e]>> /\ ps[i + 1] = pos + 2
      BY <1>4, <2>1, <2>2, <2>3 DEF Known
    <3>2. buf' = Append(buf, ReadEscape[e]) /\ pos' = ps[i + 1] /\ mode' = mode
      BY <1>10, <3>1
    <3>3. ReadEscape[e] \in Byte
      BY <3>1 DEF ReadEscape, Byte
    <3>4. buf' = buf \o fs[i].mean
      BY <1>5, <3>1, <3>2, <3>3, AppendIsConcat
    <3>5. MeansMore(fs, ds, i, i + 1, fs[i].mean)
      BY <1>1, <1>3, <1>4, <3>1, MeansAlone
    <3> QED
      BY <1>4, <1>6, <3>2, <3>4, <3>5
  <2>4. CASE Unknown(fs[i])
    <3>1. e \notin DOMAIN ReadEscape \cup {117} /\ ~IsA("mean", fs[i]) /\ ~Halves(fs, i)
      BY <2>1, <2>4 DEF Unknown, Halves
    <3> QED
      BY <1>7, <1>8, <1>10, <3>1
  <2>5. CASE Rune(fs[i])
    <3>1. e = 117 /\ e \notin DOMAIN ReadEscape
      BY <2>1, <2>2, <2>5 DEF Rune, LongEscape
    <3>2. UnicodeFails(fs, n, ps, i) \/ UnicodeAlone(fs, ps, i) \/ UnicodePair(fs, n, ps, i)
      BY <1>1, <1>4, <2>5, UnicodeAt
    <3>3. u = Unicode(ps[i] + 2)
      BY <1>3 DEF u
    <3>4. CASE UnicodeFails(fs, n, ps, i)
      <4>1. u = <<>>
        BY <3>3, <3>4 DEF UnicodeFails
      <4>2. ~Whole(fs, n, ps, text)
        BY <1>8, <1>9, <3>4 DEF UnicodeFails
      <4> QED
        BY <1>7, <1>10, <3>1, <4>1, <4>2
    <3>5. CASE UnicodeAlone(fs, ps, i)
      <4>1. IsA("mean", fs[i]) /\ u # <<>> /\ u[1] = fs[i].mean /\ u[2] = ps[i + 1]
        BY <3>3, <3>5 DEF UnicodeAlone
      <4>2. buf' = buf \o fs[i].mean /\ pos' = ps[i + 1] /\ mode' = mode
        BY <1>10, <3>1, <4>1
      <4>3. MeansMore(fs, ds, i, i + 1, fs[i].mean)
        BY <1>1, <1>3, <1>4, <4>1, MeansAlone
      <4> QED
        BY <1>4, <1>6, <4>2, <4>3
    <3>6. CASE UnicodePair(fs, n, ps, i)
      <4> DEFINE b == Pair(fs[i].spell, fs[i + 1].spell)
      <4>1. Halves(fs, i) /\ i + 2 \in 1..(n + 1) /\ u # <<>> /\ u[1] = b /\ u[2] = ps[i + 2]
        BY <3>3, <3>6 DEF UnicodePair
      <4>2. MeansMore(fs, ds, i, i + 2, b)
        BY <1>1, <1>3, <1>4, <4>1, MeansPair
      <4> HIDE DEF b
      <4>3. buf' = buf \o b /\ pos' = ps[i + 2] /\ mode' = mode
        BY <1>10, <3>1, <4>1
      <4> QED
        BY <1>6, <4>1, <4>2, <4>3
    <3> QED
      BY <3>2, <3>4, <3>5, <3>6
  <2>6. Known(fs[i]) \/ Unknown(fs[i]) \/ Rune(fs[i])
    BY <1>4, FirstByte
  <2> QED
    BY <2>3, <2>4, <2>5, <2>6
<1> QED
  BY <1>11, <1>12
-----------------------------------------------------------------------------
\* Nothing else happens to a literal.
LEMMA LiteralAlone ==
    ASSUME NEW fs, NEW n, NEW ps, NEW ds, Literally(fs, n, ps, ds)
    PROVE  /\ ~WriteString /\ ~ReadNumber /\ ~ReadLiteral /\ ~NoScalar /\ ~TrailingText
           /\ ~SkipBlank /\ ~OpenContainer
<1>1. mode \in {"value", "fast", "slow", "accept", "reject"}
  BY DEF Literally, Read
<1>2. mode = "value" => ~AtEnd /\ text[pos] = QUOTE
  <2>1. Len(text) \in Nat \ {0} /\ text[1] = QUOTE
    BY DEF Literally, Spelling
  <2>2. mode = "value" => pos = 1
    BY DEF Literally, Read
  <2> QED
    BY <2>1, <2>2 DEF AtEnd
<1>3. mode = "accept" => AtEnd
  <2>1. Len(text) \in Nat
    BY DEF Literally, Spelling
  <2>2. mode = "accept" => pos = Len(text) + 1
    BY DEF Literally, Read
  <2> QED
    BY <2>1, <2>2 DEF AtEnd
<1>4. QUOTE \notin Digits \cup {MINUS, 73, 78} /\ QUOTE \notin {116, 102, 110}
  BY DEF QUOTE, Digits, MINUS
<1>5. ~WriteString
  BY <1>1 DEF WriteString, ScanForEscape, WriteRun, WriteClose
<1>6. ~ReadNumber
  BY <1>1, <1>2, <1>4 DEF ReadNumber, OpenNumber, MantissaByte, FractionByte, FinishInteger,
                          FinishFloat, NextIn
<1>7. ~ReadLiteral
  BY <1>2, <1>4 DEF ReadLiteral, NextIn
<1>8. ~NoScalar
  BY <1>2 DEF NoScalar, NextIn
<1>9. ~TrailingText
  BY <1>3 DEF TrailingText
<1>10. ~SkipBlank /\ ~OpenContainer
  <2>1. text \in Seq(Byte)
    BY DEF Literally, Spelling
  <2>2. mode = "value" => NextIn({QUOTE})
    BY <1>2 DEF NextIn
  <2> QED
    BY <1>3, <2>1, <2>2, NothingAround
<1> QED
  BY <1>5, <1>6, <1>7, <1>8, <1>9, <1>10

LEMMA LiteralScanning ==
    ASSUME NEW fs, NEW n, NEW ps, NEW ds, Literally(fs, n, ps, ds), Scanning
    PROVE  Literally(fs, n, ps, ds)'
<1>1. /\ text' = text /\ pos' = pos /\ mode' = mode /\ result' = result
      /\ buf' = buf /\ slice' = slice /\ kind' = kind /\ scan # "idle"
  BY DEF Scanning, ScanStep, CleanBlock, BlockFound, EnterTail, CleanByte, TailDone,
         inputVars, stringVars
<1>2. From(pos)' = From(pos) /\ From(2)' = From(2)
  BY <1>1 DEF From
<1>3. SlowAt(fs, n, ps, ds) => SlowAt(fs, n, ps, ds)'
  BY <1>1, <1>2 DEF SlowAt
<1>4. Read(fs, n, ps) => Read(fs, n, ps)'
  BY <1>1 DEF Read
<1> QED
  BY <1>1, <1>2, <1>3, <1>4 DEF Literally

\* The scanners are called with bytes.
LEMMA LiteralScansInside ==
    ASSUME NEW fs, NEW n, NEW ps, NEW ds, Literally(fs, n, ps, ds), ScanInv,
           Scanning \/ ReadString
    PROVE  ScanInv'
<1> SUFFICES [ScanNext]_scanVars
  BY ScanInvNext
<1>1. text \in Seq(Byte)
  BY DEF Literally, Spelling
<1>2. \A p \in Nat \ {0} : From(p) \in Seq(Byte)
  BY <1>1 DEF From
<1>3. CASE Scanning
  BY <1>3 DEF Scanning, ScanNext
<1>4. CASE OpenString
  <2>1. pos = 1
    BY <1>4 DEF OpenString, Literally, Read
  <2>2. From(pos + 1) \in Seq(Byte)
    BY <1>2, <2>1
  <2> QED
    BY <1>4, <2>2 DEF OpenString, ScanNext, Kinds
<1>5. CASE FastPath
  BY <1>5 DEF FastPath, ScanNext
<1>6. CASE CloseString \/ Escape \/ Unterminated
  BY <1>6 DEF CloseString, Escape, Unterminated
<1>7. CASE ScanRun
  <2>1. SlowAt(fs, n, ps, ds) /\ Spelling(fs, n, ps, text)
    BY <1>7 DEF ScanRun, Literally, Read
  <2>2. pos \in Nat \ {0}
    BY <2>1, SlowPos
  <2>3. From(pos) \in Seq(Byte)
    BY <1>2, <2>2
  <2> QED
    BY <1>7, <2>3 DEF ScanRun, ScanNext, Kinds
<1>8. CASE CopyRun
  BY <1>8 DEF CopyRun, ScanNext
<1> QED
  BY <1>3, <1>4, <1>5, <1>6, <1>7, <1>8 DEF ReadString

\* Every step of a literal's reading.
LEMMA LiteralStep ==
    ASSUME NEW fs, NEW n, NEW ps, NEW ds, Literally(fs, n, ps, ds), ScanInv, ScalarNext
    PROVE  Literally(fs, n, ps, ds)' /\ ScanInv'
<1>1. Scanning \/ ReadString
  BY LiteralAlone DEF ScalarNext
<1>2. ScanInv'
  BY <1>1, LiteralScansInside
<1>3. CASE Scanning
  BY <1>2, <1>3, LiteralScanning
<1>4. CASE ReadString
  BY <1>2, <1>4, LiteralOpens, LiteralFast, LiteralCloses, LiteralScans, LiteralCopies,
     LiteralEscapes, LiteralEndsShort DEF ReadString
<1> QED
  BY <1>1, <1>3, <1>4
-----------------------------------------------------------------------------
(* The text of a literal.                                                  *)

\* What the assumption on the literals says of one.
LEMMA FragmentsOf ==
    ASSUME NEW fs \in Literals
    PROVE  /\ IsSeq(fs) /\ Len(fs) \in Nat /\ DOMAIN fs = 1..Len(fs)
           /\ \A i \in 1..Len(fs) : Fragment(fs[i]) /\ fs[i].spell \in Seq(Byte)
           /\ PairsRead(fs)
<1>1. fs \in Seq(Range(fs)) /\ \A i \in DOMAIN fs : Fragment(fs[i])
  BY LiteralsAssumption
<1>2. IsSeq(fs) /\ Len(fs) \in Nat /\ DOMAIN fs = 1..Len(fs)
  BY <1>1, IsSeqLen DEF IsSeq
<1>3. \A i \in 1..Len(fs) : Fragment(fs[i]) /\ fs[i].spell \in Seq(Byte)
  BY <1>1, <1>2, FragmentKinds
<1>4. ASSUME NEW i \in 1..Len(fs), Halves(fs, i)
      PROVE  /\ Pair(fs[i].spell, fs[i + 1].spell)
                    = Utf8(DecodeRune(HexRune(fs[i].spell), HexRune(fs[i + 1].spell)))
             /\ Pair(fs[i].spell, fs[i + 1].spell) \in Seq(Byte)
  <2> DEFINE b == Pair(fs[i].spell, fs[i + 1].spell)
             h == HexRune(fs[i].spell)
             l == HexRune(fs[i + 1].spell)
             r == 65536 + 1024 * (h - 55296) + (l - 56320)
  <2>1. Encodes(b, r)
    BY <1>2, <1>4, LiteralsAssumption
  <2>2. h \in Int /\ l \in Int
    BY HexRuneType
  <2>3. r = DecodeRune(h, l)
    <3> HIDE DEF h, l
    <3> QED
      BY <2>2 DEF DecodeRune
  <2> HIDE DEF r, h, l
  <2>4. Utf8(r) = b
    BY <2>1, Utf8Is
  <2>5. b \in Seq(Byte)
    BY <2>1 DEF Encodes
  <2> QED
    BY <2>3, <2>4, <2>5 DEF h, l
<1> QED
  BY <1>2, <1>3, <1>4 DEF PairsRead

LEMMA DecodingExists ==
    ASSUME NEW fs \in Literals
    PROVE  \E ds : Decoding(fs, Len(fs), ds)
<1> DEFINE n == Len(fs)
           parts == [i \in 1..n |-> Part(fs, i)]
<1>1. n \in Nat /\ PairsRead(fs) /\ \A i \in 1..n : Fragment(fs[i])
  BY FragmentsOf
<1>2. \A i \in 1..n : Part(fs, i) \in Seq(Byte)
  <2> TAKE i \in 1..n
  <2>1. CASE IsA("mean", fs[i])
    BY <1>1, <2>1, FragmentKinds DEF Part
  <2>2. CASE ~IsA("mean", fs[i]) /\ Halves(fs, i)
    BY <1>1, <2>2 DEF Part, PairsRead
  <2>3. CASE ~IsA("mean", fs[i]) /\ ~Halves(fs, i)
    BY <2>3, EmptySeq DEF Part
  <2> QED
    BY <2>1, <2>2, <2>3
<1>3. parts \in [1..n -> Seq(Byte)] /\ \A i \in 1..n : parts[i] = Part(fs, i)
  BY <1>2
<1> HIDE DEF parts, n
<1>4. PICK ds \in [0..n -> Seq(Byte)] : Running(ds, parts, n)
  BY <1>1, <1>3, RunningExists
<1>5. Decoding(fs, n, ds)
  BY <1>3, <1>4 DEF Running, Decoding
<1> QED
  BY <1>5 DEF n

\* What a whole literal of fragments fs spells, and where each one begins.
LEMMA SpelledOut ==
    ASSUME NEW fs \in Literals
    PROVE  LET w == Spelled(fs)
               n == Len(fs)
           IN  \E ps \in [1..(n + 1) -> Nat] :
                 /\ w \in Seq(Byte) /\ Len(w) \in Nat /\ 2 <= Len(w)
                 /\ w[1] = QUOTE /\ w[Len(w)] = QUOTE
                 /\ ps[1] = 2 /\ ps[n + 1] = Len(w)
                 /\ \A i \in 1..n : ps[i + 1] = ps[i] + Len(fs[i].spell)
                 /\ \A i \in 1..(n + 1) : 2 <= ps[i] /\ ps[i] <= Len(w)
                 /\ \A i \in 1..n : \A j \in 1..Len(fs[i].spell) : w[ps[i] + j - 1] = fs[i].spell[j]
<1> DEFINE n == Len(fs)
           ss == [i \in DOMAIN fs |-> fs[i].spell]
           f == FlattenSeq(ss)
           w == Spelled(fs)
<1>1. n \in Nat /\ DOMAIN fs = 1..n /\ \A i \in 1..n : fs[i].spell \in Seq(Byte)
  BY FragmentsOf
<1>2. /\ ss \in [1..n -> Seq(Byte)] /\ ss \in Seq(Seq(Byte)) /\ Len(ss) = n
      /\ \A i \in 1..n : ss[i] = fs[i].spell
  <2>1. (\A i \in 1..n : ss[i] = fs[i].spell) /\ DOMAIN ss = 1..n
    BY <1>1
  <2>2. ss \in [1..n -> Seq(Byte)]
    BY <1>1
  <2> HIDE DEF ss, n
  <2>3. ss \in Seq(Seq(Byte))
    BY <1>1, <2>2, SeqDef
  <2>4. Len(ss) = n
    BY <1>1, <2>1, <2>3, LenProperties
  <2> QED
    BY <2>1, <2>2, <2>3, <2>4
<1>3. w = <<QUOTE>> \o f \o <<QUOTE>>
  BY DEF Spelled
<1> HIDE DEF ss, n, f, w
<1>4. PICK g \in [0..n -> Seq(Byte)] : Running(g, ss, n)
  BY <1>1, <1>2, RunningExists
<1>5. f = g[n]
  BY <1>2, <1>4, FlattenIs DEF f
<1>6. \A k \in 0..n :
         /\ Len(g[k]) \in Nat /\ Len(g[k]) <= Len(g[n])
         /\ k < n => Len(g[k + 1]) = Len(g[k]) + Len(ss[k + 1])
         /\ k < n => \A j \in 1..Len(ss[k + 1]) : g[n][Len(g[k]) + j] = ss[k + 1][j]
  <2>1. Parts(g, ss, n)
    BY <1>1, <1>2, <1>4, JoinedParts
  <2> QED
    BY <2>1, Zenon DEF Parts
<1> DEFINE L == Len(f)
<1>7. f \in Seq(Byte) /\ L \in Nat
  <2>1. n \in 0..n
    BY <1>1
  <2> QED
    BY <1>4, <1>5, <2>1, LenProperties
<1>8. /\ w \in Seq(Byte) /\ Len(w) = L + 2 /\ w[1] = QUOTE /\ w[L + 2] = QUOTE
      /\ \A k \in 1..L : w[1 + k] = f[k]
  <2> DEFINE o == <<QUOTE>>
             a == o \o f
  <2>1. o \in Seq(Byte) /\ Len(o) = 1 /\ o[1] = QUOTE
    <3>1. QUOTE \in Byte
      BY DEF QUOTE, Byte
    <3> QED
      BY <3>1
  <2> HIDE DEF o
  <2>2. /\ a \in Seq(Byte) /\ Len(a) = 1 + L /\ a[1] = QUOTE
        /\ \A k \in 1..L : a[1 + k] = f[k]
    <3>1. /\ a \in Seq(Byte) /\ Len(a) = Len(o) + Len(f)
          /\ \A k \in 1..Len(o) : a[k] = o[k]
          /\ \A k \in 1..Len(f) : a[Len(o) + k] = f[k]
      <4>1. a \in Seq(Byte) /\ Len(a) = Len(o) + Len(f)
        BY <1>7, <2>1, ConcatParts
      <4>2. \A k \in 1..Len(o) : a[k] = o[k]
        BY <1>7, <2>1, ConcatParts
      <4>3. \A k \in 1..Len(f) : a[Len(o) + k] = f[k]
        BY <1>7, <2>1, ConcatParts
      <4> QED
        BY <4>1, <4>2, <4>3
    <3>2. 1 \in 1..Len(o)
      BY <2>1
    <3> QED
      BY <2>1, <3>1, <3>2
  <2>3. w = a \o o
    BY <1>3 DEF o, a
  <2> HIDE DEF a
  <2>4. /\ w \in Seq(Byte) /\ Len(w) = Len(a) + Len(o)
        /\ \A k \in 1..Len(a) : w[k] = a[k]
        /\ \A k \in 1..Len(o) : w[Len(a) + k] = o[k]
    <3>1. w \in Seq(Byte) /\ Len(w) = Len(a) + Len(o)
      BY <2>1, <2>2, <2>3, ConcatParts
    <3>2. \A k \in 1..Len(a) : w[k] = a[k]
      BY <2>1, <2>2, <2>3, ConcatParts
    <3>3. \A k \in 1..Len(o) : w[Len(a) + k] = o[k]
      BY <2>1, <2>2, <2>3, ConcatParts
    <3> QED
      BY <3>1, <3>2, <3>3
  <2>5. Len(w) = L + 2 /\ Len(a) + 1 = L + 2 /\ 1 \in 1..Len(a) /\ 1 \in 1..Len(o)
        /\ \A k \in 1..L : 1 + k \in 1..Len(a)
    <3> HIDE DEF L
    <3> QED
      BY <1>7, <2>1, <2>2, <2>4
  <2> QED
    BY <2>1, <2>2, <2>4, <2>5
<1> HIDE DEF L
<1> DEFINE ps == [i \in 1..(n + 1) |-> Len(g[i - 1]) + 2]
<1>9. /\ ps \in [1..(n + 1) -> Nat]
      /\ \A k \in 0..n : ps[k + 1] = Len(g[k]) + 2
      /\ \A i \in 1..(n + 1) : 2 <= ps[i] /\ ps[i] <= L + 2
  <2>1. \A i \in 1..(n + 1) : i - 1 \in 0..n
    BY <1>1
  <2>2. \A i \in 1..(n + 1) : Len(g[i - 1]) \in Nat /\ Len(g[i - 1]) <= L
    BY <1>5, <1>6, <2>1 DEF L
  <2>3. ps \in [1..(n + 1) -> Nat]
    BY <2>2
  <2>4. \A i \in 1..(n + 1) : 2 <= ps[i] /\ ps[i] <= L + 2
    BY <1>7, <2>2
  <2>5. ASSUME NEW k \in 0..n PROVE ps[k + 1] = Len(g[k]) + 2
    <3> DEFINE i == k + 1
    <3>1. i \in 1..(n + 1) /\ i - 1 = k
      BY <1>1
    <3> HIDE DEF i
    <3>2. ps[i] = Len(g[k]) + 2
      BY <3>1
    <3> HIDE DEF ps
    <3> QED
      BY <3>2 DEF i
  <2> HIDE DEF ps
  <2> QED
    BY <2>3, <2>4, <2>5
<1> HIDE DEF ps
<1>10. ps[1] = 2 /\ ps[n + 1] = L + 2
  <2>1. 0 \in 0..n /\ n \in 0..n /\ 0 + 1 = 1
    BY <1>1
  <2>2. g[0] = <<>>
    BY <1>4 DEF Running
  <2>3. ps[1] = Len(g[0]) + 2 /\ ps[n + 1] = Len(g[n]) + 2
    BY <1>9, <2>1
  <2>4. Len(g[0]) = 0
    BY <2>2
  <2> QED
    BY <1>5, <2>3, <2>4 DEF L
<1>11. ASSUME NEW i \in 1..n
       PROVE  /\ ps[i + 1] = ps[i] + Len(fs[i].spell)
              /\ \A j \in 1..Len(fs[i].spell) : w[ps[i] + j - 1] = fs[i].spell[j]
  <2> DEFINE k == i - 1
             s == fs[i].spell
             x == Len(g[k])
             m == Len(s)
  <2>1. k \in 0..n /\ k < n /\ k + 1 = i /\ i \in 0..n
    BY <1>1
  <2>2. s = ss[i] /\ m \in Nat
    BY <1>1, <1>2, LenProperties
  <2> HIDE DEF k, s
  <2>3. /\ x \in Nat /\ Len(g[i]) = x + m /\ Len(g[i]) <= L
        /\ \A j \in 1..m : f[x + j] = s[j]
    BY <1>5, <1>6, <2>1, <2>2 DEF L
  <2>4. ps[i] = x + 2 /\ ps[i + 1] = Len(g[i]) + 2
    BY <1>9, <2>1
  <2> HIDE DEF x, m
  <2>5. ps[i + 1] = ps[i] + m
    BY <2>2, <2>3, <2>4
  <2>6. ASSUME NEW j \in 1..m PROVE w[ps[i] + j - 1] = s[j]
    <3>1. x + j \in 1..L /\ ps[i] + j - 1 = 1 + (x + j)
      <4> DEFINE y == Len(g[i])
      <4>1. y = x + m /\ y <= L
        BY <2>3
      <4> HIDE DEF y
      <4> QED
        BY <1>7, <2>2, <2>3, <2>4, <4>1
    <3>2. w[1 + (x + j)] = f[x + j]
      BY <1>8, <3>1
    <3> QED
      BY <2>3, <3>1, <3>2
  <2> QED
    BY <2>5, <2>6 DEF s, m
<1>12. ps[n + 1] = Len(w)
  BY <1>8, <1>10
<1>13. Len(w) \in Nat /\ 2 <= Len(w) /\ w[Len(w)] = QUOTE
  BY <1>7, <1>8
<1>14. \A i \in 1..(n + 1) : 2 <= ps[i] /\ ps[i] <= Len(w)
  BY <1>8, <1>9
<1> QED
  BY <1>8, <1>9, <1>10, <1>11, <1>12, <1>13, <1>14 DEF w, n

\* A literal whose end is missing from some byte on, or none is, is a text that spells
\* its fragments as far as it goes.
LEMMA LiteralSpelled ==
    ASSUME NEW fs \in Literals, NEW cut \in Nat, NEW t,
           t = LET s == Spelled(fs)
               IN  SubSeq(s, 1, IF cut >= Len(s) THEN 1 ELSE Len(s) - cut)
    PROVE  \E ps : /\ Spelling(fs, Len(fs), ps, t)
                   /\ cut = 0 <=> Len(t) = ps[Len(fs) + 1]
<1> DEFINE w == Spelled(fs)
           n == Len(fs)
           e == IF cut >= Len(w) THEN 1 ELSE Len(w) - cut
<1>1. PICK ps \in [1..(n + 1) -> Nat] :
         /\ w \in Seq(Byte) /\ Len(w) \in Nat /\ 2 <= Len(w)
         /\ w[1] = QUOTE /\ w[Len(w)] = QUOTE
         /\ ps[1] = 2 /\ ps[n + 1] = Len(w)
         /\ \A i \in 1..n : ps[i + 1] = ps[i] + Len(fs[i].spell)
         /\ \A i \in 1..(n + 1) : 2 <= ps[i] /\ ps[i] <= Len(w)
         /\ \A i \in 1..n : \A j \in 1..Len(fs[i].spell) : w[ps[i] + j - 1] = fs[i].spell[j]
  BY SpelledOut
<1>2. t = SubSeq(w, 1, e)
  OBVIOUS
<1>3. /\ IsSeq(fs) /\ n \in Nat /\ n = Len(fs) /\ PairsRead(fs)
      /\ \A i \in 1..n : Fragment(fs[i]) /\ fs[i].spell \in Seq(Byte)
  BY FragmentsOf
<1> HIDE DEF w, n
<1>4. e \in Nat \ {0} /\ e <= Len(w) /\ (cut = 0 <=> e = Len(w))
  <2> DEFINE m == Len(w)
  <2>1. m \in Nat /\ 2 <= m
    BY <1>1
  <2> HIDE DEF m
  <2>2. e = IF cut >= m THEN 1 ELSE m - cut
    BY DEF m
  <2> HIDE DEF e
  <2>3. e \in Nat \ {0} /\ e <= m /\ (cut = 0 <=> e = m)
    BY <2>1, <2>2
  <2> QED
    BY <2>3 DEF m
<1> HIDE DEF e
<1>5. t \in Seq(Byte) /\ Len(t) = e /\ \A k \in 1..e : t[k] = w[k]
  <2>1. 1 \in Nat \ {0} /\ e \in Nat /\ 1 + e - 1 = e /\ \A k \in 1..e : 1 + k - 1 = k
    BY <1>4
  <2> DEFINE x == SubSeq(w, 1, 1 + e - 1)
  <2>2. x \in Seq(Byte) /\ Len(x) = e /\ \A k \in 1..e : x[k] = w[1 + k - 1]
    BY <1>1, <1>4, <2>1, SubSeqPart
  <2>3. x = t
    BY <1>2, <2>1
  <2> HIDE DEF x
  <2> QED
    BY <2>1, <2>2, <2>3
<1>6. t[1] = QUOTE /\ (Len(t) = ps[n + 1] => t[Len(t)] = QUOTE)
  <2>1. 1 \in 1..e /\ e \in 1..e
    BY <1>4
  <2> QED
    BY <1>1, <1>5, <2>1
<1>7. ASSUME NEW i \in 1..n, NEW j \in 1..Len(fs[i].spell), ps[i] + j - 1 <= Len(t)
      PROVE  t[ps[i] + j - 1] = fs[i].spell[j]
  <2> DEFINE k == ps[i] + j - 1
  <2>1. i \in 1..(n + 1) /\ Len(fs[i].spell) \in Nat
    BY <1>3, LenProperties
  <2>2. k \in 1..e
    <3>1. ps[i] \in Nat /\ 2 <= ps[i] /\ j \in Nat /\ 1 <= j /\ k <= e
      BY SMTT(30), <1>1, <1>5, <1>7, <2>1
    <3> QED
      BY <1>4, <3>1
  <2>3. w[k] = fs[i].spell[j]
    BY <1>1
  <2> HIDE DEF k
  <2>4. t[k] = fs[i].spell[j]
    BY <1>5, <2>2, <2>3
  <2> QED
    BY <2>4 DEF k
<1>8. Len(t) \in Nat \ {0} /\ Len(t) <= ps[n + 1] /\ (cut = 0 <=> Len(t) = ps[n + 1])
  BY <1>1, <1>4, <1>5
<1>9. Spelling(fs, n, ps, t)
  BY <1>1, <1>3, <1>5, <1>6, <1>7, <1>8 DEF Spelling
<1> QED
  BY <1>8, <1>9 DEF n
-----------------------------------------------------------------------------
(* The invariant: the reading is of a literal's fragments, and the text is  *)
(* the whole of it exactly when nothing was cut off.                       *)

LiteralInv ==
    IsA("read", input) =>
        /\ ScanInv
        /\ \E n, ps, ds : Literally(input.read, n, ps, ds)
                            /\ (input.cut = 0 <=> Len(text) = ps[n + 1])

LEMMA LiteralInvInit == ScalarInit => LiteralInv
<1> SUFFICES ASSUME ScalarInit, IsA("read", input) PROVE LiteralInv
  BY DEF LiteralInv
<1>1. input.read \in Literals /\ input.cut \in Nat
  <2>1. "read" \in DOMAIN input /\ input \in Inputs
    BY DEF ScalarInit, IsA
  <2>2. input \in [read : Literals, cut : 0..MaxCut]
    BY <2>1 DEF Inputs
  <2> QED
    BY <2>2, CutAssumption
<1>2. /\ text = Given(input) /\ pos = 1 /\ mode = "value" /\ ScanInit /\ scan = "idle"
  <2>1. ~IsA("write", input)
    <3>1. "read" \in DOMAIN input /\ input \in Inputs
      BY DEF ScalarInit, IsA
    <3>2. input \in [read : Literals, cut : 0..MaxCut]
      BY <3>1 DEF Inputs
    <3> QED
      BY <3>2 DEF IsA
  <2> QED
    BY <2>1 DEF ScalarInit, ScanInit
<1> DEFINE fs == input.read
           n == Len(fs)
<1>3. text = LET s == Spelled(fs)
             IN  SubSeq(s, 1, IF input.cut >= Len(s) THEN 1 ELSE Len(s) - input.cut)
  BY <1>2 DEF Given
<1>4. PICK ps : Spelling(fs, n, ps, text) /\ (input.cut = 0 <=> Len(text) = ps[n + 1])
  <2> DEFINE c == input.cut
  <2>1. c \in Nat /\ fs \in Literals
    BY <1>1
  <2> HIDE DEF c, fs
  <2>2. text = LET s == Spelled(fs)
               IN  SubSeq(s, 1, IF c >= Len(s) THEN 1 ELSE Len(s) - c)
    BY <1>3 DEF c, fs
  <2>3. \E ps : Spelling(fs, Len(fs), ps, text) /\ (c = 0 <=> Len(text) = ps[Len(fs) + 1])
    BY <2>1, <2>2, LiteralSpelled
  <2> QED
    BY <2>3 DEF c, fs
<1>5. PICK ds : Decoding(fs, n, ds)
  BY <1>1, DecodingExists
<1>6. Literally(fs, n, ps, ds)
  BY <1>2, <1>4, <1>5 DEF Literally
<1>7. ScanInv
  BY <1>2, ScanInvInit
<1> QED
  BY <1>4, <1>6, <1>7 DEF LiteralInv

LEMMA LiteralInvNext == LiteralInv /\ [ScalarNext]_scalarVars => LiteralInv'
<1> SUFFICES ASSUME LiteralInv, [ScalarNext]_scalarVars, IsA("read", input')
             PROVE  LiteralInv'
  BY DEF LiteralInv
<1>1. input' = input
  BY DEF ScalarNext, scalarVars
<1>2. PICK fs, n, ps, ds : /\ fs = input.read /\ Literally(fs, n, ps, ds)
                           /\ input.cut = 0 <=> Len(text) = ps[n + 1]
  BY <1>1 DEF LiteralInv
<1>3. ScanInv
  BY <1>1 DEF LiteralInv
<1>4. SUFFICES ScanInv' /\ Literally(fs, n, ps, ds)' /\ text' = text
  BY <1>1, <1>2 DEF LiteralInv
<1>5. CASE ScalarNext
  <2>1. Scanning \/ ReadString
    BY <1>2, <1>5, LiteralAlone DEF ScalarNext
  <2>2. text' = text
    BY <2>1 DEF Scanning, ReadString, OpenString, FastPath, CloseString, Escape, ScanRun,
                CopyRun, Unterminated, Accept, Reject, inputVars
  <2>3. Literally(fs, n, ps, ds)
    BY <1>2
  <2>4. Literally(fs, n, ps, ds)' /\ ScanInv'
    BY <1>3, <1>5, <2>3, LiteralStep
  <2> QED
    BY <2>2, <2>4
<1>6. CASE UNCHANGED scalarVars
  <2>1. /\ text' = text /\ pos' = pos /\ mode' = mode /\ result' = result
        /\ buf' = buf /\ slice' = slice /\ kind' = kind
        /\ dx' = dx /\ scan' = scan
    BY <1>6 DEF scalarVars, inputVars, stringVars, numberVars, scanVars
  <2>2. ScanInv'
    BY <1>3, <2>1 DEF ScanInv
  <2>3. From(pos)' = From(pos) /\ From(2)' = From(2)
    BY <2>1 DEF From
  <2>4. SlowAt(fs, n, ps, ds) => SlowAt(fs, n, ps, ds)'
    BY <2>1, <2>3 DEF SlowAt
  <2>5. Read(fs, n, ps) => Read(fs, n, ps)'
    BY <2>1 DEF Read
  <2>6. Literally(fs, n, ps, ds)'
    BY <1>2, <2>1, <2>3, <2>4, <2>5 DEF Literally
  <2> QED
    BY <2>1, <2>2, <2>6
<1> QED
  BY <1>5, <1>6

LEMMA LiteralInvDecodes == LiteralInv => StringDecoded
<1> SUFFICES ASSUME LiteralInv, IsA("read", input), Finished
             PROVE  IF input.cut = 0 /\ Meant(input.read)
                    THEN Accepted /\ result = String(Meaning(input.read)) ELSE mode = "reject"
  BY DEF StringDecoded
<1> DEFINE fs == input.read
<1>1. PICK n, ps, ds : Literally(fs, n, ps, ds) /\ (input.cut = 0 <=> Len(text) = ps[n + 1])
  BY DEF LiteralInv
<1>2. Read(fs, n, ps)
  BY <1>1 DEF Literally, Finished
<1>3. mode = "accept" => Accepted
  BY DEF Finished, Accepted
<1> HIDE DEF fs
<1>4. /\ mode = "accept" => Whole(fs, n, ps, text) /\ result = String(Meaning(fs))
      /\ mode = "reject" => ~Whole(fs, n, ps, text)
      /\ mode = "accept" \/ mode = "reject"
  BY <1>2 DEF Read
<1>5. Whole(fs, n, ps, text) <=> input.cut = 0 /\ Meant(fs)
  BY <1>1 DEF Whole
<1> QED
  BY <1>3, <1>4, <1>5 DEF fs

\* Every string literal, of any fragments, is read as the bytes its runs, short escapes,
\* long escapes and surrogate pairs mean, and is an error exactly when an escape or half
\* a pair is wrong, or its end is missing (parseString and the callers of readHex4).
THEOREM LiteralsExact == ScalarSpec => []StringDecoded
  BY LiteralInvInit, LiteralInvNext, LiteralInvDecodes, PTL DEF ScalarSpec
=============================================================================
