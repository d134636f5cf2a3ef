------------------------------ MODULE ByteScan ------------------------------
(***************************************************************************)
(* The byte scanners (scan.go, simd_amd64.go, simd_amd64.s): find the first*)
(* byte of a slice that ends a run of plain string bytes.  escapeIndex     *)
(* serves the writer, scanStringBody the parser.  Short slices, and every  *)
(* machine without AVX2, are scanned a byte at a time; the others Block    *)
(* bytes at a time, with the rest scanned byte by byte.                    *)
(*                                                                         *)
(* The code has dx as an offset from the start of the slice, as here.      *)
(***************************************************************************)
EXTENDS Integers, Sequences

CONSTANTS
    Block,      \* bytes per vector: 32 in the code
    Threshold,  \* avx2Threshold: 32 in the code
    UseAVX2     \* useAVX2: whether the machine has the kernels

ASSUME BlockAssumption ==
    Block \in Nat \ {0} /\ Threshold \in Nat /\ UseAVX2 \in BOOLEAN

VARIABLES
    slice,      \* the bytes scanned
    kind,       \* which scanner: "escape" or "string"
    dx,         \* the offset reached; when scan is "done", the result
    scan        \* "idle", or the loop that runs: "loop", "tail"; or "done"

scanVars == <<slice, kind, dx, scan>>

Byte  == 0..255
Kinds == {"escape", "string"}

QUOTE  == 34
BSLASH == 92
-----------------------------------------------------------------------------
\* The loops of escapeIndexScalar and scanStringScalar, and the tails of both
\* kernels, which compare a byte widened to 32 bits.
Stops(k, c) == c = QUOTE \/ c = BSLASH \/ (k = "escape" /\ c < 32)

\* A byte as the signed number VPCMPGTB takes it for.
Signed(c) == IF c >= 128 THEN c - 256 ELSE c

\* Mutant: the lanes are compared without the bias.
Lane_Unbiased(k, c) ==
    c = QUOTE \/ c = BSLASH \/ (k = "escape" /\ Signed(32) > Signed(c))

\* One lane of a vector step: VPCMPEQB twice, and for control bytes VPADDB
\* with the bias and VPCMPGTB with the limit.
Lane(k, c) ==
    c = QUOTE \/ c = BSLASH \/ (k = "escape" /\ Signed(160) > Signed((c + 128) % 256))

\* The lanes set in the vector that begins at offset d (VPMOVMSKB), from 1.
Lanes(k, s, d) == {l \in 1..Block : Lane(k, s[d + l])}

\* BSFL: the lowest lane set.
Lowest(S) == CHOOSE l \in S : \A m \in S : l <= m
-----------------------------------------------------------------------------
ScanInit ==
    /\ slice = <<>>
    /\ kind = "string"
    /\ dx = 0
    /\ scan = "idle"

\* escapeIndex and scanStringBody are called with s.
StartScan(k, s) ==
    /\ scan = "idle"
    /\ slice' = s
    /\ kind' = k
    /\ dx' = 0
    /\ scan' = IF UseAVX2 /\ Len(s) >= Threshold THEN "loop" ELSE "tail"

\* Mutant: the offset is not moved behind the vector.
CleanBlock_Stays ==
    /\ scan = "loop"
    /\ Len(slice) - dx >= Block
    /\ Lanes(kind, slice, dx) = {}
    /\ UNCHANGED scanVars

\* A vector without a hit.
CleanBlock ==
    /\ scan = "loop"
    /\ Len(slice) - dx >= Block
    /\ Lanes(kind, slice, dx) = {}
    /\ dx' = dx + Block
    /\ UNCHANGED <<slice, kind, scan>>

\* found, found2: a vector with a hit.
BlockFound ==
    /\ scan = "loop"
    /\ Len(slice) - dx >= Block
    /\ Lanes(kind, slice, dx) # {}
    /\ dx' = dx + Lowest(Lanes(kind, slice, dx)) - 1
    /\ scan' = "done"
    /\ UNCHANGED <<slice, kind>>

\* JL tail: less than a vector is left.
EnterTail ==
    /\ scan = "loop"
    /\ Len(slice) - dx < Block
    /\ scan' = "tail"
    /\ UNCHANGED <<slice, kind, dx>>

\* A byte without a hit.
CleanByte ==
    /\ scan = "tail"
    /\ dx < Len(slice)
    /\ ~Stops(kind, slice[dx + 1])
    /\ dx' = dx + 1
    /\ UNCHANGED <<slice, kind, scan>>

\* retdx, none: a hit, or the end of the slice.
TailDone ==
    /\ scan = "tail"
    /\ dx < Len(slice) => Stops(kind, slice[dx + 1])
    /\ scan' = "done"
    /\ UNCHANGED <<slice, kind, dx>>

\* The caller has used the result.
EndScan == scan' = "idle" /\ UNCHANGED <<slice, kind, dx>>

ScanStep == CleanBlock \/ BlockFound \/ EnterTail \/ CleanByte \/ TailDone

\* Any sequence of calls on any slices.
ScanNext ==
    \/ \E k \in Kinds : \E s \in Seq(Byte) : StartScan(k, s)
    \/ ScanStep
    \/ (scan = "done" /\ EndScan)

ScanSpec == ScanInit /\ [][ScanNext]_scanVars
-----------------------------------------------------------------------------
\* What the scalar functions promise and the kernels are tested against
\* (simd_test.go): the result is the offset of the first byte that stops the
\* scan, or the length of the slice.
ScanExact ==
    scan = "done" =>
        /\ dx \in 0..Len(slice)
        /\ \A i \in 1..dx : ~Stops(kind, slice[i])
        /\ dx < Len(slice) => Stops(kind, slice[dx + 1])
=============================================================================
