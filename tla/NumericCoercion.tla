-------------------------- MODULE NumericCoercion --------------------------
(***************************************************************************)
(* How a number of a document becomes a Go number: toInt64, toUint64 and   *)
(* toFloat64 with reflectDecode's overflow tests (reflect.go), and the     *)
(* asInt64, asUint64, AsInt32, AsUint32 and AsFloat64 that generated       *)
(* protojton code calls (protojton/convert.go), which do the same.         *)
(*                                                                         *)
(* A number of a document is an integer (an int64, or a *big.Int when it   *)
(* has more bits) or a float64.  The widths are constants.                 *)
(***************************************************************************)
EXTENDS Integers, JtonValue

CONSTANTS
    Word,       \* bits of int64 and uint64
    Precision   \* bits of a float64's fraction

ASSUME WidthsAssumption == Word \in Nat \ {0} /\ Precision \in Nat \ {0}

Signed(bits)   == -(2^(bits - 1))..(2^(bits - 1) - 1)
Unsigned(bits) == 0..(2^bits - 1)

\* A number n, or n and a half.
IntNum(n)   == Num([form |-> "int", n |-> n, half |-> FALSE])
FloatNum(n) == Num([form |-> "float", n |-> n, half |-> FALSE])
HalfNum(n)  == Num([form |-> "float", n |-> n, half |-> TRUE])

IsNum(d)   == "num" \in DOMAIN d
IsWhole(d) == IsNum(d) /\ ~d.num.half

\* A conversion's result: a number, or an error.
Got(n) == [ok |-> TRUE, n |-> n]
Failed == [ok |-> FALSE, n |-> 0]
OnlyIf(test, n) == IF test THEN Got(n) ELSE Failed
-----------------------------------------------------------------------------
\* int64(f) and uint64(f) for a whole f.  Out of range, Go leaves the result to
\* the processor: arm64 takes the nearest end, amd64 the lowest int64, and for
\* an unsigned number the middle or 0, by the compiler's release.
Processors == {"arm64", "amd64", "amd64-xor"}
SignedOutside(n, cpu) == IF cpu = "arm64" /\ n > 0 THEN 2^(Word - 1) - 1 ELSE -(2^(Word - 1))
UnsignedOutside(cpu) ==
    CASE cpu = "arm64"     -> 2^Word - 1
      [] cpu = "amd64"     -> 2^(Word - 1)
      [] cpu = "amd64-xor" -> 0

\* toInt64 and asInt64.
ToInt64(d, cpu) ==
    IF ~IsWhole(d) THEN Failed
    ELSE IF d.num.n \in Signed(Word) THEN Got(d.num.n)
    ELSE IF d.num.form = "float" THEN Got(SignedOutside(d.num.n, cpu))
    ELSE Failed

\* toUint64 and asUint64.
ToUint64(d, cpu) ==
    IF ~IsWhole(d) \/ d.num.n < 0 THEN Failed
    ELSE IF d.num.n \in Unsigned(Word) THEN Got(d.num.n)
    ELSE IF d.num.form = "float" THEN Got(UnsignedOutside(cpu))
    ELSE Failed

\* int32(n), SetInt: the low bits.
Cut(n, bits) == ((n + 2^(bits - 1)) % 2^bits) - 2^(bits - 1)

\* Mutant: only the upper end is tested.
AsInt_OneEnd(d, bits, cpu) ==
    LET r == ToInt64(d, cpu) IN OnlyIf(r.ok /\ r.n < 2^(bits - 1), Cut(r.n, bits))

\* OverflowInt and SetInt, AsInt32, AsInt64; the same of unsigned numbers.
AsInt(d, bits, cpu) ==
    LET r == ToInt64(d, cpu) IN OnlyIf(r.ok /\ r.n \in Signed(bits), Cut(r.n, bits))
AsUint(d, bits, cpu) ==
    LET r == ToUint64(d, cpu) IN OnlyIf(r.ok /\ r.n \in Unsigned(bits), r.n % 2^bits)

\* float64(n): the nearest number with Precision bits, of two the even one.
Ulp(n) ==
    CHOOSE u \in {2^e : e \in 0..(Word + 2)} :
        /\ n \in -(2^Precision * u)..(2^Precision * u)
        /\ u = 1 \/ n \notin -(2^Precision * (u \div 2))..(2^Precision * (u \div 2))
Nearest(n) ==
    LET u == Ulp(n)  q == n \div u  r == n % u
    IN  IF 2 * r < u \/ (2 * r = u /\ q % 2 = 0) THEN q * u ELSE (q + 1) * u

\* toFloat64 and AsFloat64: the number as a float.
AsFloat(d) ==
    IF ~IsNum(d) THEN Failed
    ELSE Got(IF d.num.form = "float" THEN d ELSE FloatNum(Nearest(d.num.n)))
-----------------------------------------------------------------------------
\* The floats the conversions leave to the processor.
LeftToProcessor(d, range) ==
    IsWhole(d) /\ d.num.form = "float" /\ d.num.n \notin range
=============================================================================
