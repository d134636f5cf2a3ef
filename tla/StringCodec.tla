---------------------------- MODULE StringCodec ----------------------------
(***************************************************************************)
(* String literals, written (writeQuoted, encode.go) and read (parseString,*)
(* decode.go).  Both hop from one special byte to the next with the        *)
(* scanners of ByteScan, copying what lies between.                        *)
(***************************************************************************)
EXTENDS ScalarInput

VARIABLES
    rest,       \* writing: the bytes of the string still to be written
    buf         \* the bytes written, or the bytes decoded so far

stringVars == <<rest, buf>>

\* hexDigits, and the value of a hexadecimal digit in either case.
HexDigit(d) == IF d < 10 THEN 48 + d ELSE 87 + d
HexValue(c) ==
    CASE c \in Digits  -> c - 48
      [] c \in 97..102 -> c - 87
      [] c \in 65..70  -> c - 55
      [] OTHER         -> -1

\* The bytes the writer has a short escape for, and what follows its backslash.
ShortEscape ==
    [c \in {34, 92, 10, 13, 9, 8, 12} |->
        CASE c = 10 -> 110 [] c = 13 -> 114 [] c = 9 -> 116 [] c = 8 -> 98 [] c = 12 -> 102
          [] OTHER -> c]

\* The reader's cases, and the bytes they mean; it also takes an escaped slash.
ReadEscape ==
    [e \in {34, 92, 47, 110, 114, 116, 98, 102} |->
        CASE e = 110 -> 10 [] e = 114 -> 13 [] e = 116 -> 9 [] e = 98 -> 8 [] e = 102 -> 12
          [] OTHER -> e]
-----------------------------------------------------------------------------
\* Mutant: every control byte is given a short escape's form.
EscapeOf_NoHex(c) ==
    <<BSLASH, IF c \in DOMAIN ShortEscape THEN ShortEscape[c] ELSE c>>

\* What writeQuoted writes for a byte escapeIndex stopped at.
EscapeOf(c) ==
    IF c \in DOMAIN ShortEscape THEN <<BSLASH, ShortEscape[c]>>
    ELSE <<BSLASH, 117, 48, 48, HexDigit(c \div 16), HexDigit(c % 16)>>

\* escapeIndex is called on what is left of the string.
ScanForEscape ==
    /\ mode = "write"
    /\ rest # <<>>
    /\ StartScan("escape", rest)
    /\ UNCHANGED <<inputVars, stringVars>>

\* The bytes before the one found are copied, and that one is escaped.
WriteRun ==
    /\ mode = "write"
    /\ scan = "done"
    /\ buf' = buf \o SubSeq(rest, 1, dx)
                  \o (IF dx = Len(rest) THEN <<>> ELSE EscapeOf(rest[dx + 1]))
    /\ rest' = SubSeq(rest, dx + 2, Len(rest))
    /\ EndScan
    /\ UNCHANGED inputVars

\* The closing quote; what was written becomes the text to be read.
WriteClose ==
    /\ mode = "write"
    /\ rest = <<>>
    /\ scan = "idle"
    /\ text' = buf \o <<QUOTE>>
    /\ mode' = "value"
    /\ UNCHANGED <<pos, result, stringVars, scanVars>>
-----------------------------------------------------------------------------
String(bytes) == [string |-> bytes]

\* utf8.AppendRune
Utf8(r) ==
    LET Low6(n) == 128 + (n % 64) IN
    IF r < 128 THEN <<r>>
    ELSE IF r < 2048 THEN <<192 + r \div 64, Low6(r)>>
    ELSE IF r < 65536 THEN <<224 + r \div 4096, Low6(r \div 64), Low6(r)>>
    ELSE <<240 + r \div 262144, Low6(r \div 4096), Low6(r \div 64), Low6(r)>>

\* The first half of a surrogate pair (0xD800 to 0xDBFF), and the second.
IsHigh(r) == 55296 <= r /\ r < 56320
IsLow(r)  == 56320 <= r /\ r < 57344

\* utf16.DecodeRune
DecodeRune(high, low) == 65536 + (high - 55296) * 1024 + (low - 56320)

\* readHex4: the four digits at p, or -1.
Hex4(p) ==
    LET digit(i) == HexValue(text[p + i]) IN
    IF p + 3 > Len(text) \/ \E i \in 0..3 : digit(i) = -1 THEN -1
    ELSE 16 * (16 * (16 * digit(0) + digit(1)) + digit(2)) + digit(3)

\* Mutant: what follows a high surrogate is not asked to be a low one.
Unicode_AnyLow(p) ==
    LET r == Hex4(p)
        paired == /\ IsHigh(r)
                  /\ p + 5 <= Len(text)
                  /\ text[p + 4] = BSLASH /\ text[p + 5] = 117
    IN  IF r = -1 THEN <<>>
        ELSE IF ~IsHigh(r) /\ ~IsLow(r) THEN <<Utf8(r), p + 4>>
        ELSE IF paired THEN <<Utf8(DecodeRune(r, Hex4(p + 6))), p + 10>> ELSE <<>>

\* case 'u': the bytes meant by the escape whose digits begin at p, and where
\* it ends; <<>> for an error.  Two surrogates make one rune.
Unicode(p) ==
    LET r == Hex4(p)
        paired == /\ IsHigh(r)
                  /\ p + 5 <= Len(text)
                  /\ text[p + 4] = BSLASH /\ text[p + 5] = 117
                  /\ IsLow(Hex4(p + 6))
    IN  IF r = -1 THEN <<>>
        ELSE IF ~IsHigh(r) /\ ~IsLow(r) THEN <<Utf8(r), p + 4>>
        ELSE IF paired THEN <<Utf8(DecodeRune(r, Hex4(p + 6))), p + 10>> ELSE <<>>
-----------------------------------------------------------------------------
\* parseString: the opening quote, and the scan of the fast path.
OpenString ==
    /\ mode = "value"
    /\ NextIn({QUOTE})
    /\ StartScan("string", From(pos + 1))
    /\ pos' = pos + 1
    /\ mode' = "fast"
    /\ UNCHANGED <<text, result, stringVars>>

\* The fast path ends at the closing quote, at a backslash, or nowhere.
FastPath ==
    /\ mode = "fast"
    /\ scan = "done"
    /\ EndScan
    /\ LET p == pos + dx
           run == SubSeq(text, pos, p - 1)
       IN  \/ p > Len(text) /\ Reject /\ UNCHANGED stringVars
           \/ /\ p <= Len(text) /\ text[p] = QUOTE
              /\ Accept(String(run), p + 1)
              /\ UNCHANGED stringVars
           \/ /\ p <= Len(text) /\ text[p] # QUOTE
              /\ mode' = "slow" /\ pos' = p /\ buf' = run
              /\ UNCHANGED <<text, result, rest>>

\* The slow loop: the closing quote.
CloseString ==
    /\ mode = "slow" /\ scan = "idle"
    /\ NextIn({QUOTE})
    /\ Accept(String(buf), pos + 1)
    /\ UNCHANGED <<stringVars, scanVars>>

\* A backslash and the byte after it.
Escape ==
    /\ mode = "slow" /\ scan = "idle"
    /\ NextIn({BSLASH})
    /\ LET e == IF pos + 1 > Len(text) THEN -1 ELSE text[pos + 1]
           u == Unicode(pos + 2)
       IN  \/ /\ e \in DOMAIN ReadEscape
              /\ buf' = Append(buf, ReadEscape[e])
              /\ pos' = pos + 2
              /\ UNCHANGED <<text, mode, result, rest>>
           \/ /\ e = 117 /\ u # <<>>
              /\ buf' = buf \o u[1]
              /\ pos' = u[2]
              /\ UNCHANGED <<text, mode, result, rest>>
           \/ /\ e = 117 /\ u = <<>>
              /\ Reject /\ UNCHANGED stringVars
           \/ /\ e \notin DOMAIN ReadEscape \cup {117}
              /\ Reject /\ UNCHANGED stringVars
    /\ UNCHANGED scanVars

\* Any other byte: the clean run that begins there is found ...
ScanRun ==
    /\ mode = "slow" /\ scan = "idle" /\ ~AtEnd
    /\ text[pos] \notin {QUOTE, BSLASH}
    /\ StartScan("string", From(pos))
    /\ UNCHANGED <<inputVars, stringVars>>

\* ... and copied.
CopyRun ==
    /\ mode = "slow"
    /\ scan = "done"
    /\ buf' = buf \o SubSeq(text, pos, pos + dx - 1)
    /\ pos' = pos + dx
    /\ EndScan
    /\ UNCHANGED <<text, mode, result, rest>>

Unterminated ==
    /\ mode = "slow" /\ scan = "idle" /\ AtEnd
    /\ Reject
    /\ UNCHANGED <<stringVars, scanVars>>

\* One iteration of a scanner's loop.
Scanning == ScanStep /\ UNCHANGED <<inputVars, stringVars>>

WriteString == ScanForEscape \/ WriteRun \/ WriteClose
ReadString ==
    OpenString \/ FastPath \/ CloseString \/ Escape \/ ScanRun \/ CopyRun \/ Unterminated
=============================================================================
