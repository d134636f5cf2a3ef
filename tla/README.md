# A verification project for jton-go

jton-go reads and writes JTON, a superset of JSON whose Zen Grid writes a list
of like objects as a table: `[2: id, name; 1, "Alice"; 2, "Bob" ]`. The code is
almost entirely sequential. What is hard in it is that several halves have to
agree about things neither states: a parser and an encoder about a format in
which the same byte means different things in different places, a direct path and
a tree path about one text, a reader and a writer of Go values or of protobuf
messages about what was there before. Each takes shortcuts (an index built
late, an append that does not look for duplicates, a sample instead of a scan)
that are right only because of something done elsewhere.

The modules here are written from the Go source. Line numbers in comments and in
`PROJECT.json` are those of `src/`.

## The system

| Part | Source | State | Operations | What makes it correct |
|---|---|---|---|---|
| Object | value.go | member slice, index built late | Set, Get, pushUnique, setOrPush, Keys | an insertion-ordered dictionary, with or without the index |
| Parser, containers | decode.go | position, depth, open containers | parseValue, parseObject, parseArrayOrGrid, parseZenGrid, parseHeaders, parseRow, parseCellValue | accepts JSON, ends, bounds nesting, completes rows |
| Parser, lexing | decode.go, scan.go | position, scratch buffer | skipWS, parseString, parseNumber, parseLiteral | JSON's numbers and strings and the special words, exactly |
| Detection | encode.go | none | detectZenGrid | a table only where one loses nothing the docs promise |
| Encoder | encode.go | buffer, depth argument | encode, writeZenFrame, writeZenRow, writeQuoted | its text parses back; stable under repetition |
| Normalisation | encode.go | none | normalize | canonical trees, copied only on change |
| Streaming writer | stream.go | buffer, stack of element counts | Begin/End, Field, values, Table, Cells | the text Marshal would write |
| Struct tables | marshal_reflect.go | plan cache | tryStructTable | the text the tree path would write |
| Reflection encoder | reflect.go | field cache | computeFields, reflectEncode | encoding/json's rules |
| Reflection decoder | reflect.go | the caller's value | reflectDecode | holds what the document says; what an error leaves behind |
| Type caches | marshal_reflect.go, reflect.go | two maps shared by goroutines | load, compute, store | no reader sees half a plan |
| Numeric coercion | reflect.go, protojton/convert.go | none | toInt64 and its like | in range or an error |
| Scanners | scan.go, simd_amd64.s | none | escapeIndex, scanStringBody | vector and scalar agree |
| Float formatting | number.go, number_ryu.go | none | appendFloat | shortest, parses back |
| API, command line | jton.go, cmd/jton | none | ToJSON, Decoder, Encoder, run | compositions of the above |
| protojton | protojton/ | the message, reused by its caller | runtime, conversions, generated codecs | messages survive; Unmarshal merges |

Interactions are plain calls. Parse builds Objects (with Set for JSON objects,
with setOrPush for table rows); Marshal tries the struct path, otherwise turns its
argument into a tree and walks it; the writer, the struct path and the
tree path share writeZenFrame and the cell primitives; Unmarshal parses a tree and
decodes it into the caller's value, and generated codecs do the same for
messages. The only state shared between goroutines are the two type caches.
Nothing is persisted and there is no network. So the hazards are long call
sequences that reach a wrong state, boundaries (17th key, 257th level, 10th row,
the ends of int64, half a surrogate pair), state that is stale when used (the
index, the sample, what a target held before), steps that fail half way, loops
that have to end, and the races on the caches. They are listed in
`PROJECT.json`, each at its line, with the properties that are about it.

## Modules

| Module | Models | Notes |
|---|---|---|
| `OrderedMap` | what Object promises | order and content; no index |
| `JtonObject` | value.go, parseRow's use of it, headersUnique | refines OrderedMap |
| `JtonObjectProofs` | | theorems about JtonObject |
| `JtonValue` | the value tree, tokens | shared by the modules over trees |
| `ZenParser` | decode.go, containers and tables | a state machine |
| `ZenParserProofs` | | theorems about ZenParser |
| `ZenDetect` | detectZenGrid and the cell tests | operators |
| `ZenLayout` | keys, headers, separators of compact output | operators, shared by the two below and ZenWriter |
| `ZenText` | encode and the functions it calls, one level deep | operators over a constant `Encode`, what a nested call returns |
| `ZenEncoder` | encode, and its depth check | ZenText with the recursion closed |
| `RoundTrip` | load, marshal, load again | composes ZenParser and ZenEncoder |
| `ZenWriter` | stream.go | a state machine over calls |
| `ZenWriterProofs` | | theorems about ZenWriter |
| `WriterReload` | a writer and a reader of its buffer | composes ZenWriter and ZenParser |
| `ByteScan` | the vector and byte scanners | a state machine |
| `ScalarInput` | the text and position all lexers share | |
| `StringCodec` | writeQuoted, parseString | extends ByteScan, whose scans are its steps |
| `NumberToken` | appendFloat's layout, parseNumber, numberFromToken | |
| `ScalarText` | a scalar written and read, or any text read | composes the three above |
| `ScalarTextProofs` | | theorems about ByteScan, and about strings written and string literals read in ScalarText |
| `ScalarLanguageProofs` | | theorems about which numbers and literals ScalarText accepts |
| `NumberProofs` | | theorems about numbers written and read back in ScalarText |
| `StructType` | struct types, as reflection shows them | |
| `FieldSet` | computeFields; encoding/json's rule beside it | operators |
| `GoValue` | Go values, reflectEncode | operators |
| `StructTable` | tryStructTable and the tree path | composes GoValue and ZenEncoder |
| `PlanCache` | scalarTablePlan, called by any number of goroutines | a state machine |
| `PlanCacheProofs` | | theorems about PlanCache |
| `TypeCache` | goroutines marshalling through the two caches | composes FieldSet, StructTable and PlanCache; refines PlanCache |
| `NumericCoercion` | a document's number as a Go number | operators |
| `ReflectDecode` | Unmarshal into a target used again and again | composes GoValue and NumericCoercion |
| `ProtoCodec` | what the generator generates, lists of messages | composes NumericCoercion |
| `ProtoSession` | calls of the protojton runtime on one message | a state machine over calls |
| `SequenceFacts` | | lemmas about sequences that the proofs share |
| `MC*` | | inputs for TLC |

### Object

`members` and `index` are the fields; a nil index is the empty function, which
is exact because buildIndex never runs on an empty slice and no key is ever
removed. `StoreCell`, `FillNull` and `ReturnRow` are parseRow's stores, `Set` and
`Get` the caller's calls afterwards. setOrPush's choice is made from the whole
header list by `HeadersUnique`, which keeps both of the code's algorithms.
The limits 16 and 8 are constants. `answer` records the last call with its key,
so that the refinement ties each change to the key it was asked for: an index
that leads to another key's member is no dictionary.

### Parser

A text is a sequence of tokens: punctuation bytes, whitespace bytes, comments,
maximal runs of `[A-Za-z0-9_]`, and whole string literals. Runs are classified
by what parseValue makes of them: `Numbers`, `Literals`, `FalseStarts` (begin
like a literal and are none, such as `nope`: in a cell these are errors, not
words) and `Names`. A string value is the sequence of pieces it is spelled with,
so the quoted string `"a b"` and the bare cell `a b` are the same value.

The code's recursion is the stack of open containers, and `mode` says which loop
runs next; an action is everything the code does between two such points, so that
the whitespace it skips and the position it reads at are the code's own. There
are three whitespace rules (skipWS, skipSpacesOnly, isAsciiSpace) and they are
kept apart. The members of an object are updated with `Put`, justified by the
proofs about JtonObject.

Left out here: runs that begin with a digit and go on with letters, a slash that begins
no comment, a minus sign before a number, and a string literal inside bare cell
text (it shows only its quote). A comment is one token here; where it ends is in `ScalarText`. Negative numbers are one token of `Numbers`
as far as a value goes; that they are no row count is not modelled. The position
in an error and its wording are left out: an error is the mode "reject". What is a
number and what a string literal means is the subject of the next part.

### Strings, numbers and scanners

These modules work on bytes, as numbers. `ByteScan` has the offset `dx` of the assembly,
a vector of `Block` bytes, the dispatch on `Threshold` and `UseAVX2`, and the byte
loop that ends every scan; a vector step computes its lanes with the biased,
signed comparison of VPCMPGTB. A scan is not one operator but steps of its own:
`StringCodec` calls it with `StartScan`, waits for "done" and goes on with the
result, as writeQuoted and both paths of parseString do.

`NumberToken` keeps the two loops of the code apart: parseNumber collects the bytes
that may occur in a number, numberFromToken walks over them again. A float is its
shortest decimal, sign, digits and position of the point; the decimal
conversions on either side (Ryu's, strconv's and big.Int's) are taken to be exact, so
overflow to an infinity is left out. `Cutoff` is parseInt64's
constant, half the values of the machine word: 2^63 in the code.

`ScalarText` starts from one input and follows it to the end: a string or a number
to be written and read back, a literal given as fragments with their meaning and
possibly cut short, or any text. skipWS is a step for each thing it skips (`Item`: a white
byte, a line or block comment, a byte order mark at the very start), before the value and
behind it. At a bracket the text is ZenParser's: mode is "container" from there, and nothing is claimed.

### Encoder and detection

`EncodeStep` is one operator for encode, encodeObject, encodeListOrTable and
writeArray; `CellOf`, `RowText` and `TableText` are writeZenRow and
writeZenFrame. Where they call encode again they use the constant `Encode`.
`ZenEncoder` closes the loop: its recursive `EncodedText` is `EncodeStep` of `ZenText` instantiated with
`EncodedText` itself as `Encode`, and that is what `RoundTrip`, `StructTable` and the writer's run use. `ZenWriter` extends `ZenText`, with `Encode` left a
constant, so that it reaches no RECURSIVE operator and theorems can be proved about it. `Encodable` is the depth check: it follows the values encode is
called on, which in a table are only the cells writeZenRow passes on. Only compact
output is modelled: the Indent and MultilineZen forms differ in layout, and their
tables have no semicolons and are not meant to be read back. writeQuoted's escapes are inside the
quoted token; `StringCodec` has them.

### Writer

Each action is one call. `built` and `root` are history variables: the value the
calls describe. Errors are `ValueFails` and `CellFails`; any part of the value, or
of the cell behind its delimiter, may have been written by then. The caller keeps the documented protocol and stops at
an error; its calls are otherwise arbitrary. The reader may call Parse on the
buffer after any call. `Trees` are the values that containers can hold at each depth: the run gives
all that can be described within its bounds, and TLC evaluates the assumption that it does.

### Struct tables, fields and the type caches

A struct type is the sequence of its fields with tag, omitempty, export,
embedding and type. `ComputeFields` is the code's walk (a queue, a set of types
seen) and choice among names; `JsonFields` is encoding/json's rule stated over all
paths into embedded structs, with no queue. `TreeText` and `TableText` of
`StructTable` are the two ways of writing a slice of structs, and `TypeCache` puts
them behind the caches. What goroutines do with the plan cache is in `PlanCache`: a
goroutine's load, every field it adds to a plan, and its store are separate steps, and a
later store overwrites an earlier one. There a goroutine may do anything between two calls of
scalarTablePlan except change a plan (`Elsewhere`); `TypeCache` says what Marshal does
between them, and the run `struct_table` checks that this is all `PlanSpec` allows.
A sync.Map is a function from types to entries; its loads and stores are atomic.

### Reflection decoder

The target is a Go value of a fixed type that the program goes on using: after a
call that failed, the next begins with what that one left. `Decode` gives the new value
together with success or failure, so that every partial write of decodeStruct,
decodeArray and decodeMap (elements of a map are stored one by one, a slice only when
all of it is there) is kept. `OnlyMentioned` is about a step, `Repeatable` and
`ReadsBack` about the value between calls.

The numbers are those of `NumericCoercion`: an integer, a float or a float with
a fraction, words of `Word` bits, floats of `Precision` bits. Go leaves the conversion of
a float outside the range to the implementation; `Processors`
are three ways hardware does it, and each behaviour runs on one.

### protojton

`ProtoCodec` is the code the generator writes, with the message descriptor as a
constant: `ObjectTree` is MarshalJTONObject, `TableHeaders` and `TableCells` the two table methods,
`ReadObject` UnmarshalJTON, with the shapes a field may have (scalar, optional, message,
list, map, oneof) where the generator switches on them. It works on trees;
their text is in ZenWriter and ZenParser. `WrittenList` is MarshalList, its choice by the first message's type
included. The runtime hands the core's options on (`JTONOptions`), and what some of
them do to the text is not undone by Parse: `Reparsed` and `ReparsedList` say what Parse returns for what was
written, with a bare key that has a hyphen, a bare cell that spells a literal or begins like one, and tables in
the two layouts that Parse does not read. ImplicitNull, NoRowCount and the delimiter are left out there, as
messages have no null cells and the reader takes any delimiter; and no string of a message has a semicolon in it, which an
indented table could end its header list at. `ProtoSession` is a program that
unmarshals into one message again and again (Unmarshal does not reset it), or
unmarshals lists, with and without DiscardUnknown. `Merges` describes the
result without following the code: by the members of the document that mention
a field, the last, all of them in sequence, or all of them together.

## Runs

`CHECK_DEADLOCK FALSE` is set in all but `object` and `reflect`: a Parse that has returned, goroutines that are done and a
caller that has made its last call take no further step.

| Run | What it asks | Bounds |
|---|---|---|
| `object` | six properties of Object | four keys, two values, limit 2, rows of up to 3 headers, pairwise comparison up to 2: rows longer than both limits exist with and without repeated headers |
| `parser` | ends, progresses, nests within bounds, completes rows | every text of 3 tokens over an alphabet of 18; 3 more after `[:`; 4 more after `[:a,b;`, 5 with backslashes; 3 inside `{a:[:a,a;`; nesting bound 2 |
| `round_trip` | six properties of load, marshal, load | lists of 2 over 14 odd items, all 2-row tables over 2 keys and 3 values, 4-row tables that exercise the threshold, tables in tables, with five option sets; two-column tables of six values with ImplicitNull, BareStrings and both; values nested up to five deep around a number, an empty container or a table, with nesting bounds 6 (parser) and 4 (encoder); samples 2 and 4 instead of 10 and 50; lists of one or two columns that begin as a table in the fast sample, or nearly as one in the slow one, and go on behind it with 25 kinds of item, numbers, nulls and lists among them |
| `writer` | the stream is Marshal's text and loads back; an unfinished one never loads | 2 open containers, 2 elements, tables of 0 to 2 rows and 1 or 2 columns, 3 option sets |
| `lexer` | strings and numbers are written, read and told apart exactly | strings of up to 5 bytes of five kinds; literals of up to 3 fragments, cut by up to 3 bytes; integers around a 5-bit word; floats of 1, 2, 3, 16 and 17 digits with the point from -6 to 18 and at the ends of float64's exponent; all texts of up to 5 bytes of `-+.01e`, and of slashes, stars, line feeds and ones; eleven values, containers among them, between thirteen ways each to skip or not to skip something; vectors of 2 bytes from a length of 3, so that slices with no, one and several vectors and every tail exist |
| `struct_table` | no half plans, the plan cache used as PlanCache says, encoding/json's fields, the direct table is the tree's text | 19 struct types, one to three rows, four option sets, two goroutines; samples 2 and 3 |
| `reflect` | what a success means, what a failure leaves, reading back | 13 target types; integers of 2 and 3 bits (2 is where a 3-bit value overflows), three processors; documents with right, wrong, missing and null parts; any number of calls |
| `proto` | messages and lists survive, lists of several types, Unmarshal merges, numbers in range, unknown fields | eleven message types, documents of up to two members, lists of up to two, two calls; every option of protojton, those of the core one at a time and three together; texts `true` and `null`, an enum value NONE, a map key `a-b`; integers of 2 and 3 bits |

The bounds are chosen so that every boundary of the code lies inside them: the
properties depend on which side of a limit a list, a row, a number or a nesting is,
not on how far. Two goroutines are enough for the caches: a goroutine sees another only
through an entry it loads, and the second one may already find any entry absent, stored or
overwritten. Two calls are enough for a message: the first leaves every partial state
a document can leave, the second is applied to it.

The other runs show disagreements between the code and what the repository says
of it; each checks one statement, on inputs that refute it.

| Run | Statement refuted |
|---|---|
| `value_lost` | fuzz_test.go: what Parse accepts round-trips. Five sets of documents in `MCRoundTrip`, of which each alone refutes it (`Cases <- ExtraKey` and so on in the cfg): a row's keys beyond the first row's are dropped; an eleventh item is never looked at; a bare `true` is no string; a key with a hyphen is written bare and not accepted; an empty cell before a tab is swallowed. |
| `diamond` | reflect.go: tied names are dropped. A struct embedded twice is queued once, and does not tie. |
| `struct_tag` | marshal_reflect.go: identical to the tree path. Two fields with one tag are two columns of one name in the direct table, and neither is in the tree's. |
| `special_words` | doc.go, README: Infinity, -Infinity and NaN are read in any case. parseValue begins a number at I or N, not i or n, and isNumberByte lets no other capital but E through: `nan` and `INFINITY` are errors, `Nan` and `-nan` are not. |

More limits of the code are kept out of the passing runs by their inputs or by
a condition of the property:

- With ImplicitNull, the last row of a single-column table is invisible when it
  is null: `[2: a; 1;  ]` is read as one row (`TableReadable`; the round trip uses
  two columns there).
- The writer's BeginArray always writes a plain list, where Marshal would write
  like objects as a table, so `PlainStream` compares with Marshal without tables.
- The writer's Table writes a table for any number of rows and Marshal none below
  two, contrary to stream.go:180; without rows Parse rejects the text, `[0: a ]`.
- Marshal stops at 256 levels and Parse at 10000, so a document can be parsed and not
  marshalled, contrary to fuzz_test.go:31. `DepthDecides` states what holds.
- A list that begins as a table of two columns and goes on behind the sample with an item that is no
  object is written with a row of one cell, reloaded as a row with null in its second column, and written again
  with that null: Marshal is not idempotent there, contrary to fuzz_test.go:10-12 (`FixedPoint` leaves such lists
  out, `ReloadIsProjection` does not).
- A field whose string type has a text marshaler is another difference from the tree path: the direct table has the
  string, the tree what the marshaler returns (`Jobs <- CustomPairs` in the cfg of `struct_tag`).
- A whole float beyond int64 or uint64 becomes whatever the processor makes of it,
  which a narrower type may then accept: beyond uint64 it can be 0. `HoldsDocument` and `Merges` allow
  for it, the second contrary to the range check of convert.go:102-103.
- An integer map key beyond the key type is cut to its bits, and two keys of a document may
  become one. `HoldsDocument` does not look into a map when its document has such a key, and `OnlyMentioned`
  takes the cut key for the one mentioned.
- What Marshal writes of a nil pointer, null, is read as a pointer to zero or, with a text unmarshaler, is an
  error; an array of bytes is written as a string and read as a list. `ReadsBack` is about targets with neither (`Settled`):
  the repository promises no round trip of Go values.
- The messages of a slice may have several types; a table then holds what the first one's headers and the others'
  cells make of each other, or MarshalList panics, contrary to runtime.go:78-79 (`ListsRoundTrip` says when).
- With protojton and some of the core's options a message is written as a text that Parse rejects or
  reads otherwise. `RoundTrips` and `ListsRoundTrip` name each case and say what happens in it; everything else comes back.
- The generator dereferences a nil field for a map with enum values, and decoding
  a promoted field of a nil embedded pointer to an unexported struct panics; neither is in
  the inputs.

`ReloadIsProjection` says what does hold where `value_lost` finds a
loss: a reloaded document is the original as its tables can tell it (`AsTables`), items
behind the sample included. `FixedPoint` adds that marshalling that again changes nothing, if lists that begin
with objects have only objects (`AllRows`), of whatever keys; and `UniformSurvives` that nothing is lost when
these have one set of keys, behind the sample too. `TableIsTree` and `FieldsAsJson` do the same for
`struct_tag` and `diamond`, and `ScalarLanguage` for `special_words`.

## Fairness

`ZenParser!Spec`, `RTSpec` and `ScalarSpec` have weak fairness of the next-state
relation, and nothing more: Parse and Marshal are plain calls on the caller's
goroutine, which nothing inside them blocks. `Terminates`, `Completes` and
`EveryTextRead` rest on it. The writer, the caches, the decoder and the proto session
have no fairness: their caller may stop at any time and the scheduler may
leave a goroutine where it is, and only safety is claimed of them.

## What is proved

`JtonObjectProofs` proves, for all sets of keys and values, every linear-scan limit and
header lists of any length, what the run `object` checks: `TypeCorrect`,
`NoDuplicateKeys`, `IndexNeverStale`, `RowsMeanTheirCells`, `MembersNeverMove`
and `DictImplemented`. The assumptions are that null is a value and that the
limit is a natural number.

None of the four invariants is inductive alone. pushUnique does not look for
its key, so distinctness of keys needs that, while a row with distinct headers
is being built, its keys are exactly the headers stored so far; and the
overwriting branch of Set needs the index to be exact. `IInv` joins them, with
the facts that the columns stored and the keys present correspond. Its proof
has one step per action: `StoreCell` and `FillNull` are two uses of one lemma
(`ColumnStep`) about storing a column, which rests on `StoredEffect`: SetMember
and, for a new key, PushUnique have the same effect on the members, stated as an
operator without an index. `HeadersUniqueMeaning` shows that both algorithms of
headersUnique decide distinctness. The refinement then maps each step to a `Put`, a
`Lookup` or a stutter of OrderedMap.

`ScalarTextProofs` begins with `ByteScan` alone, and proves `ScannersExact`: any sequence of scans, of slices of any
length, gives the first byte that stops the scan or the length. It holds for every
vector size and threshold, with and without the kernels, under the assumption that a vector
has at least one byte. `ScanExact` speaks of finished scans only; the inductive `ScanInv` adds
that in the middle of one every byte before the offset is plain. `LaneIsStops` is the bias
trick: for each of the 256 bytes the signed comparison of a byte plus 128 is the
unsigned one the byte loop makes. `LowestLane` is the bit scan, the least
element of a set of naturals that is not empty, and `VectorIsBytes` joins them: a vector has a hit
exactly where the byte loop would stop. The step proof then has one case per
action.

`ZenParserProofs` proves for every text, of any length, and every nesting bound what the
run `parser` checks on short ones: `ParserTypeCorrect`, `NestingWithinBound`,
`RowsAlwaysComplete` and `EveryStepConsumes`. The third is about the list that a table returns, with the
row that its closing bracket ends (`Whole`, one lemma for each of the three steps that may return it). The assumptions are that a text is a sequence of
tokens and the bound a natural number. The inductive `ParserInv` says that
the position is in the text or one behind it, that each open container is of the kind its loop
expects, and, for a table, that every finished row has the headers as its columns, in
order, the row under construction those before its column, and that a cell whose value is
still being parsed has a header to go under: this last part is what makes
a row complete although its cell was opened many steps, and many containers, before.
What a missing cell becomes is a fold (`Filled`), over headers that may repeat; it is
unfolded once, along a function over the naturals that is picked by a least
counterexample instead of an induction. `Progress` then is a sum over one step: every action moves the
position, or closes what an earlier one opened.

`PlanCacheProofs` proves `PlansAlwaysWhole` for any struct types and any number of
goroutines: a plan in the cache, or one that a goroutine goes on with, is whole, though the goroutine may
have loaded what another stored, or overwrite it. `PlanInv` adds what
a plan is in the middle of computeScalarTablePlan: the columns of exactly the fields looked
at so far. `PlansAlwaysAgree` follows because a type has one whole plan: an enumeration of a set of
numbers in rising order is unique. The assumption is that a struct has some number of fields. That
Marshal uses the cache in this way, `TypeCache`'s refinement of `PlanSpec`, is
model-checked: `TypeCache` reaches the recursive `ReflectEncode` and `ComputeFields`.

`ScalarTextProofs` then proves `StringsRoundTrip`, for a string of any bytes and any length:
what writeQuoted writes is one literal, and parseString reads it as that string, on either of its
paths, with vectors of any size. Every byte has a `Chunk`, itself or its escape. While
the string is being written, `ScalarInv` says that the text so far spells its first bytes chunk by chunk (`Laid`,
with the positions of the chunks as a function); while it is being read, that the
reader stands at a chunk and has decoded the bytes before it. A scan ends at the start of a
chunk because all bytes of a longer chunk begin with a backslash (`PlainRun`); a chunk that is an
escape is read as its byte (`LongRead` for the six-byte form). The scans themselves are
`ByteScan`'s, and what they return is taken from `ScanInv`, which holds here too (`ScansInside`).
The only assumption is that a Go string is a sequence of bytes.

It also proves `LiteralsExact`, for literals that writeQuoted did not write: whatever fragments a
literal is made of (plain bytes, short and long escapes, halves of surrogate pairs in any
order, unknown escapes, bad digits), and wherever it is cut off, parseString reads what the fragments
mean or reports an error, and an error only if some fragment means nothing or the end is missing.
`Spelling` gives the position `ps[i]` of each fragment in the text, and `Decoding` the bytes
`ds[i]` that the first i mean. The invariant `LiteralInv` says that the reader always stands at
the start of a fragment i, has decoded `ds[i - 1]`, and that every fragment before it is
understood with no pair left open (`Stands`, `Understood`); both ends of a run of plain bytes on
the two paths come down to this. The long escapes are the heart of it: `UnicodeAt` has the three
outcomes of an escape (`UnicodeFails`, `UnicodeAlone`, `UnicodePair`), among them the
high half whose low half is missing, is no low half, or is cut off within its digits, and `Halves`,
which fragments make a pair, has to agree with the two readHex4 calls that the code makes.
That the rune is written as UTF-8 is checked against `Encodes`, which decodes it. `FlattenSeq`, by
which the text and its meaning are put together, is a fold, unfolded by hand as the digit loops below
(`RunningExists`, `FlattenIs` in `SequenceFacts`). The assumptions say what the run's inputs are: `LiteralsAssumption`, that each
fragment is of one of the kinds and carries the meaning of its spelling, and `CutAssumption`; TLC
evaluates both.

`ScalarLanguageProofs` proves `ScalarsExact`: a text of any length that begins, behind any blanks, neither a
string nor a container is read exactly when it is one JSON number, special word or literal with whitespace
and comments around it. skipWS comes first: what it skips next is determined by the text (`OneItem`), so the
blanks that the statement speaks of are those the code has skipped and those it still has to (`BlankWith`,
`BlankWithout`, `Stuck`), and no scalar begins with one (`NoItem`). numberFromToken never looks at
a number as a whole: its first loop stops at a point or an exponent, its second lets through
signs anywhere behind an exponent's letter, and strconv has the last word, on a syntax
wider than JSON's (`.5`, `5.`, leading zeros). The grammar is restated by the positions `i` and `f` where the integer part
and the fraction end (`JsonGrammar`), and these are determined by the text (`SameParts`). The invariant `TextInv` says
for each loop which part of the token it has found to be digits (`Mantissa`, `Fraction`,
`Exponent`); a byte on which a loop gives up is one that no number has there
(`BadMantissa`, `BadFraction`, `BadExponent`), and at the end what is left to strconv is exactly the
exponent (`FloatOfParts`). Cutting the token at the first byte that no number has loses
nothing (`TokenTaken`, `ScalarEnds`). The assumption is that a text is a sequence of bytes; that
strconv.ParseFloat takes what `FloatSyntax` says is part of the model. The invariant holds
of every input that is no string, a number just written included, which the next module uses.

`NumberProofs` proves `IntegersExact` and `FloatsExact`: a number that is written is read as
itself. The reader's side comes from `ScalarLanguageProofs`: the text of a number is a scalar, so it
is accepted, and what is returned is `NumberOf` the text (`FinishedText`). What is left is that
`NumberOf` undoes the writer.

- For an integer of any size, and a machine word of any size: `NaturalTextSpells` says that
  the text written has digits without a leading zero whose value is the number. `WordOf`, the loop with
  its test `u > (MaxUint - d) / 10`, is that value or stops, and stops exactly if
  the value does not fit the word (`AccumulateExact`, `WordOfIs`), although some later
  digit is what shows the overflow; the sign is then applied in two's complement, where `-Cutoff`
  fits and `Cutoff` does not (`NegativeRead`, `PositiveRead`).
- For a float: `Layout` describes a text by where its point and its exponent stand and how
  many zeros come before the digits. appendPretty's four layouts and zero have one each (`IntegerLayout`,
  `PointLayout`, `SmallLayout`, `ScientificLayout`, `ZeroLayout`), and a text with a layout is a JSON number with a
  point or an exponent (`LayoutGrammar`), hence no integer, whose value is the digits and the position
  they were laid out for (`LayoutRead`): the end of the mantissa and the point are
  found again (`OneEnd`, `OnePoint`), and the padding zeros are exactly those that strconv strips
  (`ZerosStripped`). `PrettyLayout` has one case per layout; where they meet, at kk = 16
  and kk = -5, is where a wrong comparison would show.

The loops over digits are recursive functions over positions, as far as the text
or the number reaches. tlapm knows nothing of a recursive function, so each is unfolded by hand: that a function with
its equations exists is shown by induction, stated for a set instead of a predicate (`InductionInSet`,
`StrongInductionInSet`, `LoopExists` in `SequenceFacts`); the CHOOSE behind the definition then satisfies
its equations. The assumptions are that the word has at least one bit, and that a number is an
integer, a special float or a decimal without zeros at either end, which is what d2d
returns (`NumbersAssumption`; TLC evaluates it for the inputs of the run).

`ZenWriterProofs` proves `StreamedAsMarshalled` and `TablesAsMarshalled`: for any calls, of any number
and nesting, the text streamed is Marshal's. The two have nothing in common but the texts of leaves and keys.
The writer appends tokens and keeps one count per container; encode has the whole tree. The
invariant `StreamInv`, a theorem of its own (`Streaming`), says what the buffer is at every moment:

- With containers open (`Nesting`), the buffer is the texts of the open containers, one inside the
  other (`Open`). Each of them but the innermost stands at the element that the next one is: behind its
  comma and, in an object, its key and colon (`Link`, `Before`), with an element count one ahead of the
  elements it has. The innermost has what is `Current`. `Outer` joins the links, with the text before each as
  a sequence of texts.
- In a table (`Tabling`), it is the head, the finished rows and the cells of the row in progress
  (`Sheet`, `Lines`), where Cells' count, set back for each row, is the number of those cells.
- Otherwise the document is complete (`Finished`) or a call has failed (`Stopped`).

`Ready` is beforeValue: it makes the innermost container one that waits for an element. `Taken` is the
return from a value, however deep: the container that waited has it (`Held`, which is where a text with one
more element is the text before and one more, `JoinedAppend`). `Closed` says that a closed container's text
is encode's for the value it holds, and is thereby a value in the container around it. `WholeRow` and
`TableWhole` do the same for rows, whose cells encode looks up by header: the headers being
distinct, it finds the ones that were written. FlattenSeq, the fold in all these texts, grows by one text at a
time (`FlattenAppend` in `SequenceFacts`).

The assumptions: headers are distinct and not empty; what encode writes for a leaf is a
sequence of tokens, and the same without tables; `TreesAssumption`, that the sets `Trees` of values
are closed under what the calls can build; and `EncodeAssumption`, that on those values `Encode` is what encode
does with its nested calls. The last holds of the recursive `EncodedText` of `ZenEncoder` by its definition; TLC evaluates
it for the run's values. It takes the place of that definition, which the prover cannot use.

Only model-checked: everything about the encoder's text read back, the decoder, the fields and the
codecs, because `Decode`, `ReflectEncode`, `ComputeFields`, `ObjectTree`, `ReadObject` and `AsTables` are recursive over
values of any depth: they are RECURSIVE operators, and no theorem can be proved in a module that
reaches one. A recursive function over naturals can be unfolded, as for numbers, and encode's equations could be
assumed of a constant, because the writer's theorems compare two ways to come by one text and need no
induction over it; what a decoder makes of a tree does. `StreamReloads` and `PartialNeverLoads` are about all
texts of all trees as the parser reads them, again an induction over trees. So is, like all liveness,
termination, which is out of the prover's reach.

## Plan

All the modules planned are there. What is left is proof, in this order:

1. For `ZenDetect`, that a list no longer than the sample that takes the fast path has
   exactly one key set, so nothing is dropped.
2. normalize over Go's number types, with its copy on the first change (a model).

## Not modelled

- Ryu's digits (128-bit products over 2^64 inputs) and a second rounding to
  float32: out of TLC's reach. The layout of the digits is modelled.
- normalize's copying and the conversions of Go's number types: the models start from
  canonical trees, where it returns its argument.
- json.Marshaler and json.Unmarshaler on a user's type: what they do is the
  user's code. Text marshalers and unmarshalers are modelled as given functions.
- Value's detour through tryStructTable inside a stream; Marshal's is modelled.
- Indented and multi-line layout (except that Parse reads no table written so, in `ProtoCodec`), wording and
  offsets of errors.
- CPU detection (a constant), file and stream I/O (Decoder, Encoder), flag
  handling and hint texts.
- The generator's text output and its main; the codec it generates is modelled.
  test.pb.go is protoc-gen-go's output.
- The conformance suite, whose reference implementation is not in the repository.
