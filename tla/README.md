# A verification of cention-sany/mime

The repository is a fork of Go's MIME packages, changed to read broken e-mail: a
quoted-printable decoder that forgives errors, a reader that repairs UTF-8
characters cut by a line end, and a multipart reader that keeps parts with bad
headers. This directory holds TLA+ modules of its parts, configurations that
check them with TLC on small instances, and proofs that TLAPS checks for every
value of the constants. Source lines are those of `src/`. `PROJECT.json` lists
components, runs, proved theorems and hazards, and maps every definition to the
lines it stands for.

## 1. The system

### Components

| Component | Source | State it keeps | Operations |
|---|---|---|---|
| UTF-8 corrector | `quotedprintable/qputf8.go` | six held bytes (`own`, `pco`, `cco`, `pos`), the automaton's state, a carry buffer (`buf`, `pcb`, `ccb`), a remembered error | `Read` with `cycle` and `release` |
| Quoted-printable decoder | `quotedprintable/reader.go` | the line being decoded, up to three bytes of an escape cut by the line buffer (`prev`, `last`), errors that can be ignored and one that cannot | `Read`, of `NewReader` and `NewStrictReader` |
| Quoted-printable encoder | `quotedprintable/writer.go` | one output line (`line`, `i`), `cr`, `Binary` | `Write`, `Close` |
| Multipart reader, Part | `multipart/multipart.go` | a `bufio.Reader`, the newline in force (`nl`, `nlDashBoundary`), `partsRead`, `currentPart`; per part a buffer and `bytesRead` | `NextPart`, `CheckNextPart`, `Part.Read`, `Part.Close`, `FormName`, `FileName` |
| Multipart writer | `multipart/writer.go` | the boundary, `lastpart`; per part `closed` and a sticky write error | `SetBoundary`, `CreatePart` and its wrappers, `part.Write`, `Close` |
| Form | `multipart/formdata.go` | maps of values and files, the memory and value budgets, temporary files | `ReadForm`, `RemoveAll`, `FileHeader.Open` |
| Media types | `mediatype.go`, `grammer.go` | none | `ParseMediaType`, `FormatMediaType` |
| Encoded words | `encodedword.go` | none but pooled buffers | `WordEncoder.Encode`, `WordDecoder.Decode`, `DecodeHeader` |
| Extension registry | `type.go`, `type_unix.go` | three global maps under `sync.Once` and an `RWMutex` | `TypeByExtension`, `ExtensionsByType`, `AddExtensionType` |

### How they interact

Everything but the registry is sequential: a caller pulls bytes through a stack
of readers or pushes them through a stack of writers. `newPart` puts a
`Content-Transfer-Encoding: quoted-printable` part behind a `quotedprintable`
reader and a UTF-8 corrector; all parts of a message and `NextPart` share one
`bufio.Reader`, so that a part read too far harms the next one. `ReadForm` drives
`NextPart` and reads each part to its end. `setExtensionType` calls
`ParseMediaType` and `FormatMediaType`. The registry's maps are read and written
by any number of goroutines.

### What is hard here, and what makes each component correct

* **The sizes nobody chose.** The caller's slices, the reads of the source and
  the line and peek buffers cut a stream anywhere. The result must not depend on
  them: the corrector must remove exactly the line ends inside a character, the
  decoder must decode what the whole stream decodes to, a part must be exactly
  its body. Nearly all of the code's state exists for these cuts, and a test
  reaches only few of them.
* **Long sequences of calls.** `w.cr`, `q.state`, `r.last`, `r.nl` and
  `part.fresh` carry something from one call to a much later one. An encoder
  that sees a CR LF cut in two must still write one line break.
* **Errors.** A source's error that comes with held bytes, or comes when the
  slice is full; an underlying writer that fails in the middle of a line; a
  stream that ends inside a body, a header or an escape.
* **Different recognisers of one thing.** A boundary is recognised by four
  functions (`peekBufferIsEmptyPart`, `peekBufferSeparatorIndex`,
  `isBoundaryDelimiterLine`, `isFinalBoundary`), from a buffer or from a line;
  they must agree.
* **Progress.** `Part.Read` may return no bytes and no error while it looks for a
  separator, the decoder goes round its loop without storing, the corrector
  waits for room: a caller that reads on must still get to the end.
* **Several goroutines.** The registry's maps are filled by the first caller,
  partly outside the lock, and set one after the other: every caller must see one
  table, whole.
* **Cleaning up.** A form that fails after some of its files went to disk must
  leave none of them.
* **Two directions.** What the encoder, the multipart writer, `FormatMediaType` and
  `WordEncoder` write must be what their readers read.
* **Limits.** A line of 76 characters in an array of 78, six bytes in `own`,
  three in `prev`: indexes that are right only because of what another function
  guarantees.

`PROJECT.json` lists these as hazards, each at its line, with the properties
that would show it going wrong.

## 2. The modules

| Module | Models | Granularity |
|---|---|---|
| `UTF8Corrector` | `qputf8.go`, all of it | one turn of the loop of `cycle` or `release` |
| `UTF8CorrectorProofs` | seven theorems about it | |
| `QPWriter` | `writer.go`, all of it | one byte of a batch, or one hand-over |
| `QPWriterProofs` | six theorems about it | |
| `QPReader` | `reader.go`, all of it | one turn of the loop of `Read` |
| `QPReaderProofs` | three theorems about it | |
| `MultipartReader` | the reading half of `multipart.go` | one call of `Part.Read`; one line of `NextPart` |
| `MultipartReaderProofs` | four theorems about it | |
| `MultipartWriter` | `multipart/writer.go` | one call |
| `MultipartRoundTrip` | the writer, then the reader on what it has written | as in the two |
| `MultipartWriterProofs` | three theorems about the writer and the round trip | |
| `Form` | `formdata.go` | one part, or one system call |
| `FormProofs` | four theorems about it | |
| `TypeTable` | `type.go`: what a table holds, as functions | |
| `Registry` | what the registry promises: the abstract specification | one call's effect |
| `TypeRegistry` | `type.go`, `type_unix.go`; implements `Registry` | one access to a map, or one operation on `once` or the lock |
| `TypeRegistryProofs` | five theorems about it, the refinement among them | |
| `MediaType` | `mediatype.go`, `grammer.go` | one turn of `ParseMediaType`'s loops |
| `EncodedWord` | `encodedword.go` | one character encoded; one turn of `DecodeHeader` |
| `Subsequences` | the members of a set in a sequence, in order | |
| `NatRecursion` | induction and recursion over the numbers, and on sequences, as the proofs use them | |
| `MC...` | the inputs TLC enumerates for each | |

In the modules of streams the input is one sequence, fixed in the initial state, and a byte
is its *position* in it; the code looks only at the byte's class. So a loss, a
repetition or a change of order shows, and a property can say what came out as
positions of what went in. Input classes are few: e.g. `"A"` and `"F"` stand for
the hexadecimal digits, `"x"` for any other printable byte.

Definitions commented `mutant` are deliberately wrong variants of the definition
behind them, such as a bug in that place would give. They are no part of a
specification; each was put in the place of the right one once to see that the
properties notice.

### UTF8Corrector

`Read(m)` begins a call with a slice of `m` bytes; `ReturnError`, `Fetch` and
`NoRoom` are the three ways past lines 47-61, `CycleDone` lines 62-69. The
cases of `cycle`'s switch are `Normal`, `Start`, `AfterCR`, `AfterLF`, `Joined`;
`Unhandled` is a byte read in a state that has no case. `release` is `Emit`
(one byte) and `Reset`. `pc = "drain"` is the loop at a remembered error.
`Overrun` is a store behind the slice. The source may return any number of bytes
it is asked for, at least one unless it is at its end, and its error with the
last ones or later, as `io.Reader` allows.

`Corrected` says what should come out without any automaton: all positions but
those of a line end between a lead byte with up to two continuation bytes (`MayGoOn`) and
another continuation byte (`Stray`). The length that a lead byte announces plays no part in
it, because the code does not look at it. `Complete` takes away `EofTail`, what the code
does not pass on at the end of a stream: a lead byte that ends it, or a character that may go on, *be
it finished or not*, with the line end that ends it (section 6).

### QPWriter

`Write(m)`, then `Scan` (the `switch` of lines 33-40 up to the next byte that a
batch does not take), then a batch byte by byte (`SkipLF`, `BreakLine`,
`PutByte`, `BatchDone`), `EncodeByte`, `Return`; `Close`. Each hand-over to the
underlying writer fails or succeeds by choice, up to `MaxFailures` times; after a
failure `w.i` is not reset, as in the code. A character of the output is a pair
of its kind and the input position it stands for, so that `Decoded` can read the
lines back and `Meant` can say what they should give.

### QPReader

`FetchPiece` and `FetchLine` are the two results of `ReadSlice`: a full buffer, or
a line (or the rest of the stream); `Decoded` is what lines 177-197 make of a
line. The branch for bytes kept from a cut escape is `SoftBreak`, `SaveOne`,
`Join` and `Flush`; the switch is `Escape`, `Save`, `BadEscape`, `Literal`.
`ReturnError` ejects what is kept and returns. When what is left just fills the
buffer, `bufio` reports a full buffer or the end of the stream, as the source's
error came late or early: both are modelled.
`Reference` says what a stream decodes to from the whole of it: `Soft`,
`AfterSoft`, `Trailing` and `Escapes` are predicates of positions.

### MultipartReader

A part's bytes are taken by `PartRead` (lines 171-231), whose branches are those of
the code: enough is buffered, the empty-part test, no separator in the peek
buffer, a separator in it, one at its start. `NextPart` first closes the current
part (`CloseRead`, until `PartRead` gives an error, which is dropped) and then
reads lines (`NextLine`, `NoLine`) and a header (`Header`, `OtherHeader`,
`HeaderError`). `CheckNextPart` passes the same judgement of a line (`Judge`) on
one after the other of the lines that happen to be buffered (`Judged`). `Judge` includes
the switch to LF line ends. `OutOfLines` is what `CheckNextPart` says when the lines run out without a
verdict: the end, or an error if they have left its own reader full. `PaddingFits` says of a stream that the peek buffer can hold
a separator, the white space behind it and its line end (section 6).
How far `bufio` reads ahead is a choice; a boundary is the single symbol `b`; a
whole header block with its blank line is the symbol `H`. `bufio`, `textproto`
are not part of the repository and are modelled from their use.

### MultipartWriter and MultipartRoundTrip

`SetBoundary`, `CreatePart`, `Write` and `Close` may come in any order, and `Write`
may go to any part that was ever created. Each call that writes may fail with none
of its bytes written, or all but the last. `CreateFormFile`, `CreateFormField` and
`WriteField` are `CreatePart` and `Write`. `done` says that `Close` has returned nil
for a message in good order; `broken` names what makes it none: a boundary line
that could not be written, and a boundary changed or a part created in the middle
of the output (section 6).

`MultipartRoundTrip` hands `out` to an instance of `MultipartReader` (`R`), whose
stream is `Message`: what the writer wrote, with its own boundary as the reader's
and any other boundary as text. The reader of the round trip is the module itself,
not a simplification of it.

### Form

`NextPart` and `Part.Read` are what the other modules make of them: a part gives some
number of bytes and then `io.EOF` or an error. `Value` is lines 51-63, `File` 65-74
and 87-91, then `TempFile`, `CopyDone` or `CopyFailed`. `Close` runs the deferred
`file.Close` calls, `Return` the deferred `RemoveAll` if there is an error. `stuck`
are the files that `os.Remove` cannot remove. `int64` wraps (`Wrap`), with a small
largest number.

### TypeTable, Registry and TypeRegistry

`TypeRegistry` has a thread per goroutine. `Call` and `Enter` are what comes before
`once.Do`; `OnceFirst`, `SetMimeTypes`, `LoadEntry`, `LoadEnd` run `initMime`;
`Parse`, `Lock`, `SetType`, `SetLower`, `AddExtension` are `setExtensionType`, which
the loader runs as well; `RLock`, `Read`, `ReadLower` the look-ups. `sync.RWMutex`
is modelled from its documentation: `Lock` keeps new readers out at once and waits
for those inside; `Unlock` lets the waiting ones in.

`Registry` knows no lock, no `once` and no maps: one table, complete before it is
`ready`, and each call looked up or performed at one moment between its start and
its end. `Abstract` maps the detailed state to it. Until `once` is done the table is
what the files will make of it (`Loaded`); later it is the three maps, and while a
goroutine is between its first and its last assignment, the maps as they will be
behind it. That mapping is only right because no reader can be inside: it is what
`Implements` checks, together with the answers.

### MediaType

`CheckType` is `lossyCheckMediaTypeDisposition`; `Param`, `NoMoreParams`,
`TrailingSemicolon` and `InvalidParam` are the turns of the first loop, `StitchOne`
one base name of the second, in any order as a map's order is any. Characters are
kept by what the parser asks of them. `Meant` says what a header means from the
list of parameters it was rendered from, without the map of continuations.

### EncodedWord

`EncodeChar` is one character of `bEncode` or `qEncode`, which count different things;
`Words` is what they write. The result, or another header, is then decoded: `Begin`,
and `NoWord`, `BadWord`, `GoodWord` for the loop of `DecodeHeader`. Base64 is a code
of three symbols into four.

## 3. The runs

`tlc -config <run>.cfg <module>`; times are for two workers.

| Run | Module | Result | States |
|---|---|---|---|
| `UTF8Corrector_safety` | MCUTF8Corrector | holds | 884,659 (45 s) |
| `UTF8Corrector_lost` | MCUTF8Corrector | violated | |
| `QPWriter_lines` | MCQPWriter | holds | 139,455 (6 s) |
| `QPWriter_lf_lost` | MCQPWriter | violated | |
| `QPReader_decodes` | MCQPReader | holds | 346,072 (45 s) |
| `QPReader_softbreak` | MCQPReader | violated | |
| `MultipartReader_bodies` | MCMultipartReader | holds | 299,401 (45 s) |
| `MultipartRoundTrip_parts` | MCMultipartRoundTrip | holds | 409,032 (35 s) |
| `Form_storage` | MCForm | holds | 1,250,907 (17 s) |
| `TypeRegistry_calls` | MCTypeRegistry | holds | 256,620 (70 s) |
| `MediaType_parameters` | MCMediaType | holds | 24,030 (8 s) |
| `EncodedWord_headers` | MCEncodedWord | holds | 150,993 (28 s) |

### What they show, and why the bounds are enough

**UTF-8 corrector.** Slices of zero, one, three, six and seven bytes, of any size in
each call, source reads of one to four bytes. The automaton holds at most five bytes
before a line end is corrected, so that every state is met with every room left in
the slice. The streams are all those of four bytes, and characters of every length
cut by every kind of line end, with padding that moves the cut across the end of a
slice. `OnlyStrayRemoved` and `CompleteAtError`: what is delivered is `Corrected`, and
at the error, if the last slice has six bytes, all of `Complete`, except for the bytes
of `dropped`: what is lost at the end is the `EofTail`, no less and no more (see section 6 for
both); `DropsOnlyFirst` confines those to the first byte of a
read with nothing held. `NoCarry`: the code for carried bytes is dead. `ReachesError`:
a caller whose slices have six bytes from some time on gets to the error; with
smaller ones it may not (section 6), but nothing wrong is delivered.

**Encoder.** `LineMax = 5`: the shortest line that holds raw bytes beside an escape
and its soft break, so that every offset of an escape from the line's end is met.
Texts are all those of four bytes, and longer ones that fill two and three lines;
calls of one and four bytes cut them anywhere. In both modes: `LineFits` (and no
soft break comes too early), `NoTrailingWhitespace`, `RoundTrip`; one failure at
any hand-over: `ReportedKept`.

**Decoder.** A buffer of four bytes cuts an escape of three and a soft break of
three at every place; the streams are all those of up to four bytes over two
alphabets (and five over a third), and concatenations of four pieces such as an
encoder writes, up to twelve bytes, which is up to three pieces per line.
`DecodesReference` covers every stream whose lines fit, and every well-formed one
when they do not, unless the buffer cuts between the CR and the LF of a soft break
(section 6). `StrictAccepts`: the strict reader has nothing to say against a
well-formed stream whose lines fit. `ReachesEnd`.

**Multipart reader.** A peek buffer of eight bytes is one more than the smallest
that the code's comment allows for this boundary, and shorter than every
body of two pieces with its separator, so that the separator lies across the end
of the buffer at every place. Bodies are made of everything that comes near to a
separator. Tails are: the final boundary with and without its newline, an empty
last part, nothing, one and two further parts with white space behind the
boundary, truncated headers; line ends are CR LF, LF, and mixed. White space behind a boundary
just fits the peek buffer, or does not (`PaddedStreams`); of streams where it does not,
`BodyExact`, `BoundaryAccepted` and `CheckAgrees` say nothing (`PaddingFits`, section 6).
`BodyExact`: the part is its
body, in order, with nothing taken from the shared `bufio.Reader` beyond it; a second
part starts where it should. `BoundaryAccepted` and `CheckAgrees`: the recognisers
agree. `ReachesEOF`.

**Multipart writer.** Five calls, one failure, a valid boundary beside the random one
and one that is refused: enough to create two parts, write to either and close, or to
go on after an error, after a refused part and after `Close`. What is written looks
like the beginning of a separator. `ErrorIsFinal` speaks of every call after the one
that first returns the error; `RoundTrip` is said of every message that `Close` has
finished and that is not `broken`.

**Form.** Three parts, among them one with no name, values and files of every size
around the limits, with and without an error behind their bytes. `maxMemory` from -1
over 0 to the largest number, seven; the value limit is three, so that two values
may reach it together. Any set of files may be impossible to remove.

**Registry.** Three goroutines, three calls in all, so that two may be inside while a
third is anywhere, among them the one that loads. Extensions that differ in case only,
one that is built in, one that loses its dot; types with and without parameters, one
with a fault; files that override each other, with a refused entry, and one that
cannot be read to its end. `Implements` is the refinement of `Registry`.

**Media types.** All lists of up to three of ten parameters: plain and quoted, `n*`
good and bad, pieces 0, 1 and 2 of `n`, encoded or not, one with a bad escape, a piece
of another name. Two pieces with the third missing, a piece given twice, and pieces in
every order all occur. Types in order and not; tails of nothing, a semicolon and junk.

**Encoded words.** A word's limit is so short that three characters fill it, and five
characters give up to three words, with a character of two bytes at every place of
the limit. Headers are all sequences of up to four of ten pieces.

### Deadlock and fairness

Deadlock is checked but in `Form_storage`, `MediaType_parameters` and
`EncodedWord_headers`, whose functions return. A reader or writer that is done, or has
panicked, stutters (`Stopped`, `Finished`).

Liveness needs a caller who calls again: `io.ReadAll`, `io.Copy` and `ReadForm`
do, until they see an error. The code is sequential, so weak fairness of the next
step says no more than that the program runs and the caller goes on (`WF_vars(Next)`
in `UTF8Corrector` and `QPReader`, whose only other choice is the size of the
slice). In `MultipartReader` the caller also chooses what to call, so fairness is
stated of `NextPart` and of the steps inside it (`Proceed`) only: it may read parts or
call `CheckNextPart` in between, or never. In `TypeRegistry` the scheduler runs
some goroutine as long as one inside a call can run (`WF_vars(\E t : Step(t))`):
which one is its choice, and nobody need make a new call. `EveryCallReturns` then says that no state is reached in which the
goroutines wait for each other.

## 4. The proofs

All proofs are checked by TLAPS from the assumptions named in the modules, which say
no more of the constants than the code does:

* corrector: its buffer is not empty, slices have natural lengths;
* encoder: `LineMax >= 4`, an escape and the `=` of a soft break;
* decoder: its buffer is not empty, slices have natural lengths, a source ends with
  `io.EOF` or with another error;
* multipart reader: the peek buffer holds a boundary with its dashes and a line end before
  and behind it (`PeekAssumption`: what the comment at `multipart.go:34` asks for), the
  caller's slices are not empty;
* multipart writer: no header and no body holds a symbol that is a boundary
  (`BoundarySymbols`; the code leaves it to the caller, or to chance, that a body does not
  contain the boundary); the round trip gives the reader a peek buffer as above;
* form: `MaxInt` is a natural number, the memory limit an `int64`, the value limit one that
  is not negative;
* registry: `Lower` is idempotent (`strings.ToLower` is), the built-in table is finite, not
  empty, has lower-case extensions, and types that `FormatMediaType` takes; the files are
  sequences of entries.

(The code has 512 bytes, 76 characters, 4096 bytes, 10 MB.) No proof assumes finite inputs, a
number of threads, parts or calls, or a bound on failures other than that it is a number.

**Recursion.** The provers cannot instantiate the usual rule of induction, which takes a
predicate as a parameter. `NatRecursion` states it of a *set* of numbers (`SetInduction`: one
that holds 0 and the successor of each of its elements holds them all) and of a *function* as the
step of a recursion (`RecursiveFunction`: it exists and stays where its steps stay), and
proves both from the well-foundedness of `<`. Recursive definitions are functions on
`0 .. N` (`Only`, `Sums`, `Picked`, `TablesOf`, `Judged`), so that they can be unfolded by these.

**`UTF8CorrectorProofs`.** For every size of buffer and slices and every stream:
`TypeCorrect` (`TypeOK`), `OwnNeverOverrun` (`OwnFits`: `own[q.pco] = b` stays
inside six bytes), `SliceNeverOverrun` (`NoOverrun`: `p[*count] = b` stays inside
the slice, but for an empty slice at a remembered error), `BufferUsedUp`
(`NoCarry`), `LossIsFirstByte` (`DropsOnlyFirst`). None of these is inductive by
itself. `IInv` adds

* `Shape`: how many bytes each state holds. `stStart` holds at most three, so
  that the line end stands at 1..3, its second byte at 4 at most, and a
  corrected character ends at 5;
* `Consumed`: bytes leave `own` only in `release`; between calls either nothing is
  taken out or (state `stRelease` left behind by a full slice) everything is;
* `Room`: bytes held, bytes read and not looked at, and the lead byte that waits
  in `last`, all fit in the rest of the slice. This is what the subtraction in
  line 53 buys, and why the slice fills only with the last byte of the buffer: the
  carry branch is dead, and the byte that is lost is the first of a read;
* `Calls`: the indexes of the running call.

Two more theorems say which bytes come out: `DeliveredInOrder` (`OnlyStrayRemoved`) and
`DeliveredAtEnd` (`CompleteAtError`, all but the `EofTail`). Both speak of the state between calls, of a stream of which
most is still to come; inside a call some bytes are out, some held, some read but not looked at. `Order`
says that in every state there is an *account* of them, a sequence r of positions with

* `Looking`: r is, in order, what has been looked at (`Looked` says how far that is at each place of
  the code) without the bytes no state handles;
* `Sorted`, `Passed`: what is out, then what is held, rises, and is all of r but the ends of line that stand
  inside a character of r;
* `Ending`: in the states that hold a character that may go on, `own` is the end of r; in the others no
  character may go on there, so that nothing that comes later can make an end of line
  that is out already a stray one;
* `Finished`: at the error, all of that but the `EofTail` is out.

The step that matters is `CorrectAccount`: a continuation byte behind a held end of line makes exactly
that one stray, and the code overwrites exactly that one in `own`. That an end of line behind what
has been looked at is stray depends on what comes next only for the last one (`StrayStays`,
`StrayAppend`), and that one is held until it is decided (`SentStays`). Two lemmas on sequences do the rest:
`Only` picks the members of a set in order (`OnlyRises`), and a rising sequence that has the members of another one
up to some place begins it (`RisingPrefix`).

**`QPWriterProofs`.** For every line limit from four on, every text, every
cut into calls and both modes: `TypeCorrect`, `LinesFit`, `LineNeverOverrun`,
`WhitespaceProtected`. `IInv` adds `Sound`: until a hand-over fails there is no
panic, the line being built has at most `LineMax - 1` characters and no soft
break, and every line handed over is in order (`AllFit`). The lemmas follow the
code's call tree: `PutOK`, `FlushOK`, `CRLFOK`, `SoftBreakOK`, `EncodeOK`,
`CheckOK` each say what a function returns for any state of the writer, and the
step lemmas only put them together. `CheckOK` is the subtle one: taking a space
back and encoding it may need a soft break of its own.

Two more theorems speak of what the lines mean: `RoundTrips` (`RoundTrip`) and
`ReportedIsKept` (`ReportedKept`, whatever fails). Both are properties between calls, and
not inductive within one; `Done` says how much of the text a call has dealt with. They rest on

* `BatchInv`: a batch is of bytes that need no escape, so that a CR or an LF in it is a line
  break in text mode, and the byte behind it needs one;
* `KeptInv`: no byte up to `Done` is lost. `Has...` say of each function that it loses nothing but
  the space that `checkLastByte` takes back, a panic and a failed hand-over included;
* `MeantInv`: what was sent is what the first `Done` bytes mean, and `w.cr` is set exactly behind a CR
  of a text. `Sent...` say what each function adds to the meaning: an escape its byte, a soft line break
  and the work of `checkLastByte` nothing. The one step that does not keep it is `encode` behind a
  CR, which leaves `w.cr` set (section 6): `RoundTrip` excludes exactly that.

The lemmas `Flatten...` unfold `FlattenSeq` of the community modules, a recursion inside a `LET`,
from its end, with `RecursiveFunction`.

**`QPReaderProofs`.** For every buffer, every slice and every stream: `TypeCorrect` (`TypeOK`; `IInv`
adds that the bytes kept in `prev` are real ones), `DecodesAll` (`DecodesReference`) and `StrictIsContent`
(`StrictAccepts`). The latter two compare what a reader delivers with what the *whole* stream
decodes to, while `Read` sees one line at a time, or a piece of one. `Order` says

* `Where`: a fetch begins at the stream's start, behind an LF or at a cut, and an error comes at
  the stream's end only;
* `Unblamed`: while no line is cut and the stream is in order, there is no error to return;
* in the states `DecodesReference` speaks of (`Good`), what `last` holds has `Begun` an escape, and there
  is an `Account` of the bytes that are read and not yet stored (`Left`: those kept, then the line):
  every escape among them is whole or stands where the piece ends (`EscapesWhole`), nothing looks
  like an escape that is none in the stream (`NoFalseEscape`), each of them stays or belongs to an escape or a
  soft line break (`Members`, `SoftLast`, `SoftHeld`), and whatever stays of all that was read is out
  or among them, in order (`Told`).

A turn of the loop takes the first bytes off `Left` (`DropAccount`, once for all cases of the switch), a fetch adds to
its end (`GrowAccount`, once for pieces and lines). The work is in what a fetch adds: `Decoded` cuts the white
space off a line's end, and `LineKnown`, `LineStays` and `LineSoft` show that what the line says of
trailing white space, of a soft line break and of an end of line is what `Trailing`, `Soft` and
`AfterSoft` say of the stream; for a piece this needs a well-formed stream (`PieceStays`).
At the end nothing is left, and two rising sequences with the same members are the same
(`RisingPrefix`, as for the corrector).

**`TypeRegistryProofs`.** For any number of goroutines and calls, any types files and any
built-in table: `TypeCorrect`, `MutualExclusion` (`Exclusive`, which no run checks: who is between `Lock`
and `Unlock` is the holder, and who writes a map is that holder, or runs `initMime` with all
others outside), `RaceFree` (`NoRace`), `MapsAgree` (`ListsAgree`), and
`Linearizable`: `TypeRegistry` implements `Registry`, every step one of its steps or a
stutter. `IInv` adds

* `OnceInv`: before `initMime` everybody is outside, during it everybody but the loader;
* `LockInv`: the holder of the lock is the goroutine between `Lock` and `Unlock`, and a
  reader inside sees no writer at its assignments. Race freedom is these two;
* `CallInv`: what the checks in front of a place have made sure of: an extension that is set
  is in good order and the one the caller gave, a reader comes after `once`;
* `MapsInv`: what has been assigned so far, and which agreement of the maps still
  misses. `ListsAgree` speaks of the table between calls; it is inductive only with what
  holds after the first and after the second of the three assignments;
* `LoadInv`: the maps after so many entries are what `TablesOf` makes of these entries, so
  that behind the last one they are the abstract table, which was `Loaded` all along.

**`FormProofs`.** For every message and every limit: `TypeCorrect`, `Cleaned`
(`NothingLeft`), `WithinBudgets` (`BudgetsKept`), `Exact` (`FormExact`). `IInv` adds `PlaceInv`
(an error stops the loop at once, and what is stored comes from parts behind us), `DiskInv`
(while all goes well the temporary files are those of the form and the one being written: this is
why `RemoveAll`, which knows only the form, leaves none), `BudgetInv` (what is left of a budget is
what was given less what has been stored; said of the memory only below the
largest number, where `maxMemory + 1` does not wrap) and `ExactInv` (what is stored is `Picked`
from the parts dealt with, in order).

**`MultipartReaderProofs`.** For every stream, every peek buffer, every slice and
every way `bufio` may read ahead: `TypeCorrect`, `BodyDelivered` (`BodyExact`), `BoundaryTaken` (`BoundaryAccepted`),
`CheckTells` (`CheckAgrees`). For the first two, `IInv` adds
`CountInv` (before the first part nothing is buffered and lines end in CR LF, so the peek
buffer's offsets are those of the stream), `TakenInv` (what was delivered and what the part
holds is, without a gap, what has been taken since the part's start) and `EndInv`
(nothing behind the body has been taken, and after `io.EOF` nothing is missing). The
step of `EndInv` is the heart: for each branch of `Part.Read` the lemmas show that what the peek
buffer says of a separator is what the whole stream says of it (`EndsSame`,
`EmptySame`), although the buffer ends anywhere, and that no branch takes the beginning of a separator
that the buffer cuts in two. This is where the proof asked for `PaddingFits`.

`BoundaryTaken` and `CheckTells` compare what three functions make of one boundary, at different
times: `Part.Read` from the peek buffer, `CheckNextPart` from the lines that happen to be buffered, `NextPart`
from the lines it reads. `NInv` adds to `IInv` what holds from the part's end to the next
part, of a part that is `Separated` (or ends with the stream), whose source does not fail and whose
padding fits (`Orderly`):

* `ClosingInv` and `LinesInv`: while `NextPart` closes the part nothing behind its body is taken, and the
  lines it then reads are a blank one, unless the body is empty, and the boundary's
  (`BetweenLines`), with `expectNewPart` set behind the blank one;
* `FilledInv`: once `Read` has returned `io.EOF` all of the peek buffer is buffered, or all of the
  rest of the stream. This is what `CheckNextPart` relies on without saying so: it asks for no byte itself;
* `ToldInv`: what `CheckNextPart` has said is `Foretold`, which the stream alone determines: another part, or none.

`BoundaryEnds` shows that the line of a boundary ends before the peek buffer does, `BoundaryJudged` that
`Judge` takes it for what `Part.Read` took it for, whatever the line ends; `JudgedTrace` unfolds `Judged`, a
recursion over the buffer, and `Told` goes along the lines of it that lie behind the body. `PaddingFits` is
needed here too: the boundary's line must be in the buffer when it is judged.

The last part of the module is about a whole message as the writer lays it out (`Laid`): before each part
the line of a boundary and a header (`Opening`), then a body without the boundary and a line end
(`Content`), at the end the final boundary (`Closing`), nowhere white space. In such a message (`InMessage`) the
reader is before the first part (`AtFirst`), at a part (`AtPart`), at the header of the next one (`AtHead`) or
`Through`, and nothing has gone wrong. `MessageStep` shows this of every step but `CheckNextPart`, with
`NInv` for the lines between the parts, and `PartOfMessage` says which bytes of the
message the caller has got.

**`MultipartWriterProofs`.** For every boundary, text and sequence of calls, in any state of the
parts: `TypeCorrect` (`WTypeOK`), `LossIsFinal` (`ErrorIsFinal`: after a write error of a part
`Close` never says that the message is complete). `WInv` adds `LastHolds`: only the last part can hold an error,
because `CreatePart` closes it first and stays where it is if that fails.

`ReadAsWritten` (`RoundTrip` of `MultipartRoundTrip`) is about both directions: what the writer has finished, the
reader gives back part by part, byte by byte. `TripInv` has a half for each:

* `WrittenInv`: unless something was lost or broken, `out` is laid out (`Laid`) as the parts created
  so far with their bodies, one behind the other, and after a `Close` that returned nil with the
  final boundary (`Closed`). A write to a part is the delicate case: it appends to `out` and to one body,
  which is right only because an earlier part is closed when the next one is created. Each call has its
  lemma (`SetBoundaryWrites`, `CreatePartWrites`, `WriteWrites`, `CloseWrites`);
* once handed over, the reader has not begun (`Unread`), or is in that message (`InIt`, with the reader's
  own `NInv`).

`P` is the reader's proof module, instantiated with the writer's `Message` as its stream; the lemmas `Same...`
show that the steps of `R`, the reader of `MultipartRoundTrip`, are steps of `P`, and `ReaderAssumed` that
`P`'s assumptions hold. `MessageLaid` maps the writer's layout to the reader's: the writer's boundary is the
reader's, and a boundary given up before the first part was created is text.

**Only model-checked**, and why:

* liveness (`ReachesError`, `ReachesEnd`, `ReachesEOF`, `EveryCallReturns`): the provers do not reach
  `ENABLED`;
* what is said with folds and filters of the community modules over sequences, whose
  definitions recur inside `LET` and have to be unfolded by lemmas of their own, as `FlattenSeq` is:
  all of `MediaType` (`MeaningExact`, `FaultsTold`, `TypeNormal`) and `EncodedWord` (`WordsFit`, `HeaderExact`).

## 5. What is not modelled

* `MultipartReader` is partial: reads are raw (the decoders are modelled by
  themselves, the stack of them that `newPart` builds is not composed); a caller that
  keeps an old Part or goes on after `io.EOF` is left out; `FormName`, `FileName` change
  only a cache.
* The text of form headers (`escapeQuotes`), the random boundary, file contents and
  names: forms keep lengths and order.
* `IsOkPMTError` and the text of `PMTErr`; a fault is kept by its kind.
* `EncodedWord` has no text that an encoder leaves as it is and a decoder takes for a word: the
  characters it encodes do not make up `=?...?=`. A word short enough for `Decode` to index
  behind its end (section 6) has its result in the model (`Decode`), and is in no run.
* Which files `mime.types` are, and the scanning of their lines; the test hook
  `testInitMime`. The pool of buffers in `encodedword.go` is not visible to a caller.
* Values and wording: the number an escape stands for, the text of errors, and of
  the errors that can be ignored all but the first, which no code path looks at.
* Character set conversion is tables and a library's; only its failure is kept.

## 6. Where the code and its documents differ

Three runs end in a violation; each checks a sentence of the repository.

* `UTF8Corrector_lost`. When the slice fills with the last byte of `release`,
  `release` returns false before it resets the state. The next byte read meets
  `stRelease`, for which `cycle` has no case, and is lost. The tests say only line
  ends are filtered.
* `QPWriter_lf_lost`. A CR, a byte that must be encoded, an LF, in text mode:
  `encode` does not clear `w.cr`, and the LF is taken for the second half of a
  CR LF.
* `QPReader_softbreak`. A full buffer that ends between the CR and the LF of a soft
  line break: the break is delivered as text.

Further sentences of the repository that do not hold are stated in the modules and
checked by no run; named as an `INVARIANT` or a `PROPERTY` in the configuration of the
module's run, each gives a counterexample:

* `UTF8Corrector`, `ProperEndDelivered`. At the source's error `Read` drains `stStart` and
  `st10XXXXXX` and not `st0x0D` or `st0x0A` (`qputf8.go:48`): of a stream that ends with `å` and
  CR LF, LF or CR all of these bytes are lost, and the same is true of a character of three bytes.
  The tests let an "improper EOF" be filtered, a lone lead byte with at most a line end behind it
  (`qputf8_test.go:324`, `:327`), and say of a "proper unicode EOF" that it "will be allowed to
  output" (`:333`). A text that ends with such a letter and a newline loses both.
* `TypeRegistry`, `ListedIsKnown`. `ExtensionsByType` "returns the extensions known to be associated
  with the MIME type" (`type.go:134`). `AddExtensionType(".a", "text/x; a=b")` stores the
  empty string in both maps, because `FormatMediaType` is given the type with its parameters
  (`type.go:172`), and lists `.a` under `text/x` all the same: `TypeByExtension(".a")` answers "".
* `MultipartReader`, `TruncationReported`. A body that the end of the stream cuts off
  ends with `io.EOF` (`multipart.go:210`); `multipart_test.go:312` expects
  `io.ErrUnexpectedEOF`.
* `MultipartReader`, `CheckTellsEOF`. `CheckNextPart` before the first `NextPart` looks
  into an empty buffer and says `io.EOF` (`multipart.go:261`); its comment says it "can
  tell whether next part is EOF or not".
* `Form`, `StoresAll`. With the largest `maxMemory`, `maxMemory+1` wraps
  (`formdata.go:70`), nothing is read, and every file comes back empty and without an
  error.
* `MediaType`, `TrailingIgnored`. A semicolon at the end returns before the
  continuations are put together (`mediatype.go:226`): `filename*=utf-8''x;` has no
  file name, although the comment says that trailing semicolons are ignored.
* `EncodedWord`, `WordLimit`. "The maximum length of an encoded-word is 75 characters",
  but `maxContentLen` leaves out the encoding letter and its `?`: a full word has 77.
* `EncodedWord`, `AllDecoded`. `DecodeHeader` "decodes all encoded-words", but its loop
  ends at the first `=?` that is not even the form of a word, and leaves all words
  behind it (`encodedword.go:265`).

Further deviations that TLC showed, or that reading for the models did:

* a slice no longer than the bytes the corrector holds (one byte is the simplest) gets
  `(0, nil)` for ever (`qputf8.go:53`): without the condition on the slices
  `ReachesError` is violated;
* a part header that could not be written is not remembered (`writer.go:107`): `Close`
  closes the broken message and returns nil; a boundary may be changed after that, or
  after `Close` (`writer.go:47`), and a part created after `Close` begins without a line
  end (`writer.go:97`);
* `DecodeHeader` with no `CharsetReader` returns an error for a charset it does not know
  (`encodedword.go:334`), although its comment says only a `CharsetReader` makes it;
* the comment at `multipart.go:34` says that a peek buffer that holds a boundary is enough
  "for this package to work correctly". It is not when the white space behind a
  boundary, which RFC 2046 allows, does not fit into it as well: `Part.Read` then takes the
  boundary for text (`multipart.go:450`). The attempt to prove `BodyExact` showed it;
* `Decode` indexes behind the end of `=?a???=` (`encodedword.go:205`);
* `FormatMediaType` writes an empty value as `""`, which `consumeMediaParam` takes for a
  fault (`mediatype.go:402`), and a CR or LF as it is (`mediatype.go:123`), which `consumeValue`
  refuses (`mediatype.go:374`); no header of the run comes from such a value;
* `FormatMediaType` tests bit 7 of a character (`mediatype.go:119`), not whether it is ASCII: U+0100 is
  written where U+00E5 is refused (`"wide"` and `"hi"` in the model);
* an extension with a new type stays in the list of its old one (`type.go:185`);
* the decoder delivers a last `=` if it just fills the buffer (`reader.go:255`),
  although elsewhere a last `=` is dropped (`reader.go:184`);
* with an error to return and more bytes kept than the slice has room for, the
  decoder returns the error and the rest is never asked for (`reader.go:161`);
* two `=` around the end of the buffer leave the decoder in a state where it
  swallows bytes of each further piece (`reader.go:226`);
* separator and two dashes end a part even if the line goes on, and `NextPart` then
  refuses the line (`multipart.go:445`);
* an encoder whose hand-over has failed may lose the white space that
  `checkLastByte` took back (`writer.go:130`); `ReportedKept` therefore leaves
  white space out.

## 7. What could come next

Every component is modelled, and all but media types and encoded words have theorems. What is
left, in the order of what it would say of the code:

1. the stack that `newPart` builds: the quoted-printable decoder and the corrector behind a part,
   whose reads share the part's peek buffer;
2. a Part that is kept after `NextPart` has returned the next one: its `Read` takes the next one's bytes;
3. the invariants of `MediaType` and `EncodedWord`, with lemmas on the folds they are said with.
