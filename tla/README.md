# A TLA+ verification project for codex-dedup

codex-dedup is a local HTTP proxy that sits between a command line client and a
provider. It forwards requests unchanged and, while it forwards a request body,
cuts the body into content-defined chunks, hashes them, and counts how many
bytes a later deduplicating tunnel would have saved. This directory holds the
specification of that program: modules translated from its source, TLC
configurations that check them on small instances, and proofs for TLAPS.

Paths below are relative to the repository (`src/` here is the repository's own
`src` directory).

## 1. The system

| Component | Source | State it keeps | Operations |
|---|---|---|---|
| Chunker | `src/core/utils/fastCdc` | a buffer of twice the maximum chunk size with a window `bufferStart..bufferEnd`, the reader's end or error, a summary and a hasher | `NewChunker`, `Next` (with `fillBuffer`, `findChunkLength`, `finish`), `Summary`, `Reset` |
| Measurement store | `src/localProxy/methods_measurement.go`, `types.go` | a mutex, the map of known chunk identities, the cumulative snapshot | `recordRequest`, `getSnapshot` |
| Body measurement | `src/localProxy/handlers.go`, `methods_measurement.go`, `helpers_measurement.go` | per request: a `measuredBodyStream`, an `io.Pipe`, a goroutine and a channel of one result | `handleRequest`, `measuredBodyStream.Read` and `Close`, `startBodyMeasurement`, `measureRequestBody` |
| Forwarding | `src/localProxy/handlers.go`, `helpers.go`, `methods.go`, `vars.go` | the global `theLocalProxy`: provider host, URL prefix, HTTP client, store | `NewLocalProxy`, `getProviderURLPrefix`, `removeHopByHopHeaders`, `handleProxyError`, `Run` |
| BLAKE3 hasher | `src/core/utils/blake3` | an 8 KiB buffer, a chunk counter, a stack of chaining values with up to eight parents waiting to be compressed | `Write`, `Sum`, `Digest`, `Reset`, `Clone`, key derivation |
| BLAKE3 output reader | `src/core/utils/blake3/methods_digest.go` | a block counter and the unread rest of a block | `Read`, `Seek` |
| PCG generators | `src/core/utils/pcgUtils` | one word, or eight words updated by compare and swap | `Uint32`, `Uint32n`, `Uint64`, `Float32`, `Float64` |
| Configuration | `src/core/appConfig` | the global `TheConfig`, loaded once | `LoadConfigFromFile`, validation by role, getters |
| Startup, CLI, logging | `src/appStartup`, `src/cli`, `src/core/utils/logging`, `main.go` | the global `appLogger` | `Run`, `LoadLogger` and the closer it returns |

How they interact:

- The CLI calls startup, which loads the configuration, opens the logger, builds
  the proxy and serves until a signal arrives or its listener fails. Handlers reach their proxy
  through the global `theLocalProxy`.
- fiber runs `handleRequest` in a goroutine per connection. For a body stream it
  starts a second goroutine and hands the HTTP client a `measuredBodyStream`.
  The client's reads copy every byte into an unbuffered pipe, so **each read of
  the body waits for the measuring goroutine**; that goroutine reads the pipe
  through a chunker. After `Do` the handler closes the stream and **waits for
  the goroutine's result** before it answers.
- Measuring goroutines of all requests meet in the store, under its mutex.
- The chunker writes every chunk into a BLAKE3 hasher and hashes each chunk.

### What is hard about each part, and what makes it correct

- **Chunker.** Readers return bytes in portions of their own choosing, possibly
  together with their end or an error; the window slides, wraps by a copy, and
  is cut at boundaries that depend on the data. Correct means: the chunks are a
  function of the bytes (`docs/core-design.md`, invariant 7: deterministic
  `fastcdc-v1` chunking), no read runs past the buffer, a summary is complete
  only for a whole stream, and nothing survives a `Reset`.
- **Store.** Any number of goroutines record at once, and `recordRequest` updates
  one figure inside its loop and the others after it. Correct means: every byte
  is counted once as new or reusable, the simulated cache holds exactly the
  chunks counted as new, and every answer fits one order of all the calls.
- **Body measurement.** Two goroutines, a pipe that blocks, a `sync.Once` closed
  from three places, and an HTTP client that may stop, fail or close the body at
  any moment. Correct means: measuring can neither stall a request nor lose a
  byte, a truncated or failed upload is not taken for a whole one, a request is
  in the snapshot when its client has the answer, and no goroutine is left.
- **Forwarding.** Handlers find their proxy through a global that the next
  `NewLocalProxy` overwrites, and read it once for each field. Which headers
  cross the proxy depends on the headers of the message itself, and two removals
  that look alike must happen in this order. Correct means: a request is
  addressed, prefixed, measured and sent by the proxy that received it; in both
  directions headers about one connection stay behind, and every other header
  arrives, in its order.
- **BLAKE3 hasher.** `Sum` and `Digest` fold the buffer into the stack, after
  which writing goes on; parents are compressed late and in batches of eight.
  Correct means: any sequence of `Write`, `Sum`, `Digest` and `Reset` gives the
  root of the tree that the bytes determine.
- **Output reader.** A `Read` goes on in the middle of a block, and a relative
  `Seek` computes the position from a block counter and the unread bytes in
  64-bit arithmetic. Correct means: every byte is the one at the position.
- **Compression function.** Fifty-six calls of `g` written out by hand over
  sixteen local variables; a slip gives words that look like any other. Correct
  means: the published vectors.
- **Generators.** A lock-free update that may be overtaken between load and swap
  and meet the old word again, and conversions that must not favour a number.
  Correct means: every state of a slot's stream goes to one draw, draws are
  atomic, and the numbers are uniform.
- **Configuration, startup, shutdown.** Validation by role in one place and the
  dereference of what only one role has in another; deferred calls; a logger
  that goes away while handlers that hang in a provider may still log; a server
  that ends by a signal or because it can accept no more connections. Correct
  means: startup never panics, exit codes tell what became of the server, a signal
  ends the process, and only a handler that outlived the server can miss its
  logger.

`PROJECT.json` lists every hazard at the line where it bites, with the
properties that would catch it or a note when none does yet.

## 2. The modules

| Module | What it is |
|---|---|
| `FastCdc` | the boundary rule as operators: configuration, masks, rolling hash, `FindChunkLength` |
| `ChunkStream` | abstract: which chunks a stream yields and how it ends |
| `Chunker` | the chunker over its buffer, with the reader as an actor; implements `ChunkStream` |
| `ChunkerProofs` | the theorems of the chunker and of its two loops |
| `DedupLedger` | abstract: what the figures mean, given the bodies recorded so far in order |
| `DedupStore` | the store step by step under its mutex; implements `DedupLedger` |
| `DedupStoreProofs` | the store's theorems |
| `ChunkScan` | the two loops of `findChunkLength`, against the rule of `FastCdc`; extends `Chunker` |
| `BodyMeasurement` | the handler, `measuredBodyStream`, the pipe and the measuring goroutine |
| `BodyMeasurementProofs` | its safety theorems |
| `Blake3Tree` | abstract: the digest as the root of the tree over the bytes written |
| `Blake3Hasher` | the hasher with its buffer and stack, one action per loop iteration; implements `Blake3Tree` |
| `Blake3HasherProofs` | its safety theorems and the refinement |
| `Blake3Compress` | the portable compression function call by call, over inputs of one chunk |
| `OutputStream` | abstract: an endless sequence of bytes with a position |
| `OutputReader` | `Read` by stages and `Seek`; implements `OutputStream` |
| `OutputReaderProofs` | its theorems, the refinement among them |
| `LocalProxy` | `handleRequest` over the head of a message, `NewLocalProxy` and the global it sets |
| `LocalProxyProofs` | the theorems that a request stays with its proxy, and about the headers |
| `PcgStreams` | abstract: every slot a stream, every state of it drawn once |
| `PcgParallel` | the compare-and-swap loop of `PT` on several threads; implements `PcgStreams` |
| `PcgNumbers` | the methods of `T` and the numbers made of generator states |
| `PcgProofs` | the theorems of both, the refinement of `PcgParallel` and the uniformity of the numbers of `PcgNumbers` among them |
| `AppLifecycle` | a run of the program, from the command line to its exit |
| `AppLifecycleProofs` | its safety theorems |
| `MCChunker`, `MCDedupStore`, `MCBodyMeasurement`, `MCBlake3Hasher`, `MCBlake3Compress`, `MCLocalProxy`, `MCPcg`, `MCAppLifecycle` | the instances TLC checks (`OutputReader` needs none); `MCPcg` extends `PcgParallel` and `PcgNumbers` and is a program that uses a generator of one kind or the other |

How they compose. `ChunkScan` extends `Chunker` and looks at every window that
it cuts. `BodyMeasurement` uses the chunker and the store as single steps; that
the chunks of a complete stream are a body as the store expects it is the
theorem `CompleteStreamIsBody`. `LocalProxy` uses `BodyMeasurement` as one
(`Measure`). `OutputReader` reads blocks that `Blake3Compress` computes, from
the root that `Blake3Hasher` builds; `Blake3Hasher` takes the compression
function as a symbol. `AppLifecycle` serves with one proxy and knows of its
handlers that they run and log.

### FastCdc, ChunkStream, Chunker

`FindChunkLength` states the rule of `findChunkLength` without its loop: the
least length above the minimum at which the rolling hash is a multiple of the
mask in force there, or else the limit. A mask of the low *n* bits is
represented by the modulus 2^n. The alphabet, the Gear table, the word width and
the three sizes are constants, restricted only by what `validateChunkerConfig`
accepts; the hash is `WordBits` wide, as the code's is 64.

`ChunkStream` has no buffer and no reads. `Chunker` has one action per stage of
`Next`:

- `CallNext`: the early return, the test for a refill, and `fillBuffer`'s copy of
  the window to the front (`MoveWindow`).
- `ReadMore`, `ReadLast`: `io.ReadFull` over a reader that returns any number of
  bytes at a time and reports its end with or after the last of them.
  `ReadFullError` is `io.ReadFull`'s translation of the end: nil when the
  request was filled, `io.ErrUnexpectedEOF` for an EOF after some bytes, else
  the reader's own error.
- `NextFails`, `NextEnds` (with `finish`), `NextChunk`: the three results.
- `Reset`: anywhere between two calls of `Next`, over the old bytes.

`chunks` and `opened` are history variables. A digest is the sequence of bytes
it was computed from: BLAKE3 is taken to be free of collisions.

`ChunkScan` adds the function as the code has it: `Roll` is the update of the
hash, `MaskAt` the switch from the first loop to the second at `NormalSize`,
`ScanLength` what they return. It changes no state, so its two properties are
about the windows of the states of `Chunker`.

### DedupLedger, DedupStore

`DedupLedger` computes every figure from the sequence of recorded bodies.
`DedupStore` performs `recordRequest` as the code does: take the mutex, visit one
chunk per step (`VisitKnown` or `VisitNew`), then store the totals and release
(`FinishRecord`); `getSnapshot` takes the mutex and copies. The refinement
mapping is the identity on `log`, `returned` and `observed`. Counters are
unbounded naturals: the code's 64-bit counters would need 2^64 bytes of traffic.

### BodyMeasurement

`handlerPc` and `measurerPc` say where the two goroutines of a request are. The
pipe is `pending` (the bytes of the current `Write` not yet taken), `writerEnd`
(what the first close of the writer said) and `readerClosed`. `Do` is external:
`ReadSource` reads any portion of the body, `DoCloses` closes it, `DoReturns`
ends the call either way, all at any time. An upload announces a length or is
chunked, sends that much or less, and ends with EOF, `io.ErrUnexpectedEOF` or
another error. Bytes are counted, not named: their order is that of the pipe, and
which chunks they make is `Chunker`'s subject. The measuring goroutine's chunker
and its call of the store appear as single steps here and in detail in the other
two modules.

### Blake3Tree, Blake3Hasher

The compression function is symbolic: a chaining value *is* the input it was
computed from (chain, block, counter, block length, flags), so two digests are
equal exactly when all that was hashed is. `Blake3Tree` says what a digest is:
the bytes cut into chunks, the chunks into blocks, the left subtree of every
node the largest complete one, `Root` on the last compression.

`Blake3Hasher` is the code over `Lanes` chunks of buffer (8 in the code):

- `CallWrite`, `CopyIn`, `ConsumeInput` (a long input, hashed where it lies),
  `ConsumeBuffer`, `ConsumeReturns`, `WriteReturns`: the loop of `updateString`.
- `PushVector`, `FlushFull`, `PushParent`: the loops of `pushN` and `flush`. A
  value that finds its level occupied becomes a *pair*; pairs wait until `Lanes`
  of them can be compressed together, and their parents are pushed in turn.
- `DigestSmall` (`compressAll`), `CallDigest`, `FoldBuffer`, `FlushRest`,
  `DigestReturns`: `finalizeDigest`, which changes the hasher it reads: complete
  chunks leave the buffer for the stack and all pairs are flushed.
- `Reset` leaves the old buffer and chaining values in place, as the code does;
  `DeriveKey` is the end of `NewDeriveKey`.

`Clone` copies the structure, and a copy shares nothing with the original; it is
no action. Every byte ever written is a different number, so a byte from before a `Reset`
would be seen in a digest. `mode` is the key with the mode flag.

### Blake3Compress

One action per call of `g` (`CallG`), with `StartBlock` and `EndBlock` for the
blocks before the last (`compressAll`), `StartOutput` and `EndOutput` for the
output blocks (`fillBuf`), and `DeriveKey`. A 32-bit word is a pair of 16-bit
halves, because TLC's integers are 32 bits with a sign. The message order of each
round is the literal of the code. The vectors are those of
`tests/blake3Tests/vectors_test.go`.

### OutputStream, OutputReader

A byte is named by its block and its place in the block. `counter`, `buf` (the
number of the block in it) and `bufn` are the code's; `ReadRest`, `ReadBlock`,
`ReadTail` are the three stages of `Read`. `Target` is the arithmetic of a
relative seek in two's complement of integers up to `MaxInt`. The mapping computes the
abstract position from the counter, the unread bytes and what the current call
has delivered. `answer` records each call with its result, so that a seek that
got somewhere else than it was asked to is seen.

### LocalProxy

A handler reads `theLocalProxy` for the host (`SetHost`), again for the prefix
(`SetRequestURI`), for the store (`Measure`) and for the client (`Do`), so each is
an action, and `NewLocalProxy` may come in between. It reads the global once more
to decide whether a measurement is logged, which is left out: nothing depends on
it but a line of the log. `providerAnswer` keeps the headers that the provider
answered with, so that both directions are compared with what came in. `Run` opens the listener of the proxy
created last, `Stop` ends it; handlers in progress go on. fiber and fasthttp are
external: both are told not to normalise header names, so `Peek` finds the first
header of a spelling and `Del` deletes all of that spelling. A path is the
sequence of its segments, and the value of a Connection header the set of names it
lists. The constant `Overlapping` says whether a proxy may be created while
another is in use: neither the program nor its tests do so.

### PcgStreams, PcgParallel, PcgNumbers

A call of `PT` draws one or two states, each with its own loop: `Load` (with
whatever slot `GetTid` answers), then `SwapSucceeds` or `SwapFails`.
`Uint32n` is as many calls of `Uint32` as it needs. `handed` records the states
drawn from each slot; the refinement mapping is the identity.

`PcgNumbers` has one action per method of `T`, one per round for the loop of
`Uint32n`, and the conversions as operators. The package functions and the
methods of `PT` repeat the same formulas. All widths are constants; TLC takes
outputs of 4 bits from states of 8. `^` and `|` are defined bit by bit (`Xor`,
`Or`), so that the module can be reasoned about.

### AppLifecycle

`pc` follows the main goroutine through `cli.Run`, `LoadConfigFromFile`,
`LoadLogger`, the role, `signal.NotifyContext`, `NewLocalProxy`, `Listen`, the
deferred calls in their order, and `os.Exit`. A file is described by what the
validators look at. A signal may come at any moment: before `NotifyContext` it
kills the process, later it ends the context, and once the deferred `stop` has
run it kills again. The server comes up in `Listen`, or its address is taken. It
goes in one of two ways: `ListenReturns`, when its context has ended, without
waiting for handlers (fiber's shutdown timeout is not set); or `ListenFails`,
when it cannot accept a connection (fasthttp returns such an error from its
loop, and `appStartup.Run` returns it in turn). Either way a handler may run, and
log, until the process exits. `server` records what has become of the server.

## 3. The runs

| Run | Question | Instance |
|---|---|---|
| `chunker` | Do the chunks depend on how the stream is read? Does anything survive a `Reset`? Does `Next` get to the end? Do the loops of `findChunkLength` follow the rule? | byte sequences of thirteen lengths, up to beyond three maximum chunks, every split into reads, every ending, two streams per chunker, the first abandoned anywhere; sizes 2/8/10, 7-bit hash |
| `chunker_truncated` | Is a summary complete only for a complete stream? (It is not, see below.) | one stream per chunker |
| `dedup_store` | Do concurrent records and snapshots add up, in one order? Does every call return? | two goroutines, three records, bodies with repeated, shared, and equal-digest chunks and with none |
| `body_measurement` | Is every body measured right, and every request answered whose client and provider do their part, whatever the portions, the errors and the schedule? | two requests: one with every upload of at most one byte and some of two, one with an empty chunked body that may hang |
| `blake3_hasher` | Is every digest the root of the tree of what was written, after any writes, digests and resets? Is the stack right between any two pushes? Does every call return? | unkeyed and key-deriving hashers, chunks of two blocks of two bytes, a buffer of two chunks, up to nine chunks, two starts |
| `output_reader` | Does every read and every seek get what it was asked for? | blocks of four bytes, 5-bit integers, all offsets, every position |
| `blake3_compress` | Are the words of the compression function the published ones? | two output blocks of six vectors (hash, keyed hash and key derivation) of four lengths, no input to a full chunk |
| `local_proxy` | Does a request stay with its proxy, and do the right headers cross it? | two proxies one after another, two requests; one has any message of up to two header lines and some of three, and answers of up to two |
| `local_proxy_second_line` | Is every header dropped that a Connection header lists? (It is not, see below.) | two messages with two Connection lines, in one spelling or two |
| `pcg` | Is a draw of the parallel generator atomic, and does it return? Are the numbers uniform? | three threads, two slots, 3-bit words; or one `T`, every 8-bit state, every bound |
| `pcg_float64` | Is `Float64` uniform in [0, 1)? (It is not, see below.) | the same `T` |
| `app_lifecycle` | What does a run end with, and does a signal end it? | every command line, files wrong in at most one entry, two requests |

**Bounds.** The minimum, the average (at least 8 by validation), and the maximum
differ, so all stretches of the rule (skipped, strict mask, loose mask, limit)
occur; the byte sequences contain boundaries at the first tested length, at the
average, beyond it, and none, and are long enough for the window to be moved over
bytes still needed and for a full window to precede the end. Two streams are
enough for `Reset`: it looks at nothing but the present state. Two goroutines
contend for the mutex, and a third record makes a chunk known that the first
recorded and the second repeated. Two bytes allow a body to be read in one or two
portions and to stop before, at and after each; requests interact only through
`recorded`, which no guard reads, hence two of them and a small body for the
second (the theorems hold for any uploads and any number of requests). What could
make one request wait for another is the mutex of the store, which a measuring
goroutine takes when its body is read; that is `DedupStore`'s subject
(`CallsReturn`). Nine
chunks over a buffer of two fill three levels of the stack, with pairs of
different levels waiting at once; the writes are shorter than, equal to and
longer than the buffer, so that every branch of the loop is taken in every order.
Nothing in `Blake3Hasher` depends on how many bytes a block has beyond its being
full, short, first or last. For `OutputReader` the 5 bits make the end of the
integer range reachable: reading stops one byte behind the largest offset
(`MaxPosition`). Beyond that, at 2^63 bytes in the code, a relative seek can wrap
around instead of being refused. Of `LocalProxy`'s two requests one is bare,
since handlers share nothing but the global; two proxies are enough for one to
replace the other, and the theorem is for any number. Three header lines allow a
Connection header before, between and behind what it lists; the answers' lists
name a fixed header or an end-to-end one. In `PcgParallel` a
thread that stands before its swap can be overtaken by the four draws of the two
others, and one slot repeats its word after two, so that a swap succeeds on a word
that came back. The widths of `PcgNumbers` keep the relations of the code's
between state, output, shifts and fractions as far as 4 bits allow. The vectors of
`blake3_compress` have lengths at which the block loop behaves differently; each
is one deterministic computation.

**Fairness.** `Chunker`: the caller loops over `Next` as `measureRequestBody`
does, and the reader answers; nobody has to call `Reset`. `DedupStore`: a
goroutine that runs keeps running (weak fairness), and a waiter gets the mutex
eventually if it is free again and again (strong fairness: Go's mutex hands
over to a waiter after a millisecond). `BodyMeasurement`: the scheduler runs the
steps of both goroutines; what depends on the client or the provider is fair only
for the requests in `Answered`, and closing a body is never required of `Do`.
`Blake3Hasher`: a call that was made goes on; nobody has to make one.
`PcgParallel`: a thread inside a call is scheduled. That its swap succeeds in the
end is not assumed: it follows from the others making finitely many calls
(`MaxCalls`), and without such a bound a lock-free loop may starve. `AppLifecycle`:
the main goroutine is scheduled; no handler is, and the listener may fail but need
not.

**Deadlock** is checked wherever the system goes on for ever or has an end that
the model marks (`AllResponded`, a dead process, threads that have made their
calls). It is not checked in `local_proxy` and `blake3_compress`, whose behaviours
simply end: the proxies have stopped and the clients have gone, or the output has
been read.

### What the runs show

All properties hold but three.

`SummaryMeansComplete` states the comment of `Summary` ("It returns false when
the stream is incomplete or failed", `fastCdc/methods.go:65`). `fillBuffer` treats
`io.ErrUnexpectedEOF` as the end of a good stream, because `io.ReadFull` returns
it for a short last window; but a reader may return the same error itself to say
that its stream was cut off, and `measuredBodyStream` does just that with its
pipe. The run `chunker_truncated` shows such a stream summarised as complete. In
the proxy it means that a truncated upload is recorded as a request, with the
bytes that arrived; `BodyMeasurement` models that (`PipeEnds`), and its
`CleanCloseMeansWholeBody` claims only what holds: an EOF in the pipe means a
whole body, and an upload that ended with any other error is not recorded.

`ConnectionScopedStaysHere` states what the integration test calls a failure when
it is violated ("connection-scoped header reached provider",
`tests/localProxyTests/proxy_integration_test.go:107`). `removeHopByHopHeaders`
peeks at the first Connection header only, so a header that a second one lists is
forwarded (`local_proxy_second_line`). A Connection header in another spelling is
not looked at either, nor removed, since header names are not normalised; the run
has such a message too (the second Connection line in `MCSecondLine` is spelled
in either way). What does hold, for messages and for answers, is
`HopByHopStaysHere`.

`Float64Uniform` states the comment of `Float64`, "uniformly in [0, 1)"
(`pcgUtils/helpers.go:62`). The two halves are joined by `|` without shifting
one, so the fraction stays below 2^-32 (in the code's widths), and its bits are
ones three times out of four (`pcg_float64`). `Float64IsSmall` proves the bound for
every width. `Float32` and the rest are uniform.

`StaysWithItsProxy` holds because nobody creates a proxy while another is in use.
With `Overlapping = TRUE` TLC finds a request sent to the provider of the proxy
created last; the theorem `OwnProxy` has `~Overlapping` as its hypothesis.

`OnlyLateHandlersPanic` holds, and says as much: a handler that hangs in its
provider when a signal comes or the listener fails, and logs between the closing
of the logger and `os.Exit`, dereferences a logger that is gone. The window is a
few instructions. A process that got no signal can come to this, but only with
the exit code 1 decided and its server gone.

`ExitCodesTell` relates the code to what became of the server: 1 is for a role
that never served *and* for a proxy that served until its listener failed, and 0
of a role for a proxy that a signal shut down.

For BLAKE3 everything the source claims holds: `Sum` is documented not to modify
the hash state, and although `finalizeDigest` does modify it
(`methods_hasher.go:125-127`, `152-154`), no later digest can tell. The reason is
that it only does early what would have been done anyway, which is what
`StackHoldsTheTree` and `EveryByteKept` say of every state. (It also means that
`Sum` writes to the hasher, and must not run at the same time as another call.)

## 4. The proofs

All proofs are for arbitrary constants and are checked by TLAPS to the last step.

### ChunkerProofs

Assumed: a configuration that `validateChunkerConfig` accepts
(`ConfigAssumption`), a Gear table of words (`WordAssumption`), streams that are
finite sequences of bytes with one of three endings (`StreamsAssumption`), and
`MaxStreams` at least one. Proved: `TypeCorrect`, `ReadsFit`, `BufferMirrors`,
`SummaryCorrect`, `Refinement`, `LoopsFindTheCut` (`FindsTheCut`),
`BoundariesAreLocal` (`BoundaryIsLocal`), `ChunksTileTheStream` and
`CompleteStreamIsBody`.

`TypeOK`, `ReadFitsBuffer` and `BufferMirrorsStream` are not inductive. That a
read fits the buffer needs that the window is never longer than a maximum chunk
and that nothing has been read yet when `fillBuffer` begins; that the bytes of
the window are the right ones needs to know where `readPos` stands. `IInv` adds

- `ReadState`: what the reader's end or error says about the position in the
  stream, and that Next cuts only from a full window or after the end; and
- `CutState`: hasher, count and history agree with `totalSize`, and a finished
  stream without an error has been cut to its end.

There is one lemma per action (`ResetInv`, `CallNextInv`, `ReadMoreInv`,
`ReadLastInv`, `NextFailsInv`, `NextEndsInv`, `NextChunkInv`); `MoveWindowKeeps`
and `CopyInMirrors` carry the two that touch the buffer.

`Refinement` rests on one fact about the boundary rule, `WindowDetermines`: a
window that holds a maximum chunk or all the rest of the stream is cut where the
rest of the stream would be cut. `SameCuts` reduces it to the equality of two
sets of candidate boundaries, and these are equal because the hash at a length
reads only the bytes before it. `ReadState` provides the premise at every cut.

`ChunksTileTheStream` says that the chunks of a stream, finished or not, follow one
another without a gap or an overlap and carry the digests of their own bytes;
`CompleteStreamIsBody` joins the chunker to the store. What `measureRequestBody`
records after a complete summary satisfies `IsBody` of `DedupLedger`, which the
store's proofs assume of every body, and is as long as the stream. The store's
digests are names and the chunker's are bytes, so the theorem takes any function
from the ones to the others.

`LoopsFindTheCut` holds of every window, so the invariant serves only to say that a
window is a piece of a stream. `ScanFinds` goes through the loop backwards: the
length that the scan returns from an index on is the first length from there on
whose hash passes its mask, which the rule of `FastCdc` takes as a minimum of a
set.

`BoundariesAreLocal` follows the bits of two hashes. If they differ by a multiple
of 2^j, then one and the same byte later they differ by a multiple of 2^(j+1), up
to the width of a word (`RollDifference`), and a mask of *n* bits sees no multiple
of 2^n (`SameRemainder`). So the last *n* bytes decide, whatever was hashed before
them (`LastBytesDecide`). `AverageBitsRange` says that the limits of
`validateChunkerConfig` leave both masks at least one bit.

### DedupStoreProofs

Assumed (`StoreAssumption`): bodies have finitely many chunks with natural
lengths, and their chunks' lengths add up to their bytes; `ends`, the running sum
that says so, is part of the body. (The chunker provides this:
`CompleteStreamIsBody`.) Proved: `TypeCorrect`, `Exclusion`
(`MutualExclusion`), `BytesCounted` (`EveryByteCounted`), `CacheExact`
(`CacheHoldsTheNewChunks`) and `ImplementsLedger` (`RefinesLedger`), for any number
of goroutines and any bodies.

`IInv` has three parts beside the type and `EveryByteCounted`: `LockState` (who
is inside holds the mutex), `RecordState` (the measurement of a goroutine that
stands before a chunk is that of the chunks before it), and `CacheState`. The
last is what makes the cache property inductive: `recordRequest` enters a chunk
into the map and adds its bytes to the cache at once, but to the new bytes only
at the end, so while a goroutine is visiting chunks the cache is *ahead* of the
snapshot by exactly what that goroutine's own measurement has counted as new.
`OneVisitor` says that there is only one such goroutine.

`ImplementsLedger` has to show that what `FinishRecord` returns and what
`FinishSnapshot` copies are the figures that the ledger computes from all bodies
recorded so far. `LedgerState` is what `IInv` lacks: the snapshot holds those
figures at any moment, except for the cache, which is that of the map; the map
holds the chunks of the recorded bodies and, while a goroutine visits, those it
has seen of its own body (`Seen`); and that goroutine's measurement counts as new
exactly the difference. So a chunk that the goroutine finds in the map is known
from an earlier body *or seen before in this one*, and the two cases need no
distinction. The reusable figures, and the cache totals of a snapshot, follow from
`IInv`. Whoever copies has the mutex, so nobody visits, and the map is that of the
log (`SnapshotIsRecorded`).

The ledger's figures are sums over sets, which the library computes by taking one
element after another of its own choice. `SumsExist` says that such a sum is
defined for every finite set, `SumTakesAny` that the choice does not matter, and
`SumGrows`, from these two, what one more element adds; `TotalGrows` and
`RecordedGrow` say it of `TotalLength` and of the figures of a log.

### BodyMeasurementProofs

Assumed: `UploadsAssumption` (what a client may send). Proved, for any number of
requests and any uploads: `TypeCorrect`, `PipeLosesNothing`
(`NothingLostInPipe`), `CleanClose`, `NoneLeftBehind` (`NoGoroutineLeft`) and
`RecordedFirst` (`RecordedBeforeResponse`).

The invariant speaks of one request at a time, except for the store. `Piping`
says what is in the pipe, and that there is something in it only while the handler
stands inside `Write`; `Closing` says that the writer is open then, which is why
nothing can be lost, and when it may have been closed and with what; `Measuring`
ties the goroutine's place to the state of the pipe and the channel; `InStore`
says that the store has the request exactly when the goroutine is past
`RecordBody`, with the bytes measured. A step of one request keeps the invariant of
the others because it appends to `recorded` at most an entry of its own.

### Blake3HasherProofs

Assumed: `HasherAssumption` (a chunk is a whole number of blocks, at least two
lanes). Proved, for any number of lanes, lengths, writes and starts: `QueueFits`
(`PairsFit`), `StackIsTheTree` (`StackHoldsTheTree`), `NoByteIsLost`
(`EveryByteKept`) and `HasherRefinesTree` (`RefinesTree`). The inductive invariant
`HasherInv` has four parts.

- `PairsInv`. While a flush pushes parents, each may add a pair to the queue it
  has just emptied, so parents still to be pushed count as pairs: a flush of a
  full queue makes as many parents as it takes pairs, and a push takes a parent
  for each pair it adds.
- `ByteInv` says where the bytes behind the chunks counted lie: in the buffer and
  behind it in the input, or, while chunks of a full buffer or of the input are
  being pushed, from `Base` on. A full buffer is consumed only when input is left,
  so the last byte never goes to the stack.
- `ShapeInv` says how many values each queue may hold and of which levels they are.
- `StackInv` is the reason why late pairing is right. There is a function `first`
  from the places of values to chunk numbers such that the value at each place is
  that of the complete subtree from that chunk on, and such that the subtrees lie
  side by side, older places on lower chunks, without a gap (`Tiling`). Every
  step renames places, adds the new chunks at the end, or joins two places;
  `Renamed`, `Extended` and `Joined` say that each keeps a tiling. The
  join is where the order matters: a value that is pushed is the next of its level
  after the one that rests there (`Joins`), so nothing lies between the two.

The statement that TLC checks has no witness `first`; it looks for the chunks
whose subtree has the value at hand (`FirstChunks`). There is only one, because
compression is symbolic and a chunk's node contains its number (`SubtreeFirst`,
by induction over the levels).

For the refinement, a write only appends to `written`, which no subtree over
older chunks notices (`SubtreeSame`). A digest of a single chunk is the node of
that chunk. Any other folds the levels of the stack upwards from the last chunk:
after each level the node is that of the subtree from the first chunk of that
level to the end (`FoldedFrom`), because the complete subtree on the left is the
largest whose size is a power of two below the count (`LeftSizeIs`).

### PcgProofs

Of `PcgParallel`, assumed: `WordAssumption`, `CallsAssumption`. Proved:
`TypeCorrect`, `NoStateHandedTwice` (`StreamUnbroken`) and `DrawsAreAtomic`
(`ImplementsStreams`). The invariant adds only that a thread inside a call has a
draw left. That a swap may succeed on a word that was replaced and restored needs
no extra fact: what it stores is a function of the word that it finds.

Of `PcgNumbers`, assumed: `WidthAssumption`. The bits kept of a state, the dropped
ones and those that select the rotation make up the word (27 + 32 = 59 in the
code, and 5 bits above), no more bits are dropped than an output has, and the
fractions are no longer than what they are made of. Proved: `NumbersAreUniform`
(`NumbersUniform`) and `Float64IsSmall`, for every width, multiplier and increment.
The invariant `NumbersInv` says only that state, bound and answers are in their
ranges; the work is in counting.

- *Outputs.* An output together with the bits that select its rotation and the
  bits that are dropped (`RestOf`) determines the state (`OutputInjective`): the
  rotation can be undone, since its length is known (`RotateInjective`), and so
  can the exclusive or with the shifted word, from the top bit downwards
  (`MixInjective`). There are as many such triples as states, so each occurs
  (`OutputCount`), and every output comes from 2^32 states. These lemmas speak of
  the bits of words: `SameBits` and `WordOfBits` say that words are equal when
  their bits are and have the bits they are made of.
- *Bounded numbers.* `Threshold` is the remainder of 2^32 by the bound, although
  computed by up to two subtractions (`ThresholdIsRemainder`). A draw is accepted for a number
  exactly when its product with the bound lies in an interval as long as a
  multiple of the bound, and such an interval holds equally many multiples
  wherever it begins (`MultiplesIn`, `AcceptedCount`).
- *Fractions.* `Float32Count` counts an interval of outputs; `Float64Small` is the
  bound that goes with the finding: two halves joined without a shift are below one
  output.

### LocalProxyProofs

`OwnProxy` (`StaysWithItsProxy`) assumes that no two proxies are in use at once
(`~Overlapping`). The invariant: only the global proxy has an open listener,
and a request in progress came through the global proxy, whatever step it is at,
up to the one that waits for the answer of the provider.

`ConnectionHeaders` (`HopByHopStaysHere`) and `OthersForwarded`
(`EndToEndForwarded`) hold whether or not proxies overlap, for messages and answers
of any length. `HeadersInv` says that what goes to the provider is what
`RemoveHopByHopHeaders` made of the message, and what the client gets what it made
of the provider's answer; `RemovedGone` and `RemovedKeeps` say what it does to any
headers, the same in both directions. The rest is about `Del`, by induction
over headers (`HeadersInduction`): no name that it deletes is left, deleting twice
is deleting both sets of names, and deleting names that no header has changes
nothing. `OthersForwarded` assumes that no end-to-end name is among the fixed
names, a fact about two constant sets that the instance satisfies.

### OutputReaderProofs

Assumed: `ReaderAssumption`. Proved: `UnreadFirst` (`UnreadComesNext`) and
`ReadsRight` (`ReadsTheStream`), for any length of a block and any range of
integers. `UnreadInv` says which block the unread bytes belong to, `CallInv` what a
call has done at each stage, `DeliveredInv` that the bytes delivered so far are the
ones before the position, one by one, and `PositionInv` that positions stay in the
range of integers. What is left is arithmetic on quotients and remainders: an
offset in a block and its number determine a position (`DivisionUnique`), and a
sum that leaves the range of integers comes back negative, which is what `Seek`
looks at.

### AppLifecycleProofs

Assumed: `InputAssumption`. Proved: `TypeCorrect`, `NoStartupPanic`
(`StartupNeverPanics`), `LatePanicsOnly` and `ExitCodesCorrect`. The invariant
says what startup has established at each point (`Started`: the role, a valid
configuration, a provider URL, a logger), when the server is up and that it has
gone once the deferred calls run (`Server`), why an exit code was decided
(`Decided`: a server that was `ShutDown` or has `Failed`, or none that ever was),
and when handlers may run (`HandlersLate`).

### Induction

A recursive function says what it is only once it is known that some function
satisfies its recursion. Where a proof needs that (`Del`, the loops of
`findChunkLength`, `Pow2`, the bits of a word, `Subtree`, the folds of a digest, sums
over sets) a lemma builds one by induction over the size, and another derives the
recursion. The
induction is over the members of a set of numbers: a set that contains 0 and with
each number the next contains all, since a counterexample would have a least
member (`LeastNatural`, `Induction`).

### What stays with TLC

Liveness (`DrainsStream`, `CallsReturn`, `MeasuringNeverStalls`,
`AnsweredRequestsEnd`, `EveryCallReturns`, `SignalEndsProcess`): ENABLED and
fairness are beyond the prover. The vectors of `Blake3Compress` (`MatchesVectors`):
each is one computation over given inputs, and the module uses bitwise operators.
Every other invariant and action property of the runs that pass, and every
refinement, is proved.

## 5. Not modelled, and the plan

Not to be modelled: the assembly kernels (taken to do what the portable ones do),
the transposition of chaining values in `hashPure` (a layout), the inside of fiber
and fasthttp (external, represented by what they may do to a body stream, its
connection and its headers), the generation of the Gear table (a parameter of the
rule), the text of log lines, usage messages and errors, the parser of the
configuration file, and `appValues` (names and a version).

Still to come: a longer instance of `BodyMeasurement`, if its liveness can be
checked apart.
