# A verification development for falcon_mdf

falcon_mdf reads and writes ASAM MDF measurement files (`src/`), and comes with
a desktop viewer (`gui/`), a WebAssembly build (`wasm/`) and Python bindings
(`python/`). These TLA+ modules model the parts of it where order, sharing and
boundaries decide correctness. TLC checks them on small instances; TLAPS proves
the most important statements for every value of the constants.
`PROJECT.json` lists every component, every run, the lines of code each
definition stands for, the mutants that show a property can fail, the hazards
the properties are for, and the theorems.

Paths below are relative to the repository's sources.

1. Inventory - 2. Modules - 3. Runs - 4. Where the code and its description
disagree - 5. Proofs - 6. Only model-checked - 7. Not modelled, and the plan

## 1. Inventory

### Reading a file

| part | state | operations | interacts with |
|---|---|---|---|
| byte sources (`src/io/`) | a mapping, a buffer, or a window cache behind a mutex (`io/range.rs`) | `read_bytes` | everything that parses |
| blocks and links (`src/parser/`, `src/blocks/`) | a visited set a walk | `parse_*_block`, `LinkChain::visit` | opening, inspection |
| block cache (`src/cache.rs`) | parsed conversions, sources, texts; statistics | `get_or_parse_cc` and its like | opening |
| data block index (`src/data_index.rs`) | blocks of a data group, cumulative sizes | `push`, `block_for_offset` | opening, reads |
| record index (`Mf4File::index_records`) | position of every record of an unsorted group | one walk at open | reads, decode cache |
| decode cache (`BoundedLru`, `records_for`, `raw_stream_for`, `payloads_for`) | three bounded caches, each behind a read-write lock | get, insert, seeding | every thread that reads |
| chunked reading (`src/stream.rs`) | carry, payload base, segments left | `next` | data block index, sources |
| values (`src/model/`, conversions, formulas) | none | decoding, on two paths | reads |
| channel names (`channels_db.rs`) | an index by name | find, search | every front end |
| inspection (`inspect.rs`) | queue, map of blocks, referrers | `BlockMap::scan` | blocks |
| MDF 3 (`src/mdf3/`) | structure, a cache of decoded groups | open, read | |
| bus logging (`bus.rs`, `lin.rs`, `eth.rs`, `flexray.rs`, `candb.rs`, databases) | one accumulator a call | frames, `decode_each` | values |

What is hard. Records of several channel groups interleave in one stream that is
cut into blocks without regard to them; records hold offsets into a second stream
of payloads, counted over the whole of it; the same stream is demultiplexed by two
pieces of code (the walk at open and the chunks), which have to agree at every
boundary. Declared sizes and counts may be wrong, and links may name anything, so
that chains run in circles. Reads come from several threads, and neither cache
holds its lock while it fetches or decodes. Most samples are decoded by a strided
path and some by a general one, and nobody sees which.

What makes it correct. Every record handed out is one of the group asked for,
once, in file order, whichever way it is read; a declared size or count is never
trusted over the data; a cycle ends and is told of; caches change how long a read
takes, and nothing else.

### Writing and operating on files

| part | state | operations |
|---|---|---|
| writer (`write.rs`) | groups and channels to be written | import, add, edit, remove, write: one pass for the offsets, one for the blocks |
| time operations (`time_ops.rs`) | none | cut, resample, combine |
| several files (`multi_ops.rs`) | none | concatenate, stack, resample |
| export (`export/`) | none | CSV and other formats |

All are sequential. Their correctness is about boundaries: where a link points
after any sequence of edits, which sample a raster time takes, what becomes of
validity, whether a leaving out is reported.

### The viewer and the web page

| part | state | operations | interacts with |
|---|---|---|---|
| batch (`gui/src/batch.rs`, `panels/batch.rs`) | worker thread, channel, cancel flag, outcomes | `spawn`, `run_all`, `poll`, `cancel` | file system, egui |
| loading and jobs (`loader.rs`, `signal_loader.rs`, `job.rs`) | one thread and one channel each | `spawn_*`, `poll` | application, panels |
| application (`app.rs`, `session.rs`) | two files, selections, what is plotted, sessions | open, compare, close, select, restore | all of these |
| plot panel (`panels/plot.rs`, `computed.rs`) | definitions, operands being decoded, results | every frame | loaders, application |
| measuring and thinning (`decimate.rs`, `panels/stats.rs`, `xy.rs`, `time_view.rs`, ...) | none to speak of | per frame | |
| web reader (`wasm/src/lib.rs`) | cached series, computed channels, databases | one call of the page at a time | reading, values |

What is hard: a worker may fail, panic, or be cancelled at any moment; egui draws
a frame only when asked; results arrive after the state that asked for them has
been replaced; what is kept is keyed by a place in a file or a list, and places are
used again.

## 2. Modules

### Opening and reading

| module | models | code |
|---|---|---|
| `RecordFormat` | blocks, channel groups, how records lie in bytes, interleaved invalidation bytes | `data_index.rs`, `file.rs` (`read_block_payload`), `model/mod.rs` |
| `RecordIndex` | opening a data group, and the reads that use its index | `file.rs` (`parse_data_groups`, `index_records`, `gather_records`) |
| `SampleStream` | abstract: chunks cover the samples of `signal()`, in order | doc of `SignalChunks` |
| `SignalChunks` | reading a channel window by window; extends `RecordIndex`, whose index gives the samples to be covered | `stream.rs`, `model/vlsd.rs` |
| `ByteSource` | abstract: a read returns the bytes asked for, or an error | `io/mod.rs` |
| `RangeSource` | the window cache, with concurrent readers; implements `ByteSource` | `io/range.rs` |
| `BoundedLru` | a cache as a value: lookup, insertion, eviction | `file.rs` |
| `DecodeCache` | opening seeds, and readers use, two levels of `BoundedLru` | `file.rs` |
| `BlockGraph` | blocks that name each other by offset | `blocks/`, `parser/links.rs` |
| `OpenFile` | every chain `open` follows, compositions and conversions included, as a stack of walks; reading a range of the records | `file.rs`, `data_index.rs` |
| `BlockMap` | the breadth-first scan of a file's blocks, referrers and gaps | `inspect.rs` |
| `BlockLayouts` | which fields and links each parser, summary and writer reads or puts where, in both versions of the format | `blocks/`, `inspect.rs`, `write.rs`, `mdf3/blocks.rs` |
| `NameSearch` | the index of names and the scan in its place, three wildcard matchers, regular expressions | `channels_db.rs`, `gui/src/search.rs`, `wasm/src/lib.rs` |

### From bytes to values

| module | models | code |
|---|---|---|
| `BitFields` | numbers in a buffer, by bit offset, width and byte order | `parser/binary.rs` |
| `SignalValues` | samples of a channel on the general and on the strided path | `model/` |
| `Conversions` | tables, ranges, texts, quotients and formulas, v4 and v3 | `blocks/conversion.rs`, `blocks/formula.rs`, `mdf3/conversions.rs` |
| `Mdf3File` | the version 3 reader with its cache | `mdf3/` |
| `BusDecode` | frames of CAN, LIN, Ethernet and FlexRay groups, J1939 matching, multiplexing, labels, the series made of them | `bus.rs`, `lin.rs`, `eth.rs`, `flexray.rs`, `candb.rs`, `dbc.rs` |

### Series, writing, front ends

| module | models | code |
|---|---|---|
| `MultiOps` | cut, resample, combine; concatenate, stack | `time_ops.rs`, `multi_ops.rs` |
| `Decimation` | the four pieces of code that thin a curve | `view.rs`, `gui/src/decimate.rs`, `wasm/src/lib.rs` |
| `Expressions` | formulas of computed channels, parsed and evaluated by the viewer and by the web binding | `gui/src/computed.rs`, `wasm/src/lib.rs` |
| `Measurements` | cursors, regions, percentiles, X-Y curves, the window of time, the clock | `gui/src/panels/`, `percentile.rs`, `xy.rs`, `time_view.rs` |
| `WebAnswers` | pages, nearest samples, windows and tracks the page asks for | `wasm/src/lib.rs` |
| `WrittenFile`, `Writer` | layout and emission; the writer's calls before them | `write.rs` |
| `BatchRun` | worker, channel and panel of a batch | `gui/src/batch.rs`, `panels/batch.rs` |
| `Viewer` | the window: two files, loaders, sessions, panels' slots | `gui/src/app.rs`, `session.rs` |
| `PlotPanel` | computed channels while their operands are being decoded | `panels/plot.rs`, `computed.rs` |
| `WebFile` | the page's file: cached series, definitions, databases, listings | `wasm/src/lib.rs` |

`MC...` modules give the constants of the runs. `RecordIndexProofs`,
`SignalChunksProofs`, `RangeSourceProofs`, `DecodeCacheProofs`, `OpenFileProofs`,
`BlockMapProofs` and `FrontEndProofs` (`BatchRun`, `PlotPanel`, `Viewer`, `WebFile`) hold
the theorems; `InductionFacts` what they share about numbers, functions defined by
recursion and what can be reached from a set.

### How state and actions correspond to code

* **RecordIndex.** `dg` is the parsed data group, `offsets` the `RecordIndex`
  under construction, `counts` each `sample_count`, `stream`/`base`/`pos` the
  locals of the walk. One action a step of the code: `ListBlock` is a `push`,
  `SizeSorted` and `NoBlocks` are the early returns, `ReadBlock` and
  `ReadBlockFails` are `append_block_payload`, `IndexRecord` is one turn of the
  inner loop, `EndBlock` each of its `break`s, `FinishWalk` the counts at the end.
  Whether a block is deflated changes how it is windowed, not its bytes.
* **SignalChunks.** `SortedWindow` and `UnsortedWindow` are the two arms of
  `next`, `WindowFails` its error return, `EndChunks` its `None`. `delivered` is what
  the chunks have held. A sample is a record with, for a variable-length channel,
  the payload at its offset.
* **RangeSource.** Each reader walks `Ask`, `Hit`/`Miss`, `Fetch`/`FetchFails`,
  `Store`, `Finish`. One action is one critical section or one fetch, so every
  interleaving the mutex allows is a behaviour. `Room` is the eviction loop with
  its `swap_remove`, which reorders the entries. `lastUse` is history: when each
  window was last used, for `KeepsTheMostRecent` only.
* **DecodeCache.** A hit is two actions, `Hit` (`fetch_add` on the clock) and
  `Stamp` (the store), because both are atomics under a *read* lock. Values are
  named by the group they belong to, their contents being RecordIndex's subject.
* **OpenFile.** The recursion of `parse_channels` and its like is a stack of walks,
  each at a link of the chain it follows and with the offsets it has seen. A channel
  is the path of CN blocks that leads to it.
* **Writer.** `groups` is what `Mf4Writer` holds; the calls of `Mf4Writer`,
  `WriteGroup` and `WriteChannel` are the actions; `write` takes the layout pass and
  the emitting pass of `WrittenFile`. A number of a sample is a name for it, a text
  its length.
* **Viewer.** One frame is `PollLoad`, `RestoreSecond`, one `UserInput`, `Draw`; the
  threads' ends (`LoaderEnds`) and `Restart` come between. A channel is a slot and a
  place; what is shown carries the path it was read from.
* **BatchRun.** Worker: `StartFile`, `FileFails`, `CreateOutput`, `WriteOutput`,
  `WriteFails`, `Report`, `EndOfQueue`, `Exit`, `Panic`; `Send` and
  `RequestRepaint` are separate steps. Panel: `WokenFrame`/`IdleFrame` begin the
  poll that `Receive`, `NothingYet` and `Disconnected` carry out; `Cancel`.
* **PlotPanel.** `Show` is a frame of the panel: take what the threads have sent,
  start the missing decodes, evaluate, draw. `definitions` and `results` are lists
  edited between frames; a value stands for the samples it was made of. The panel knows
  the file its decodes are of by an address (`computed_file_id`), and `ScopeChanges` puts
  a second file that is opened at any address that is free: not the first file's, nor one
  whose file a thread still decodes, but perhaps that of the file just closed. `served` is
  a history of the files that address has stood for.
* **WebFile.** One action a call of the page. A series is named by what it was
  decoded from, so that a stale or foreign one is another value. `fetch_series` and
  `decode_computed` call each other; here `Fetched` gives what every name answers with
  at most `n` computed channels one beneath another. With more than are defined one is
  beneath itself, which is where the code's recursion has no end (`Traps`).
* The modules of pure code (`SignalValues`, `Conversions`,
  `Decimation`, `BlockLayouts` and so on) are operators; the runs enumerate inputs and
  compare each with a second definition of what it is to compute.

## 3. Runs

| run | shows | bounds |
|---|---|---|
| `record_index` | opening indexes the right records, for every content of the blocks, seeds the stream, counts what is delivered, and ends | blocks of up to 6 bytes of 3 values, IDs of 1 to 3 bytes |
| `chunks` | reading in windows implements `SampleStream`; no record resolves to another's payload; the caller comes to an end | `Budget` 2: a record spans up to three windows |
| `range_source` | the cache implements `ByteSource`, liveness included; evicts by last use | 7 bytes, windows of 3, 2 kept, 2 readers, 2 reads each |
| `decode_cache` | readers get their own records, both bounds hold, evictions are by last use, reads end | 2 entries, 5 bytes, 2 readers, 2 reads each |
| `opening` | opening ends, gives the channels of the tree, tells of cycles; ranges are slices; the map is the graph | five families of files with up to 18 units of addresses and two files whose header is none, compositions and conversions two deep (the code: 32 and 4), a map of up to 9 blocks |
| `decode` | samples, conversions, formulas, blocks, bus readings, version 3 reads; what the writer writes links to where it was laid out and reads back whole; imports report what they leave out | bytes of 3 bits, words of 4 bytes, chains of 3; 4 calls on a writer, three codecs, 2 flags a byte |
| `series` | files joined keep their samples; derived series at their times; thinning, formulas, answers, searches and panels against references; a computed channel of the plot panel is its formula over the file at the active address | series of a few samples, one derived series a behaviour; 2 definitions, 2 formulas, 2 second files, 3 addresses |
| `front_ends` | window, batch and web page, one at a time: see below | one place of a channel in two files, one stored session, 2 files opened, queues of up to 3 |
| `chunks_linked_data`, `viewer_stale_slot`, `plot_address`, `block_summary` | the code breaks what its own text says, section 4 | |

`front_ends` asks of the window that nothing shown, plotted or stored refers to a
file that is not there, that no channel comes back twice, and that every load is
answered; of the batch that a finished run has a true outcome for every file and
that the panel comes to know of the end; of the page's file that the decodes kept
are the last used that fit and that no definition changes what another name
answers. Of the plot panel `series` asks that every operand, result and error is of a
file the active address has stood for, which is the active file alone until a second
file is put where a closed one lay; `plot_address` shows that then it is not.

**Bounds.** In `record_index` an alphabet of three bytes and two blocks of up to
three bytes or one of up to six let every way occur for a record to be whole, cut in
its ID, before its length prefix or in its data, unknown, empty or overlong, also at
a second block, which is where the base matters. The length prefix is one byte wide
(four in the code), so it is whole or missing, never cut; the proofs cover a width
of two as well, where it can be. The range source's file has a short last window and
a read that spans more windows than are kept; two readers are enough for a window to
be fetched twice, and for one to evict another's. The decode cache's files evict by
number, by bytes, hold entries larger than the budget, and seed more than one
budget. The opening run's families each aim at one walk: chains that run in
circles, compositions that contain themselves, arrays, lists of data blocks, and
referrers; in two files more another block or nothing is where the header should be.
For the plot panel (in `series`) one formula has one operand and one has two; of the three files one has
an array where the others have a channel, one a channel that says it cannot be read, and
one lacks a name, so that every error occurs, and each file has another's channel at a
place. Of three addresses the first file has one; the others, which are alike
(`FreeAlike`, a symmetry), let the next second file lie where the last did or not.
No two definitions are alike there, one that is no expression yet is not hidden, and
clocks are aligned and threads die with one definition only (`Few` in `MCSeries`). The writer (in
`decode`) is not called while a file just written is looked at, since every call forgets
it (`Writing` in `MCDecode`); one imported group is small enough to be edited twice.
`MaxReads`, `MaxCalls`, `MaxOpens`, `MaxHistory`, `MaxPlotted`,
`MaxDefinitions` and `SelectsAnew` (in `MCFrontEnds`: channels are walked through only
until a session is in the store) are bounds in guards as well; nothing else is.

**Deadlock** is not checked where the system really stops: a file that is open, an
iterator at its end, readers with no read left, a batch that is over, a window no
longer looked at. Progress is then a property of its own (`WalkEnds`, `ChunksEnd`,
`ReadsAsPromised`, `EveryReadEnds`, `ReadingEnds`, `LoadsLand`, `RunEnds`).

**Fairness.** `index_records` and the walks of an open are one call, so their next
step is weakly fair; the caller of an iterator is assumed to pull while there is
something to pull, and nothing else. Threads are scheduled: each reader's next step
is weakly fair, but no reader is obliged to begin a read. In `Viewer` the frames go
on (egui repaints while a load is pending) and the loader threads end; the user need
do nothing. In `BatchRun` the worker's step, the panel's poll and a frame that has
been *requested* are fair. A frame nobody requested is not, with one exception: a
worker that panics requests none, so for a dead worker the user is assumed to bring a
frame about. Without that assumption a panel nobody touches does not notice the
death, and `RunEnds` fails.

## 4. Where the code and its description disagree

Four are runs whose property TLC finds violated:

* `chunks_linked_data`: `stream.rs` sizes a block's windows by its data section
  alone; with a companion invalidation section the payload is longer, and the end
  of every such block is missing from the chunks.
* `viewer_stale_slot`: the second file closed from another tab leaves its signals in
  the plot panel, which takes them for those of the next file opened in its place.
* `plot_address`: the panel takes a file for the one its decodes are of when it lies at
  the same address (`Arc::as_ptr`, `plot.rs:1193`), "so a different loaded file ... clears
  it before anything is looked up" (1189). `close_second` frees the second file, and no
  frame of the plot panel need come before another is opened (with the second file
  active, the tab goes to Details). Put at the address that was freed, the next file
  passes for the closed one: formulas show the closed file's samples, also for channels
  the new one says it cannot read. Whether it comes to this is up to the allocator;
  nothing in the code prevents it.
* `block_summary`: the block map's line about an attachment, a channel group and some
  enumerations reads other bytes, or names them by another numbering, than the
  readers of those blocks.

The rest was met while modelling. The models follow the code in each of these; where
a property would fail for one, the inputs of its run leave the case out, and the MC
module says so.

**Chunked reading.** A payload that runs past its block counts for the index and not
for the chunks (`stream.rs:178`), so that later records get another payload than
`signal()` finds. A chunk knows the payloads of its own window (`stream.rs:327`); a
record cut off from its payload becomes empty. After an unknown record ID what
`Demux::collect` carries on is no record cut in half.

**Caches.** Streams kept while opening may come to nearly two budgets
(`file.rs:810`), where the comment at 748 says one. Two overlapping hits on one entry
may leave the earlier stamp. A group with no data block keeps its declared cycle
count.

**Opening and inspection.** An array nested in an array that cannot be read leaves the
outer one unmarked (`file.rs:1544`; `model/mod.rs:384` says otherwise). Of two
attachments named by a channel the second is taken for the default X axis. Blocks with
a fixed number of links do not check the number they declare.

**Writer.** Arrays without a shape are taken and written (`write.rs:274`, `321`;
`396`). A record ID is `as u8`, so more than 255 groups in one data group share
numbers. `write_to_file` truncates before a write it then refuses.

**Time operations.** The masks of two operands are joined where the doc says both must
be valid (`time_ops.rs:598`, line 108); aligning series that do not overlap leaves a
mask longer than the samples; of equal time stamps the value of the first meets the
flag of the last; resampling a batch fails on one empty channel.

**Decoding.** `signal.rs:823` calls some samples undecodable that others of the same
field are. A field that spills past `byte_size` reads as nought. `value_at`, `iter`,
`min_max` and `mean` skip checks that `values` makes. A table from numbers to text on a
text channel, a nested unsupported conversion and a text table in a text table give no
number. The nearest key of a value that is not a number is the first; a shared boundary
of two ranges goes to the default in version 3; a quotient with all parameters nought
is the identity there.

**Bus logging.** Frames of several groups are concatenated group by group, so that time
stamps do not ascend. The raw values of a message are kept by signal name: two signals
of one name share one. Optional columns are not checked for their length, though "frame
fields must agree sample for sample" (`bus.rs:346`).

**Viewer.** `x.mf4` overwrites `x.cut.mf4`, which the batch has already processed
(`batch.rs:142`, against 135); a failing write leaves the half-written output
(`batch.rs:298`, against `tests/batch_continues_past_failure.rs:83`); a batch whose
worker died looks finished, with no failure among its outcomes. The history of
selections survives the opening of another file. A session under way may meet another
second file than it names; a pair remembered while its second file is still opening is
lost. In the plot panel the segments drawn of a computed channel and the statistics of a
region outlive an edit of its expression or a change of file by a frame or more
(`plot.rs:1193`, `1449`); an operand that cannot be read leaves its definition waiting
for ever (`plot.rs:808`, against the comment at 805); colours and widths pass to the
next definition when one is deleted; the bounds behind the hints above the plot are kept
by the address and length of the values (`plot.rs:1705`), which a result evaluated anew
may have again. The depth of an expression counts parentheses and
signs only.

**Thinning.** `decimate_run` compares a total with what is left (`wasm/src/lib.rs:773`,
560), so that runs after a gap may be dropped, against its comment at 672. Fewer than
four points may drop the last sample of a window; runs at one instant ignore the cap. A
sample that is not a number at the start of a column loses the column's extremes in the
viewer.

**Web reader.** A series may be stale after a database is attached again or a channel
defined again (`lib.rs:2859`, `2993`); a computed channel without references panics
(`2895`); definitions in a circle, which removing and defining again can make, overflow
the stack; names of the file, of a database and of definitions shadow each other in
different orders (`2937`), and listings disagree in theirs (`2306`). The flags of
samples are ignored for arrays; `start + count` of a page is not saturating; the suffix
of a signal on two buses is " (bus N)" where the doc has "@<bus>" (`2912`); the cache
is by use and keeps ten where the comment says "plain FIFO" and eight (`1318`); the
wildcard matcher compares literally before it looks at a star (`246`).

## 5. Proofs

Every theorem holds for all values of the constants that the named assumptions allow
(types of the constants, positive bounds). No theorem has a hypothesis of its own
beyond the specification, but for the two on `SignalChunks`.

**`RecordIndexProofs`**: `IndexTypeCorrect`, `IndexSound` (every indexed offset is at an
ID of its own group), `IndexSeparates` (records do not overlap), `IndexAscends`,
`IndexInLockStep`, `CountsDelivered` (the count of a group is what a read of it
delivers), `IndexSeedsTheWholeStream`. The inductive invariant is `IndexInv`. None of
its conjuncts is inductive alone: that a record is at its own ID is read off the
block's payload while the property speaks of the stream, so `BaseInLockStep` has to say
that the payload is the stream's end; that the next record overlaps none before it
needs `RecordsBehind`, every indexed record ends before the walk's position; and that
`RecordsBehind` survives the end of a block needs the position to be within it, which
`PhaseOK` and the measure of a record supply. What a later append leaves of an earlier
field is a lemma on `Field` and concatenation. `SeedInv` adds which blocks the stream is
the concatenation of at each point of the walk.

**`SignalChunksProofs`**: `ChunksCover`, the chunks implement `SampleStream`, for every
budget, content of the blocks, record IDs and sizes. Its hypothesis is
`SelfContained(dg)`, the case `chunks` is run for: no block has an invalidation section
of its own, and in an interleaved group no record of a block's walk runs past the block
(section 4 has what happens otherwise). The index was built by a walk over each block
as a whole, the chunks come from walks over windows of it, and neither knows of the
other. What ties them is the *trail* of a block: `TrailInv`, an invariant of opening,
says that the places where the first walk was are closed under "what follows a
measurable record" and that each place of a group with fixed-length records is in its
index. `CoverInv` then says where the iterator is (`OnTheTrail`): the bytes carried over
are those of the stream from a place on the trail to the window, and the records handed
out are all those indexed before that place. A walk over a window takes a record only
if the whole of it is in hand, and then it is the record the first walk measured there
(`Gathers`), because IDs and lengths read from a slice are those read from the block. At
the end of a block what is carried is dropped, and rightly: no place of the trail is left
in it. Sorted groups are simpler (`InStride`: what is carried is less than a record, and
the stream before it is a number of whole ones).

`PayloadsAreNeverAnothers`: a sample handed out has the value `signal()` gives it or an
empty one. `PayloadsInv` says that the payloads the windows so far have met are the
first k of those `signal()` numbers, and that `payload_base` is where it numbers the
next. The walk along the trail gives the first half (`Ships`: it takes a payload only
when all of it is in hand, so the payloads are whole and among those `from_records`
keeps). The numbers follow by induction (`SameNumbers`), they ascend because a length
prefix has bytes (`TableAscends`), so no two payloads have one number, and a table
that is part of the other finds the same payload or none (`ResolvesAlike`). Its second
hypothesis, `PayloadsNamed(dg)`, says that a group of payloads is the one its record ID
finds. It is needed: of two payload groups with one record ID the index knows only the
last (`record_map`, `file.rs:798`), so `signal()` on a channel with the first has empty
values, where the chunks, which compare IDs, find payloads.

**`RangeSourceProofs`**, for every number of readers, file, window size and number of
windows kept: `RangeTypeCorrect`, `RangeOneCopy`, `RangeWindowsMatch`,
`RangeStampsDistinct`, `RangeBeginsInFile`, `RangeAssembles`, `RangeReadsAreExact` (the
safety part of the refinement of `ByteSource`) and `RangeKeepsTheMostRecent`. The
inductive invariant `RangeInv` adds to these what a reader in the middle of a read
holds: its window is the file's, the window it asks for follows what it has assembled,
and each stamp is below the clock. It is the step from "the window I hold is right" to
"what I have assembled is a prefix" that concurrent eviction could break, and it does
not because a reader keeps its own copy. `RecencyInv` ties stamps to the history of
uses: the stamp of a cached window is the time of its last use, so that the least stamp,
which is what the eviction loop finds, is the least recent use.

**`OpenFileProofs`**, for every file whose header, groups and channels have the links
the parsers read of them (`OpenFileAssumption`), whatever these point at:
`RangesOfEveryFile`, `ChannelsOfEveryFile` and `CyclesOfEveryFile`.

A range of bytes read through the index is that slice of the blocks one behind the
other. Of the index it is enough to know that its entries have a size (`IndexInv`). The
search among cumulative sizes finds the last block that starts at or before an offset
(`BlockIsFound`), which passes over blocks of no bytes; what is taken of it is a part of
the whole (`PartIs`), and the parts meet (`PartsJoin`, `ReadingIs`).

The channels of an opened file are the paths of its tree, and a file is refused for a
cycle only if it has one or nests too deep, and opened only if neither holds: all of it
comes from one invariant (`InvOf`) of the stack of walks in progress. A walk has come along its chain and what it
has seen is what it has come past (`OnChain`); an inner walk is beneath a block the outer
ones have passed (`Stacked`); the last channel taken up is beneath every walk through
members (`Current`), and no channel is one that a walk has still to come to (`Once`).
That nothing is listed twice, out of the tree or before what it is a member of
(`Listed`) follows step by step from these; that nothing is missing is `AllCovered`: every path of the tree has been
taken up and what it leads to is being followed, or is ahead of some walk. None is
inductive alone: taking up a channel starts the walk of its composition, and that its
paths are then ahead of a walk needs `OnChain` for the new one and `Stacked` for those
beneath. Cycles use the same cover: each chain a path leads to is free of cycles or
being followed (`Handled`), and a walk that ends has been along the whole of its chain,
which is the least set closed under `next`.

**`BlockMapProofs`**: `MapOfEveryFile`. A map that was not cut short has exactly the blocks
that can be reached from the header, each with exactly the other blocks that refer to it, once; one cut short has only such
blocks; and the gaps are the bytes none covers, whatever the links of the file are. `WalkInv` is that
every link of a block found waits in the queue or has been told of at its target, so an
empty queue leaves a set closed under links; what is reachable is the least such set. The
gaps come from a sweep over the blocks in order of offset, whose invariant (`SweptIs`)
says that what lies below the place reached is either covered or a gap told.

**`DecodeCacheProofs`**: `CacheAnswersAreOwn`, `CacheKeepsTheRecentInBounds`,
`CacheKeepsWhatIsStored`, from `CacheInv`: stamps are apart and below the clock, an entry
per key with that key's value, both bounds kept or the one entry left, what opening
seeded below two budgets. The hard part is a hit, which is two steps with other threads
in between: `Pending` says that a stamp a reader has taken and not yet stored is its own
and that its entry, evicted meanwhile or not, takes nobody else's place in the order of
use.

**`FrontEndProofs`, the batch**: `BatchTellsTheTruth`, `BatchTellsInOrder`, from `BatchInv`: the
messages in the channel are the next of one fixed sequence, the panel has the outcomes
of those it received, the worker's place in the queue says how many have been sent, and
the output of each success is complete unless a later file has the same.

**`FrontEndProofs`, the plot panel**: `PlotComputesTheActiveFile`, from `PlotInv`: every
decode under way or landed is of a file that the address the panel has noted stood for,
and told its end truly of that file; every result kept is justified by the definition it
is kept under and by those files. Files at one address are not told apart, neither by
the code nor by the invariant; what is proved is that nothing of a file at *another*
address is ever used, that the first file, which is never closed under the panel, shares
its address with none, and that points are drawn of the active file as long as only one
has been served. `PlotClearsUnlessAddressesRecur` is the promise of `plot.rs:1189` for
the frames it is true of: those over the first file, and those over a second file at
whose address the panel has served no other. `plot_address` is the run of the rest.

**`FrontEndProofs`, the window**: `WindowPointsAtOpenFiles` and `WindowRestoresWhole`, from `ViewerInv`.
The two properties need each other: no channel of the second file is plotted while it
is loading because everything plotted is of an open file, and a session put back plots
no channel twice because none of its file's were plotted. What neither says and both
need is `NothingBeforeTheFirst` (until a first file has landed there is no second one,
nothing plotted, no session under way: `restore_session` appends to a list that is
empty) and `PendingWaits` (a session waits only for a second file that is loading or
has landed in this very frame: `restore_second_session` appends to a list without
channels of that file). The assumption on `Stored` is that earlier runs of the same
program stored it.

**`FrontEndProofs`, the web page**: `WebFileIsTrue`, for any file, databases, formulas,
sizes of series and bounds of the cache. That what is kept is the end of the names in
order of their last use is an induction over calls with two sides to it: a hit takes a
name out of both lists and puts it behind both, and then nothing else has to go
(`HitKeeps`: the bytes are those that fitted before), a miss drops the fewest of the
oldest that make room (`MissKeeps`). What was just beyond the kept ones and did not fit
must still not fit, or the cache would hold less than it could (`StillDoesNotFit`). The
bound of the history, the last `SERIES_CACHE_CAP` names, is enough because no more than
that are ever kept. That a definition changes no other answer (`GivesTheSame`) and
leaves none missing (`KnownGives`) goes by induction over how deep computed channels
lie beneath another; `SoundDefinitions` supplies what it needs: each name is new and
refers to the file's channels and to definitions before it. So until something is
removed or attached nothing lies beneath itself, and a formula with references always
has an end (`EveryNameGives`). The invariant is `WebInv`.

**`InductionFacts`**. The provers do not take an induction theorem with an operator as
its parameter. A set of numbers is a value, though: `NumberInduction` says that a set of
natural numbers with nought and with every successor is all of them, from
`LeastNumber`, that a set of natural numbers with a member has a least one.
`Iteration`, `Recursion` and `RecursionUpward` give from it that functions defined by
recursion exist, downwards and upwards, which is what a `LET` with a recursive function
needs before anything can be said of it: sums of sizes (`DecodeCache`), the
concatenation of payloads (`RecordIndex`), the walk over a window and the numbers of
payloads (`SignalChunks`), what `Vec::retain` leaves (`Viewer`, `WebFile`). `UpToInduction` is
the same up to a bound, for functions on `0..n` (`BlockMap`, `OpenFile`, `WebFile`). The `Reach` lemmas
are on sets grown step by step within a finite one: as many steps as it has members are
enough, the result is closed, and it is the least closed set. Reachable blocks and
chains are defined so, without `RECURSIVE`.

## 6. Only model-checked

* Every liveness property: `WalkEnds`, `ChunksEnd`, the liveness part of
  `ReadsAsPromised`, `EveryReadEnds`, `ReadingEnds`, `LoadsLand`, `RunEnds`. Liveness
  under fairness, and `ENABLED`, stay with TLC.
* What the modules with `RECURSIVE` operators compute, which the prover cannot reason
  about: `Conversions`, `Mdf3File`, `BusDecode`, `Expressions`, `NameSearch`,
  `MultiOps`, `WebAnswers`, `WrittenFile` and all that extend them (the properties of
  the runs `series` and `decode`). They are checked against references over bounded
  inputs.
* `SamplesAreTheirFields`, `PhysicalIsByItsRule`, `BlocksReadAsLaidOut`: comparisons
  over enumerated inputs, with the recursion in their MC module.

## 7. Not modelled, and the plan

Drawing, wording and the layout of panels, exports and bindings are left out: they keep
no state across calls and have no order of steps. Floating-point arithmetic is exact
fractions or bits. The byte-level layout of deflate and of AES is left to the
libraries; the text of DBC, LDF and ARXML databases, dates and VAX numbers are not
parsed. The block cache (`cache.rs`) is left out because a block parsed once or twice
is the same value.

Next:

1. The branch of `SignalChunks` for payloads in an SD block, what the samples after a
   failing window are, and a module for `SignalsChunks`, which shares the segments but
   keeps every payload seen (`stream.rs:911`), so that its memory is the whole stream's.
2. The third cache, `payload_cache`, as a third level of `DecodeCache`.
3. Proofs: `LinksLand`, along the positions the writer hands out, once the layout in
   `WrittenFile` is written with functions.
