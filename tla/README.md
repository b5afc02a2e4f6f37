# flokbn: TLA+ models, checks and proofs

flokbn reads web-server requests (a log file, or a live Filebeat stream), counts
them per IPv4 address in a binary trie, finds the ranges that are too heavy, and
keeps a *jail* of banned ranges whose ban grows with every new offence. It
publishes the active bans in a *ban file* that a firewall reads. This directory
models the parts of the program where that chain can go wrong, checks them with
TLC on small instances, and proves the central facts with TLAPS for every value
of the constants. Paths below are relative to `src/flokbn/src/`.

## 1. The system

| component | state it keeps | operations | what is hard | what makes it correct |
| --- | --- | --- | --- | --- |
| ingestor (`ingestor/ingestor.go`) | server channel, events channel, closed flag | Accept (a goroutine that moves and ACKs batches), ReadBatch, IsClosed, Close | three concurrent parties, full channels, closing at any moment, batches sent again | nothing is lost, doubled or reordered on the way; an ACK is never early; closing ends the loop |
| sliding window (`sliding/`) | queue of requests, trie, statistics per address, allocator | Update = InsertNew, DropOld with two eviction loops, rebuildTrie | the same requests held three times by different code; indices into a queue that is cut last; memory of dead nodes | trie and statistics are the queue, counted; size and memory bounded |
| trie and clustering (`trie/`) | counts of the prefixes | InsertUint32, DeleteUint32, BuildSorted, CountInRange, CollectCIDRs | pruning shared paths, deferred counts, a root without a count, thresholds by depth | exact counts; disjoint, heavy ranges; none missed |
| range algebra, whitelists (`cidr/`) | none | MergeIPNets, DropFullyWhitelisted, RemoveWhitelisted, ComposeBanLists | unsigned arithmetic at both ends of the address space, overlap and nesting in any order | no address lost or taken in; whitelists always win |
| jail (`jail/jail.go`) | cells of prisoners, AllCIDRs | Update (UpdateBanActiveStatus, Fill), Prune, ListActiveBans | long sequences of detections, expiries and absorptions; AllCIDRs duplicates the cells; flags refreshed in one place only | no two related residents; escalation is remembered; a running ban goes on as it is until its range is absorbed, and then one definite ban takes over |
| file writes (`jail/io.go`) | files | writeFileAtomic under JailToFile and WriteBanFile | two processes, deaths between system calls, power loss | readers find a whole content; a save reports what it did |
| live loop (`cli/api.go`, `cli/live_stats.go`) | jail, User-Agent IP sets, change-detection key, snapshot | iteration, idle heartbeat, start, shutdown | partial failures, restarts from the jail file, state that outlives an iteration, idle time | whitelist respected, bans published, held and lifted, served copy true to the disk |
| static analysis, tries (`analysis/static.go`, `analysis/filter.go`) | results under a mutex | Static, StaticWithRequestsCtx: four ways to a trie's requests, filter workers, trie workers, merge | bounded channels between goroutines that wait for each other; the same filter written three times in different orders | every path counts alike; the jail phase sees all tries; the analysis ends |
| static analysis, jail phase (`analysis/static.go`) | none between runs but the files | ProcessJailWithWhitelist | a run builds on what others left; failures and quits between two writes | as for the live loop, from run to run |
| log parser, reading (`logparser/parser.go`) | first error | ParseFile, ParseFileIPs: one scanner, or chunk readers; parser workers, collector | chunk boundaries, lines longer than what is read past them, a read that fails among many | each line parsed exactly once; errors surface |
| log parser, format (`logparser/parser.go`, `ingestor/ingestor.go` parseEvent) | none | compileFormat, a walk for all fields, a walk for the address alone, the live parser's own way | three walks written apart; escaped quotes and backslashes; fields that hold delimiters | what a server logs is recovered; the walks agree |
| regex prefilter (`config/regexprefilter/`) | none | Build, MightMatch, the gate in `config.go` | literals under repetition, alternation, optional parts and case folding; a screen that replaces the expression | the gate decides as the expression would |
| configuration (`config/`, `cli/barrier.go`) | diagnostics | load, default, validate, barrier | order of checks and side effects | nothing is bound or written while a diagnostic is pending |
| TUI (`tui/`) | page, current trie and its output, panels, heatmap view with its caches, trie cache, queue of closures | keys, closures queued by six kinds of goroutines, trie switch with and without the cache, two precaching goroutines | closures of two goroutines in any order, a view made twice, a cache filled for tries that are not shown | all panels show one trie; no heatmap under another's key; a switch ends |
| top talkers, locked trie, pools, output, generators | small or none | | | not modelled, see `PROJECT.json` |

How they interact:

- *Live*: shippers → ingestor → loop. An iteration drains the ingestor, updates
  every window, clusters each window's trie with each argument set, merges what
  was found (MergeIPNets), drops what a whitelist entry covers, updates, prunes and
  saves the jail, composes the ban lists, writes the ban file and publishes a
  snapshot for the HTTP stats server by one atomic pointer. Without traffic a
  heartbeat refreshes flags, prunes, saves if something changed, and writes the
  ban file if the composed lists changed.
- *Static*: parser → filter → tries in parallel → merge → jail phase (load,
  update, save, compose, write), from the command line or from the TUI, which can
  cancel through a context.
- The jail file is the only memory across restarts; jail and ban file are only
  written through `writeFileAtomic`.

The hazards, each at its line and with the properties that watch it, are listed
in `PROJECT.json`.

## 2. The modules

| module | models | built on |
| --- | --- | --- |
| `Slices` | loops that filter a slice | |
| `Jail` | `jail/jail.go` | `Slices` |
| `Whitelists` | whitelists as sets of addresses | `Slices` |
| `AddressWidth` | the width of an address | |
| `CIDRAlgebra` | `cidr/cidr.go` and the heatmap's interval test on W-bit integers | `AddressWidth`; shown to do what `Whitelists` says of address sets |
| `Prefilter` | `config/regexprefilter/`, the gate of `config.go` | |
| `LogFields` | formats and fields: `logparser/parser.go`, `parseEvent` | |
| `MCAlgorithms` | the calls of the three above, composed for one run | `CIDRAlgebra`, `Prefilter`, `LogFields` |
| `LiveLoop` | `runLiveLoop`, `runHeartbeat`, snapshots | `Jail` (INSTANCE), `Whitelists` |
| `StaticJail` | the jail phase of static runs | `Jail` (INSTANCE), `Whitelists` |
| `FileRegister` | what callers take a file for: an atomic register | |
| `AtomicFile` | `writeFileAtomic`, call by call | refines `FileRegister` |
| `Trie` | `trie/trie.go`, pure operators | `AddressWidth` |
| `SlidingWindow` | `sliding/sliding_window.go` | `Trie`, `Slices` |
| `Ingestor` | `ingestor/ingestor.go` with its producers and its consumer | |
| `LogLines` | lines of a file, and those a scanner or a chunk reader takes | |
| `LogParse` | what a parse call promises | `LogLines` |
| `LogChunks` | the goroutines of a parse call | `LogLines`, refines `LogParse` |
| `RequestFilter` | `analysis/filter.go` and the filter functions of `analysis/static.go` | |
| `StaticTries` | trie workers, filter workers, collector, merge | `RequestFilter` |
| `Tui` | `tui/app.go`, `tui/visualization.go`, `tui/trie_cache.go` | |
| other `MC*` | instances for TLC | |
| `JailProofs`, `AtomicFileProofs`, `TuiProofs`, `IngestorProofs` | theorems | their components |
| `LiveLoopProofs`, `StaticJailProofs` | theorems | their components, `JailProofs` (INSTANCE) |
| `DetectionProofs` | theorems | `SlidingWindow`, `CIDRAlgebra` |
| `LogProofs` | theorems | `LogFields`, `LogChunks`, `StaticTries` |

A definition named `Slip...` stands before the definition it is a plausible wrong
version of. No specification uses one; each property is known to fail when its
slip takes that place.

### Jail

A prisoner is a record of range, ban start and active flag. `cells` keeps the
slices in order because the code removes by index and takes the first match.
`allCIDRs` is a bag, as nothing reads the order of that slice. `Bounds` gives each
range its numeric bounds, so `Within` is the comparison the code makes; a range
that has none (`ok = FALSE`) is related to nothing. An Update is not atomic:
`BeginUpdate` refreshes the flags and `FillNext` fills one range at a time with
its own reading of the clock, which ticks in between. The four branches of Fill
are four operators: `FillResident`, `FillAbsorb`, `FillCovered` and `FillFresh`.

Absorption does not keep the time of every ban it replaces. The absorbing range inherits
the start of the *first* active ban in the deepest cell involved (the backward scan
overwrites), so another absorbed ban that started later, or runs in a shallower cell, may
end earlier than it would have. The flags are as fresh as the last refresh, so the
inherited ban can even be over by the clock when an update takes that long.
`RunningBanHeld` states what is kept: no step but absorption touches a running ban,
be it to lift it, to cut it short or to start it again, and after an absorption its addresses are
under an active ban in no shallower a cell, with the start of that first one, or a fresh
start if no ban of the deepest cell is active. The comment that a parent escalates only
"when ALL matched sub-ranges have expired" is not what the code does (section 5).

### Whitelists and CIDRAlgebra

`Whitelists` says what the whitelist functions do in terms of address sets, which
is all that the loop and the jail phase need. `CIDRAlgebra` has the arithmetic:
wrapping additions, guards at the top of the space, the sweep, the two greedy
merge passes, the block decomposition, the interval merge and the two binary
searches. A loop over a slice is a recursive function of the number of elements seen,
`sort.Slice` is its result (`Sorted`, one range after the other put in its place; which of
two equal starts comes first in parseWhitelistRanges does not matter, as they are
merged), and the powers of two are a table (`Pow2`). `SubtractExact` shows that the arithmetic does what `Whitelists` says,
and that its output is minimal. The two greedy passes of MergeIPNets are not a
fixpoint: of a 3-bit space, 0/1, 4/2, 6/3, 7/3 become 0/1, 4/1, which could merge
again. No address is affected, and no property claims it. `Coalesce`,
`BuildClusterIntervals` and `ContainsIP` are the TUI's membership test, and part of
`MergeExact`: the heatmap's overlay counts the requests of the merged ranges and no others.

### LiveLoop

`pc` runs through an iteration or a heartbeat: read, fill, save, write, publish,
sleep. Saves and writes can fail, the process can die before any step (a requested
shutdown is one of those: it saves nothing), and Restart loads the jail file.
`Traffic` is what a batch brings: merged detections and addresses with listed
User-Agents. The published lists are sets of address sets. `banKeyValid` and
`lastBanKey` are the heartbeat's change detection, `banContent` and `uaActive` the
statistics state, `snapshot` the pointer the HTTP server reads. A missing file
counts as empty lists.

Behaviours the model made visible, besides the findings: a failed save of the jail
is not tried again while the loop is idle (a crash then loses those detections);
the heartbeat publishes the User-Agent counts of the latest iteration although it
purges the sets. After a restart `/bans` serves empty lists until the first
write of the new process succeeds, although the former's ban file is still there and
comments in `cli/live_stats.go` (185) and `cli/api.go` (670) say that it always serves
what is on disk; `ServedIsOnDisk` states what does hold.

### StaticJail

Runs over the same files, one after another, each with any of a set of findings; a
write can fail, the process can die, the user can quit at any step. The context
is checked once, before the first write, so a quit during the writes does not stop
them. A run that finds nothing does not refresh the flags and republishes expired
bans (section 5). `BansCarryOver` has two halves: what happens to a published ban while
the saved one runs, and what a save keeps of the file it replaces.

### AtomicFile and FileRegister

`AtomicFile` has one action per system call, each of which may fail, for several
writers with a temporary file each. `onDisk` is the set of versions a power loss
may bring back, since the directory is not synced. It refines `FileRegister`, in
which a write replaces the content at once, fails, or dies, and a power loss
brings back a content written whole.

### Trie and SlidingWindow

A trie is a function from the nodes present (bit strings) to counts, without the
root, whose count the code does not keep. The radix sort is its result: the runs of
BuildSorted come in the order of the addresses. `SlidingWindow` takes Update apart:
`InsertNext`, `ExpireNext`, `TrimNext` handle one entry each, with the indices
(`inserted`, `evicted`) the code uses before it cuts the queue. `allocated` and
`dead` follow the bump allocator and the rebuild rule. Update reads the clock once,
so the clock ticks between updates. Detection is checked on every window reached.
A rebuild counts with `BuildSorted`, run by run as the code does, and
`CountsFollowQueue` holds across it. Cluster sizes are at least 1, as
validated. Late requests are allowed: a fresh request shields the late ones behind it
from the loop over the limit, so that the window is not time-bounded as documented
(section 5); `WindowBounded` states the bounds that hold.

### Ingestor

Shippers, the server's channel, the pump (`Take`, `Push`, `Ack`, `End`), the events
channel and the loop (`ReadNext`, `ReadEnd`, `Check`, `Process`). `Check` is apart
from `ReadEnd`, since the loop asks IsClosed after it found the channel empty: a
batch that the pump pushes and acknowledges in between, followed by the end, stays
unprocessed. `ExitAfterDrain` states what is guaranteed all the same.

### LogLines, LogParse and LogChunks

A file is a sequence of bytes of three kinds, and a line is the place of its text in
it, so that a line taken twice, cut or lost is told apart from every other, and what a
reader, a batch or a parser has is a set of lines. `LogLines`
has the arithmetic of the readers: jobs, the sentinel byte, the first line owned, the
lines complete in the buffer, the one that is not, and the growing window that
recovers it. `LogChunks` has the goroutines: `ReadChunk` or `Scan`, `SendBatch` over
`linesChan`, `Parse` and `SendResults` over `resultsChan`, `Collect`, and the calling
goroutine's `CloseLines`, `CloseResults`, `Return`. A reader may fail (`ReadFails`,
`RecoverFails`); the first error is kept and looked at in the end. ParseFile and
ParseFileIPs have the same shape and are one model. The path depends on the size of
the file in the code; here both are taken with every file.

`LogParse` is what the callers rely on: one request for each line, or an error. It
leaves room where the two paths differ. Blank lines count as (invalid) requests on
the streaming path and are skipped on the chunked one; a line of 2 MB or more fails
the first and is dropped by the second only if it ends beyond the chunk's buffer
(one that lies within is parsed). The comment on `maxRecoverLineLen` says otherwise of
both (section 5).

### RequestFilter and StaticTries

`RequestFilter` is the filter as the code has it, three times: `FilterRequests` in one
pass, `Judge` and `CollectOne` split between filter workers and the collector, and
`Unfiltered` or `ParseFileIPs` without any. A request has an instant and the reading
of its own zone's clock, as bounds with an offset are compared with the one and
bounds without with the other. `StaticTries` runs the trie workers over the tries,
sequentially, or with filter workers and a collector for each large trie, merges under
the mutex (a request is known by its place in the log, so that a chunk is a set of places
and the collector may take results in any order) and goes on to the jail phase, in `Finish` unless the context was cancelled,
in `FinishStatic` (the path that parses addresses alone) always: it has no context.
`large` is free: the code's threshold is 50000 requests. Address 0 stands for a line without a
valid address.

Worth knowing: the User-Agent lists see only the requests that pass the time bounds and
regular expressions of a trie, so a listed agent that no trie lets through is neither
banned nor whitelisted; and an empty log ends a run before the jail phase, so it leaves
an old ban file as it was.

### Prefilter

A string is a sequence of runes, a pattern the syntax tree that `regexp/syntax` hands
over, and `MatchString` Go's matcher by its definition (a relation on positions).
`Extract` is the code's recursion with its three-valued answer (literals one of which
is required, whether they are the whole match, whether letters are folded), and
`ExtractConcat` the glueing of neighbours, with the product limit and the choice of the
longest run. `GateAgrees` is the property: with the screen in front, and in place of the
expression where the code drops the expression, the gate decides as the expression does.
It holds for ASCII patterns and inputs. Beyond ASCII it does not (section 5).

### LogFields

Bytes are of few kinds. `CompileFormat` gives the extractors, `ParseLine` walks a line
for all fields, `ExtractIPOnly` for the address, `ParseEvent` is the live parser; both walks are recursive
functions of the number of elements of the format (`ParseNext` and `IPNext` are one element
each). What a
server writes is `Rendered`: the texts in the format's layout, quotes and backslashes
escaped. `FieldsRecovered` asks for every field back, of every format that tells its fields
apart (`TellsApart`: a byte ends each field, then come blanks only, and what opens the next
one) and texts that suit their places (`Suits`: any text in quotes; elsewhere one that does
not contain what ends or encloses it). All formats and texts of the run are such.
`IPOnlyAgrees` compares the two walks on lines of any bytes, well formed or not. What a text means (an address, a date,
a method) is left out.

### Tui

One action per key, per kind of queued closure and per step of a goroutine. `queue` is
tview's queue of updates; a goroutine that queued a closure waits until it has run
(`Ran`), which is what makes the deferred reset of the switching flag come after the
switch. The contents of panels, texts and grids are the tries and sets they were made
of, so that "the wrong trie's output" is a state and not a text. `PreCacheSingleTrie`
reads the requests without the lock, at a moment of its own choice between start and
caching. A quit empties what the closed interface showed, since nothing reads it any more.

Behaviours seen in this model that nothing documented forbids: a 'v' before the requests
are set leaves an empty or "Loading" view, whose text is cached; a goroutine that caches a trie
before the requests are set makes a matrix of zeros the traffic of all tries for good; a
switch before the background view is published leaves it counting the sets of trie 0; if
the closure of the caching goroutine runs before the last resort of the same switch,
the heatmap stays on the old trie while the panels change. `PanelsAreCurrent` and
`HeatmapIsOwn` say what holds of panels and cached heatmaps in all of these.

## 3. The runs

| run | instance | what it shows |
| --- | --- | --- |
| `jail` | ranges G > P > {A, B} and a malformed string, three cells, updates of up to two, clock to 12 | `Antichain`, `AllCIDRsExact`, `ActiveFlagsSound`, `DetectedIsBanned`, `EscalationRemembered`, `RunningBanHeld` |
| `algorithms` | MergeIPNets, RemoveWhitelisted and the interval test with up to three ranges and entries of a 3-bit space; patterns of up to two nodes above six leaves, inputs of up to four runes, products of up to three literals; five formats with any text of two bytes in a quoted field, and lines of any five bytes | `MergeExact`, `SubtractExact`, `GateAgrees`, `FieldsRecovered`, `IPOnlyAgrees` |
| `window` | three addresses of 3 bits, two of them neighbours, on time or two late, limit 1, three entries, rebuild after two evictions | `CountsFollowQueue`, `ClustersSound`, `HeavyHittersFound`, `WindowBounded` |
| `live` | P > {A, B}, B whitelisted, P blacklisted, User-Agents, traffic until 2, two failures, a crash, fairness | `WhitelistNeverBanned`, `KeyIsOnDisk`, `ServedIsOnDisk`, `SuppressionIsFresh`, `NoEarlyLift`, `DetectionsPublished`; liveness: `BansLift`, `BanFileFollows` |
| `static` | P > {A, B}, B whitelisted, any number of runs, a failure or death | `BannedIsSaved`, `BansCarryOver` |
| `file` | two writers, two contents, two deaths, a power loss | `NeverPartial`, refinement of `FileRegister` |
| `ingestor` | three batches, one unusable, channels of two and one, one resend, fairness | `FirstInFirstOut`, `AckedIsQueued`, `ExitAfterDrain`; liveness: `CloseEndsLoop`, `ArrivedIsProcessed` |
| `log_chunks` | files of up to eight bytes, chunks of two or four, overlap one, lines below four, two readers, two parsers, a failing read, fairness | `ImplementsParse` (refinement of `LogParse`), `ParseReturns` |
| `static_tries` | logs of up to three of five telling requests, two tries in four configurations, two trie workers with two filter workers each, chunks of two, a channel of one, fairness | `EveryPathAgrees`, `JailPhaseIsComplete`, `AnalysisEnds` |
| `tui` | two tries with two and one cluster sets, two brightness modes, one caching goroutine after a miss, one redraw by key, fairness | `PanelsAreCurrent`, `HeatmapIsOwn`, `SwitchShows` |
| `prefilter_unicode` | one node above four leaves, inputs of up to three of five runes, two of them not ASCII | violation of the promise at the head of `prefilter.go` |
| `log_pipes` | the documented format of pipes and brackets | violation of what the documents say of delimiters |

Why the bounds are enough:

- *Ranges.* Two siblings under a parent are the smallest family with all four
  branches of Fill, absorption of several residents at once included; the
  grandparent of `jail` adds absorption of an absorber and a parent found through a
  deeper one.
- *Cells and clock.* With three cells of durations 1, 2, 3 a clock of 12 lets one
  range climb the whole ladder, stay in the last cell and outlive its retention
  horizon, so that Prune drops it. Two cells are enough where the ladder is not
  the question.
- *Failures and crashes.* One of each at any step, two failures in `live`: a
  failing save followed by a failing write is the longest chain in one pass.
- *Window.* Three entries over a limit of two instants make expiry, trimming and a
  rebuild happen in the same update; 3-bit addresses give shared paths, a pruned
  branch and an inner node with one child.
- *3-bit space in `algorithms`.* Every alignment, both ends, and three ranges: nesting,
  adjacency and the second merge pass (two siblings that make the sibling of a third) happen.
- *Files.* With an overlap of one byte and a limit of four, eight bytes hold lines that
  begin at, end at, straddle and outgrow a chunk's boundary and its buffer, are
  recovered at once, after one more try, or given up; chunks without a line of their
  own; blank lines, and a last line without a newline. Files with "cr" are shorter, as
  it matters only before a newline or the end.
- *Requests.* The five differ in what the filter's tests tell apart: listed agents with
  and without a valid address, an agent on both lists, none at all, a zone in which
  instant and clock differ. Three of them fill a chunk of two and leave a rest.
- *Patterns.* Two nodes nest every operator in every other, make concatenations of three
  with a gap, an anchor or an optional part between, and with products of three the
  limit is met both ways. Inputs of four runes hold two literals with or without a rune
  between them.
- *Log lines.* A quoted text of two bytes is any quote, backslash and blank before or after
  another. Five arbitrary bytes are a field that is opened and not closed, closed and not
  opened, empty, or followed by too little.
- *TUI.* Two tries make every switch also one back, so a closure can meet its own trie
  shown again; two and one sets make a set number of one trie illegal for the other.
- *Channels.* Capacities of two and one fill up with three batches, and the pump
  blocks.

Every action of every specification fires in these runs. CHECK_DEADLOCK is off
where the modelled system really stops: `ingestor` (the loop exits), `log_chunks` (the
call has returned), `static_tries` (the analysis has ended), `tui` (the interface is
closed), and `algorithms` and the two violations (no more arguments).
That those with processes end by getting there, and not by waiting on each other, is what
`CloseEndsLoop`, `ParseReturns` and `AnalysisEnds` say.

### Fairness

- `LiveLoop!FairSpec`: weak fairness of the loop's own steps (its goroutine is
  scheduled, none of its calls blocks forever) and of Restart (a supervisor starts
  the process again). Tick is strongly fair: time passes, and no instant holds
  infinitely many steps. Traffic, failures and crashes are bounded, so they stop.
  As the clock is bounded too, its last instant stands for all later ones: a
  heartbeat is always due there, and after the last traffic a pass takes no time.
- `Ingestor!FairSpec`: weak fairness of the pump and of the loop, two goroutines.
  Nothing is assumed of shippers, nor that anyone closes the ingestor. Batches are
  finitely many; with endless traffic ReadBatch, which returns only on an empty
  channel, may never return (listed as a hazard).

- `LogChunks!FairReadSpec` and `StaticTries!FairSpec`: weak fairness of all steps of the
  goroutines together (`ReadNext`, `Analyse`): as long as one can go on, one does. Both
  have finite work, so this is enough. Nobody needs to quit. Reads are bounded calls.
- `Tui!Spec`: weak fairness of the event loop's closures (tview takes keys and closures in
  turn) and of each goroutine. No key is ever pressed by fairness, and an analysis may
  run on for ever.

## 4. What is proved

32 of the properties that the runs check are theorems too, for every value of the
constants. The proofs assume the constants' named assumptions only, and TLC evaluates
each of those in the runs:

- of the jail, in all its three users: `NumCells` positive, `BanDuration` and `Bounds`
  typed (any bounds, nested or crossing);
- `HostAssumption`: the range of a tracked address holds just that address (a /32);
  `TrafficAssumption`: a batch's detections are a sequence of ranges, and User-Agents are
  seen at finitely many addresses;
- `NoFile \notin Contents`; `IngestorAssumption` (types of the bounds); `TuiAssumption`
  (at least one trie, any number of sets each);
- `WAssumption` (addresses of at least one bit; the trie and the ranges share it) and
  `WindowAssumption`: requesters are addresses other than the one that stands for "did not
  parse", and cluster arguments are as validated (a size of at least 1, depths in order);
- `CIDRAlgebraAssumption` (the bound on the lists is a number);
- `FieldsAssumption` (formats and texts are sequences), `LinesAssumption` (the overlap and the longest
  line are positive, and the overlap is no longer than the longest line), `ChunksAssumption`
  (files are sequences of bytes; sizes and capacities are positive) and
  `StaticAssumption` (logs are sequences of requests; the chunk and the result channel are not
  empty). None of them says how many workers, readers or parsers there are.

- `JailProofs`: `TypeOK`, `Antichain` and `AllCIDRsExact` for every family of ranges
  and every ladder. `Antichain` alone is not inductive: that an absorption
  leaves no relative behind depends on the range being absent and on
  the removal by index keeping all the others. The invariant is
  `JailInv == TypeOK /\ Sound(cells, allCIDRs)`, where `Sound` says that the cells
  are sequences of prisoners, no two residents are related, and AllCIDRs counts one
  for each resident and zero for the rest. Index arithmetic is confined to
  `RankBijective`, `NthBijective` and `ReleasedFacts` (what Compact leaves); one
  lemma per branch of Fill follows.
  On top of it `ActiveFlagsSound`, `DetectedIsBanned`,
  `EscalationRemembered` and `RunningBanHeld`. All four branches of Fill do the same
  thing seen from outside, which `Grown(ds, S, c, p)` names: they take slots S out, and
  put one prisoner p in whose range covers what went, in no shallower a cell and under an
  active ban. `Thrown...`, `FreshGrown` and `MovedGrown` show it for each; `GrownKeeps`
  and `GrownTruthful` draw the consequences once. A refresh and a Prune are apart
  (`RefreshFacts`, `PruneFacts`). The invariant is `BanInv`: `JailInv`, the last refresh
  is not in the future, the flags are truthful as of it, and each range filled so far is
  held. `EscalationRemembered` follows from `BanInv` and what the steps keep
  (`StepRemembers`). `RunningBanHeld` says which prisoner is put in, so it needs two facts more:
  a prisoner that is not taken out is still there as it was (`GrownSame`), and the one that absorbs
  others takes over (`AbsorbTakesOver`), because the bans it carries are the active ones
  of the deepest cell (`CarriedAreHeirs`) and `FirstSlot` is the first of them.
- `LiveLoopProofs`: `WhitelistNeverBanned`, `KeyIsOnDisk` and `ServedIsOnDisk`. The
  last needs `ContentIsOnDisk` (the statistics state agrees with the disk while the
  key is valid) and `SnapshotIsOnDisk`, which holds in every phase but "publish"
  and "down". Only WriteBanFile, Publish and Restart touch these variables;
  `QuietStep` disposes of the rest. Further `SuppressionIsFresh` and `NoEarlyLift`. The
  former needs `UAInv`: no tracked address is older than its window counted from the
  jail's latest refresh, which holds because both passes purge in the step that
  refreshes. The latter needs no invariant: `ComposedBans` says which addresses a
  composition leaves, and a ban that runs is active.
  `DetectionsPublished` is about what happens between a detection and the ban file: the
  jail may absorb, move or cover what it is given, and a heartbeat or a restart replace it.
  Its invariant `PassInv` says that the jail in memory and the one on disk are sound
  (`JailsSound`, the jail's own invariant), that what waits are ranges, that everything
  filled in this pass is held by an active ban, and that each blacklisted agent's range
  is filled or waits.
- `StaticJailProofs`: `BannedIsSaved` and `BansCarryOver`. Both need `RunInv`: the
  jail in memory and the jail file are sound, the two are the same until the update and after
  the save, and in between the jail in memory remembers every prisoner of the file, in no
  shallower a cell and under an active ban while the file's one runs. What the jail's steps do comes from `JailProofs` through an instance,
  as it does in `LiveLoopProofs`.
- `DetectionProofs`, first part: all four properties of the window. `CountsFollowQueue` is not
  inductive, as it does not tell how far an update has come. The invariant `WindowInv` says what the
  indices are in each phase (`Phases`), that the trie is the tally of the live
  requests (`trie = Tally(Live, Who(queue))`, so that counts *and* absent nodes are
  determined) and that the statistics follow them; each of Insert, Delete and a rebuild
  then takes a tally to a tally. For Delete this is where pruning matters: a node goes exactly
  if the request was its last. BuildSorted is proved run by run: before each run the trie
  and what is pending on the open path add up to the tally of the requests so far, because
  the addresses are sorted and a closed prefix never comes back.
  `WindowBounded` needs two facts more: that the nodes taken are paid for by what lives or was evicted since the
  last rebuild (`MemoryPaid`), and that the first loop stopped at a fresh request
  (`FreshAtTrim`). The detection is a recursion down the tree. `Reports` is what holds at
  each node of it: ranges of the node, heavy, within the depths, disjoint, and above
  every heavy range of maxDepth bits below the node; it is shown for the three ways a node is
  decided, and by induction from the leaves. The step that a wrong threshold would break is
  `ReportsUnion`: what has a heavy descendant is heavy itself.
- `DetectionProofs`, second part: `MergeExact` and `SubtractExact`, for addresses of any width and
  lists of any length in any order. They are about functions and not about steps: that
  every argument is a sequence of ranges (`CallsInv`) is all that the states contribute. A range
  is a block of 2^n addresses at a multiple of 2^n, so that two ranges are nested or
  disjoint (`Nested`, `SameStart`) and the two halves of a larger one are adjacent (`Halves`,
  `MergeableFacts`). `Pieces(s, S)` says what each stage hands to the next: ranges that are apart
  and in order, of exactly the addresses S. The sweep makes such a sequence out of a
  sorted one, because a range that no active container holds begins behind everything kept; a merge
  pass keeps it one; the fast path finds one, since with both guards no two
  neighbours can touch. For intervals `Parted` says the same, and the two guards at the top of the space,
  written differently for the whitelist and for the heatmap, come to one (`JoinedIs`).
  Of `Blocks`, by induction over what is left of the gap: it is filled exactly, the address
  wraps only where nothing is left, and no block could be larger. The latter needs `Whole`:
  no block that fits the gap runs across the place where the next one starts, so that a
  larger block cannot reach back. `GapPieces` turns this into what the property says: beyond
  the gap there is a whitelisted address or the end of the range. `CutInv` is the loop of
  subtractRanges: what has been put out is all that is left before `pos`, and just before `pos` the range
  begins or an interval ends.
- `LogProofs`, addresses: `IPOnlyAgrees`, for any line of bytes and any format that compiles. The two walks
  stay in step (`InStep`): they are at the same byte until the address is found; from then on
  the full walk goes on alone and leaves the address as it is, because a format that compiles
  has it once.
- `LogProofs`, fields: `FieldsRecovered`, for any formats and any texts, of any length. An
  escaped text is `Balanced`: the run of backslashes before each of its quotes is odd, and at
  its end it is even, so the quote behind the text closes the field and none in it does
  (`CloseIs`). In a rendered line each element of the format has its place (`RenderedPlaces`,
  over the sums of the lengths before it), and between two fields there are only blanks and
  what opens the next one (`Between`); so the walk, past the blanks, stands at each field in
  turn (`ReachField`), takes it whole (`ReadField`) and stops behind it (`WalkOn`). The live
  parser finds the address by the first blank, the time by the first brackets and the quoted
  fields one after another (`LiveRecovers`); both leave what `Recovers` says, which is what
  was logged (`RecoversLogged`).
- `LogProofs`, lines: `ImplementsParse`, the refinement of `LogParse` by the goroutines of
  `LogChunks`. The jobs tile the file (`JobsAreChunks`); a reader owns exactly the lines that
  start in its job, the sentinel byte telling it whether one starts at the boundary
  (`OwnedIsStartsIn`); at most one of them is unfinished (`ChunkFacts`), and its recovery
  yields it unless it is blank or too long (`RecoveredFacts`). The invariant `ReadInv` is about where
  the lines are: each is in one place only (to be read, with a reader, in `linesChan`, with a
  parser, in `resultsChan`, or collected), and none that counts is missing as long as there is
  no error (`KeptInv`); the other parts say what the jobs, readers, channels and phases may be
  meanwhile. Each step is then a stutter, or `Fail`, `ReturnLines` or `ReturnError`.
- `LogProofs`, requests: `EveryPathAgrees` and `JailPhaseIsComplete`. Each request of a
  trie that is filtered in parallel is in exactly one place (not sent yet, in the channel, with a worker, in
  the results, or done), and what the collector has is the `Tally` of those done, in whatever
  order they came. No trie is lost between the trie workers (`NoneLost`), and the lists
  gathered under the mutex are those of the tries that have reported.
- `IngestorProofs`: `AckedIsQueued` and `ExitAfterDrain`. The invariant `IngestorInv` adds
  what the pump holds at each step and that the closed flag means that the pump is done
  and the server's channel empty (`PumpSound`), and that the loop checks or exits with
  nothing collected (`LoopSound`). `FirstInFirstOut` is inductive on top of it; its proof
  rests on what filtering does to a concatenation, an induction over sequences.
- `AtomicFileProofs`: `NeverPartial` and the refinement `ImplementsRegister`, deaths
  and power losses included, any number of writers. The invariant is
  `FileInv`: types; `Progress` (what each writer's temporary file is at each call: a
  file about to be renamed is whole and synced, and holds the writer's data);
  `NeverPartial`; and that the target is one of the versions on disk.
- `TuiProofs`: `PanelsAreCurrent` and `HeatmapIsOwn`. Neither is inductive: what a closure
  will show depends on what the goroutine that queued it knew. The invariant `PanelInv` therefore
  speaks of all four places where something to be shown can be: what is shown
  (`ShownSound`, with every view's grids and texts under their own keys), the goroutines
  (none is at a trie before there are results), the queued closures (of a trie that exists; a view that
  waits for its publication is as sound as one that is shown), and the cache (a trie's texts are
  made from its own output). A step of the event loop takes from the queue what some other step
  put there, so each part needs the others.

What the code computes by loops is written as recursive functions where a theorem needs it.
That such a function exists and is what its equations say is `RecursionExists` in `DetectionProofs`
(`TreeRecursion` for the walk down a trie, `FillingExists` for blocks, which count down); claims about it are
proved by `Induction`, applied to the set of the numbers for which they hold, and stated in
each module that needs it.

Only model-checked:

- liveness under fairness, which is beyond the prover: `BansLift`, `BanFileFollows`,
  `CloseEndsLoop`, `ArrivedIsProcessed`, `ParseReturns`, `AnalysisEnds`, `SwitchShows`;
- `GateAgrees`: `Prefilter` is recursive operators over syntax trees, and an induction over
  trees of operators is beyond the provers.

## 5. Where code and documents disagree

Two runs show one each:

| run | document | code |
| --- | --- | --- |
| `prefilter_unicode` | `config/regexprefilter/prefilter.go` 17-19: the prefilter MUST NOT report a false negative | `(?i)kb` matches a string that begins with the Kelvin sign, and MightMatch rejects it: literals are folded as ASCII. `strings.ToLower` (98) breaks it a second way, by lowering case-sensitive runes beyond ASCII too |
| `log_pipes` | log-formats.md 153 and 108: delimiters such as pipes must match; `%h\|[%t]\|%m\|%U\|%s` is an example | after a bracketed or quoted field only the closing byte is passed, so a delimiter other than a blank is read as an empty field, and all later fields are shifted |

Others were met while modelling and have no run:

- `jail/jail.go` 267-269 says that a range escalates when ALL matched sub-ranges have
  expired; only those of the deepest cell count.
- internals.md 293 says that bans expire after the cell's duration. A ban that is absorbed
  together with an older one of the deepest cell ends with that one (`jail/jail.go` 261), and
  one of a shallower cell with the one it is absorbed with.
- `logparser/parser.go` 868-870 says that both ways of reading emit the same lines as long as none
  reaches the cap; a blank line is a line (and an invalid request) for the scanner, and is
  skipped by the chunk readers. Lines 863-866 say that the chunked path never emits a line
  that the scanner could not hold; one that lies within a chunk's buffer is emitted.
- internals.md 293 and output-formats.md 312 say that bans expire after the cell's duration; a
  static run that finds nothing (`analysis/static.go` 1119) publishes stale flags.
- internals.md 352 calls the sliding window time-bounded; the loop over the limit stops at
  the first fresh request (`sliding/sliding_window.go` 131), and a late one behind it stays.
- `tui/app.go` 138 says that ShowError stops the progress animation; animateProgress goes
  on, and overwrites the message within 200 ms.
- `tui/app.go` 44-47 says that what the views read is written on the UI goroutine only;
  the results are stored by the goroutine of the analysis.

## 6. Not modelled

IPv6 input (the tool is IPv4-only, and passes through or skips the rest); the text
of log lines, files and snapshots; HTTP handlers, metrics and top talkers (read-only);
loading and validating a configuration with its barrier (one pass in program order, whose
many checks are data and not control); in the TUI focus, scrolling, layout, drawing and
the status bar (which shows the number of the set before a change); the meaning of a log field's
text, and counters of malformed ones; formatting of output; generators and flags; two processes that share a jail file (each save is atomic, but load,
update and save together are not, and nothing documented promises they could
share); overflow of 32-bit counters.

Two simplifications within modelled parts: a trie "has" a time bound if one is configured
(`RequestFilter!HasFilters`), while the code asks whether it is the zero time, which a bound in
the year 1 is too; and `Tui!Animate` queues nothing once the analysis is complete, while a
round of animateProgress that began before may queue its closure just after.

## 7. Plan

Modules, in this order:

1. `SharedJail`: a live loop and a static run over one jail file, to state what is
   and what is not guaranteed.
2. `StaticTries` and `StaticJail` composed: the jail phase takes the findings of the
   tries as they were merged.
3. `ConfigBarrier`: diagnostics, barrier, and the side effects behind it.

Abstractions to state: the loop's ban file as a set of banned addresses that only
detections extend and only expiry and whitelists shrink; `SlidingWindow` as a bounded
multiset of requests.

Theorems to prove: those of the new modules, and `GateAgrees` with patterns given as functions
from nodes, so that an induction over their number needs no recursive operator.
