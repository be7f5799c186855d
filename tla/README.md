# A verification project for ESP32-BitcoinMiner

TLA+ models of the miner in this repository, the TLC runs that check them on
small instances, and TLAPS proofs about the two miners, the line transport, the
start-up, the session with the pool, the pure functions and the assembly for every
value of their constants. Paths such as `main.c:141` are under `src/`; `main.c` alone is
`src/app_esp32/main/main.c`.

Contents: [the system](#the-system) · [the modules](#the-modules) ·
[the runs](#the-runs) · [bounds](#bounds) · [fairness](#fairness) ·
[the proofs](#the-proofs) · [what the code does against its documents](#disagreements-with-comments) ·
[not modelled](#not-modelled) · [plan](#plan) · [running it](#running-it)

## The system

A Stratum v1 solo miner with one portable core and two programs around it.

| component | source | state it keeps | operations |
|---|---|---|---|
| ESP32 miner | `app_esp32/main/main.c` | `s_job`, `s_target`, `s_generation`, `s_have_*` under `s_lock`; the queue `s_shares` (8); the hash task's own job, target, branch, template, `en2_counter`, `nonce`, `have_*` | network task: drain lines, publish work, send shares, restart; hash task: pick up work, build the template, grind a batch |
| Desktop miner | `app_desktop/main.c` | the same search state, in one thread, no copy of the job | drain lines, build, grind, submit |
| Line transport | `platform/net_posix.c` | socket, receive buffer | `net_connect`, `net_send_line`, `net_recv_line`, `net_poll_line`, `net_set_nonblocking`, `net_close` |
| WiFi station | `app_esp32/main/wifi.c` | `s_retries`, the event group | `wifi_connect` (main task), `event_handler` (event task) |
| Stratum layer | `core/stratum_proto.c` | none | parse notify, set_difficulty, subscribe result, acknowledgement; serialise requests |
| Header template | `core/coinbase.c`, `merkle.c`, `header.c` | none | coinbase, merkle root, 80-byte header |
| Target arithmetic | `core/target.c`, `difficulty.c` | none | compact and difficulty targets, comparison |
| SHA-256 | `core/sha256_*.c`, `.S` | streaming context of the reference | reference hash, midstate and finish, compression in C and Xtensa assembly |
| Self-test, cJSON, host tests | `app_esp32/main/selftest.c`, `third_party/`, `test/` | none of the miner's | not part of the mining program |

How they interact. On the ESP32, `app_main` (core 0) starts the station,
connects and does the handshake on a blocking socket, makes the socket
non-blocking, starts the hash task (core 1) and becomes the network task. Work
goes from it to the hash task through variables under a mutex, with
`s_generation` as the sign of change; shares come back through a queue. Only the
network task touches the socket. A lost connection restarts the chip. The
desktop program does the same in one thread and ends when the connection ends.

What is hard here, and what makes each part correct:

- **ESP32 miner**: two tasks on two cores. The copy of the job is whole; an
  unchanged generation means unchanged work; old work stops within a batch; no
  pair of extranonce2 and nonce is skipped or tried twice across batches,
  exhaustion and wrap-around; a share's four fields belong together; neither
  task keeps the lock; the queue drains.
- **Desktop miner**: one thread, but the pool's lines come between any two
  batches and may fail to parse half way into the job being mined.
- **Transport**: TCP cuts the stream anywhere, in both directions; the reader
  changes from blocking to polling with bytes in its buffer; the writer meets a
  full send buffer.
- **Start-up**: driver events, the handler and `app_main` in any order; retries
  that must be neither lost nor endless; failures between opening and using the
  connection.
- **Session**: the pool answers in any order and pushes between any two answers;
  an answer is only known by its id; the buffer a notification is parsed into is
  never cleared, and a refused line leaves half of itself there.
- **Algorithms**: limits (exponent 32 and 33, padding at 55 and 56 bytes,
  saturation below difficulty 1), byte orders, and a compression function written
  twice, once in assembly, that must agree on every input.

`PROJECT.json` lists every component with its status, and under `hazards` each
of these dangers at its line with the properties that would catch it, or a note
why none does.

## The modules

| module | models |
|---|---|
| `MiningWork` | the data both miners share: jobs, targets, templates, shares, `extranonce2_hex`, and what the pool rebuilds from a share |
| `ShareFlow` | the abstract miner: announced work, the work being searched, shares found and sent in order |
| `EspMiner` | the two ESP32 tasks; implements `ShareFlow` |
| `DesktopMiner` | the desktop loop; implements `ShareFlow` |
| `LineReader` | `take_line`, `net_recv_line`, `net_poll_line` |
| `LineSender` | `send_all`, `net_send_line`, `net_set_nonblocking` |
| `EspStartup` | `wifi.c`, `net_connect`, `handshake`, `net_close`, `app_main` up to mining |
| `StratumProto` | `stratum_proto.c`: four serialisers, four parsers |
| `StratumSession` | one connection: handshake, network loop, and the pool (external) |
| `Sha256Words` | 32-bit words as sets of bits, and SHA-256's operations on them |
| `Sha256Compress` | `sha256_compress` and `sha256_ref_compress`, loop turn by loop turn |
| `Sha256Xtensa` | `sha256_compress_xtensa.S`; implements `Sha256Compress` |
| `Sha256Constants` | the tables of round constants and the initial state |
| `Sha256Blocks` | the reference hash's buffering and padding, midstate and finish, on symbolic bytes |
| `TargetMath` | `bits_to_target`, `difficulty_to_target`, `meets_target` |
| `HeaderBytes` | hex decoding, coinbase, merkle root, header, extranonce2 text, template |
| `CoreCalls` | calls of those pure functions, against what each is supposed to compute |
| `MC*` | the same modules with values for TLC |
| `EspMinerProofs`, `DesktopMinerProofs` | lemmas and theorems about the miners |
| `LineReaderProofs`, `LineSenderProofs` | about the transport |
| `EspStartupProofs`, `StratumSessionProofs` | about start-up and session |
| `Sha256XtensaProofs` | about the assembly |
| `CoreCallsProofs` | about the reference hash and the header the hot loop hashes |

Who uses whom: `EspMiner` and `DesktopMiner` take their data from `MiningWork`
and are each shown to implement `ShareFlow`; `StratumSession` extends
`StratumProto`; `Sha256Xtensa`, register by register, is shown to implement
`Sha256Compress`; `CoreCalls` extends `HeaderBytes` (which extends
`Sha256Blocks`) and `TargetMath`. The miners leave open what a hash is, the
session how a share is found, and the pure functions who calls them, so each of
these can be read and checked alone.

**MiningWork.** A job is copied field by field, so a `stratum_job_t` has two
halves, `id` and `body`: a torn copy is one whose halves differ. A template
(midstate and tail) records which job, branch and extranonce2 went into it, and
the branch whether all of it decoded. `Meets(template, nonce, target)` is an
arbitrary predicate in place of the double SHA-256. `ShareSolves` is the pool's
view: it knows its own job whole, rebuilds the template from the share's fields
and asks `Meets`. `BadBranch` are the jobs that parse but whose branch is not
hex, `Unbuildable` those whose coinbase or header does not assemble.

**EspMiner.** `netPc` and `hashPc` name the code each task is about to run.
One action per step between two points where the tasks can meet:

| action | code |
|---|---|
| `NetReadDifficulty`, `NetReadNotify`, `NetReadMalformed` | a line parsed into `t` or `scratch_job`, before the lock (main.c:342-353); a malformed notify leaves its first field in `scratch_job` |
| `NetTakeLock`, `NetPutTarget`, `NetPutJobHead`, `NetPutJobTail` | main.c:345-349, 353-357; `s_job` is written in two steps |
| `NetNoLine`, `NetSend`, `NetSendDone` | the drain loop's end and the send loop (335-337, 372-382); a write may fail and the share is lost |
| `NetRestart` | `esp_restart` (331-334), at any point of the hash task |
| `HashTake`, `HashNotReady`, `HashSameWork`, `HashNewWork`, `HashBadBranch` | main.c:138-171; the lock is held from `HashTake` to the second action |
| `HashBuild`, `HashBuildFails` | main.c:174-206 |
| `HashNonceNext`, `HashNonceLast`, `HashBatchEnd` | one nonce of the batch loop, its two exits (209-239); `Report` is the non-blocking `xQueueSend` |

`s_have_job` and `s_have_target` are set with their data. Other lines
(acknowledgements, unknown methods, an invalid difficulty) only write the log and
are no steps. History variables: `ground`, the pairs hashed for the current
work, and `late`, the nonces hashed since that work was replaced.

**DesktopMiner.** The same with one program counter. The differences from the
ESP32 are in the code and in the model: the notify is parsed into the live job
(`ReadMalformed` leaves it with the first field, or with all fields but the
last, of the refused one), a new difficulty does not touch the search, a job
that cannot be decoded or built is dropped, and a share is sent at once.

**LineReader.** `stream` is all the pool sent, `read` how much `recv` has
returned, `buf` the receive buffer. A call is one action, with `k` bytes
received for any `k` that fits. The first line ends the blocking handshake read
and the same buffer goes on with the polling reader.

**LineSender.** Each byte on the wire carries, as a history, its line and its
place in it. A call of `net_send_line` is several `send`s of any size, one for
the newline, or a failure: on a broken connection, or with EAGAIN when the
socket does not block and the kernel's buffer is full.

**EspStartup.** The driver's state `link`, the events it posts in order, the
handler's retries and bits, and `app_main` through `net_connect`'s loop over
addresses and the handshake's steps. Descriptors are accounted for in `open`.

**StratumProto.** A JSON value is a record with one field named after its type, so
"not a string" or "not there" can be said; a text is told apart only by whether it
fits the buffer it is copied to, and a submit only by whether its escapes make it
overflow `msg[512]`. `stratum_parse_notify` returns what it leaves in `*job` as
well as its result: the fields before the first fault, and the branch count at the
hashes copied so far.

**StratumSession.** The part the two programs share:

| action | code |
|---|---|
| `SendSubscribe`, `RecvReply`, `SendAuthorize`, `SendSuggest` | `handshake` (main.c:254-292; app_desktop/main.c) |
| `PollLine` with `TakeDifficulty`, `TakeNotify`, `TakeOther` | one line of the drain loop (main.c:339-369) |
| `PollNothing`, `SeeClosed`, `EndWork` | its two ends, and the round of the outer loop |
| `FindShare` | a share serialised and sent (main.c:372-382) |
| `PoolAnswers`, `PoolPushes`, `PoolLeaves` | the pool (external) |

`taken` is every job handed over for mining, and a share may be for any of them,
since the miners' models decide which. Of the two programs the ESP32's parsing is
modelled (into `scratch_job`); that the desktop parses into the job it is mining
is in `DesktopMiner`. A request is put straight among those the pool `owed` an
answer: as the pool answers in any order, a queue on that side would add nothing.
The history `log` keeps what the program reports of each answer.

**Sha256Compress, Sha256Xtensa.** One step per turn of a loop in both. A word is
the set of its one bits and `Add` is defined by the positions that receive a carry.
In the assembly a turn is a program: `Run` executes its instructions one after
another on `reg`, the registers a2 to a15 and the slot `t1` is spilled to, so that
an instruction sees what the one before it left and a value overwritten too early
is lost. The registers hold anything when a call begins (`Leftovers`). The programs
are the listing's, with its registers and its order:

| `Sha256Xtensa` | code |
|---|---|
| `Load` with `LoadWordProgram` | `.Lload` (50-65) |
| `Ext` with `ExtProgram` | `.Lext` (70-95) |
| `LoadState` | a..h into a4..a11 (98-110) |
| `AsmRound` with `SumProgram` ... `MovesProgram` | `.Lround` (111-163), cut at its comments |
| `AddState` | state pointer from the frame, feed-forward, `retw` (166-192) |

What is not in `reg` is the arithmetic of addresses and counters: where a program
loads from memory its instruction is `"lit"` with the word found there, `Len(w)`
stands for the counters and pointers of the first two loops, `t` for a14. An
`ssai` and the `src` behind it are one instruction. The refinement takes a4..a11
for the C code's working variables, during the rounds (`Working`).

**Sha256Blocks.** A chaining state is the sequence of blocks compressed into it,
and a byte is a tagged value, a byte of a message or of a digest, or memory nobody
wrote (the buffer of a fresh context). Two digests are equal exactly when the same
bytes went in.

**TargetMath.** The arrays of digits in a base that is a constant (256 in the
code), the quotient of a `long double` division rounded to `Precision` bits. Powers
are a recursive function, not `^`, of which the provers know nothing; the power of
two a rounded quotient is a multiple of is doubled until it fits.

**HeaderBytes, CoreCalls.** A text is a sequence of digits and foreign characters.
Every field is decoded to exactly its length, or the coinbase into the room the
parts before it left. `CoreCalls` makes one call at a time and compares the result
with an independent definition: numbers for the targets, FIPS 180-4 padding for the
hash, the reference double hash for midstate and finish, and for the header the
transaction tree of the pool, from which the branch of the job is computed.

In every module an operator named `Bug...` stands before the operator it is a
plausible mistake in. No action uses it. Putting it in the place of the real one
makes TLC find the property violated that `PROJECT.json` lists under `mutants`.

## The runs

| run | checks | shows |
|---|---|---|
| `esp_miner` | `TypeOK`, `NoTornWork`, `FreshWork`, `SharesReconstruct`, `StaleWorkBound`, `GroundExactly`, `ImplementsShareFlow`, `NewWorkReached`, `FullQueueDrains` | all interleavings of the two tasks with three jobs (one that neither decodes nor can be built), two targets, a queue of two, restarts at any time; 104,920 states |
| `desktop` | `GroundExactly`, `OnlyUsableJobsMined`, `SearchNotRepeated`, `ImplementsShareFlow`, `SearchStarts` | the desktop loop with all kinds of bad jobs; 41,031 states |
| `reader` | `TypeOK`, `LinesAreFramed`, `GivesUpOnlyWhenFull`, `LinesArrive` | every stream of five bytes over two letters, CR and LF, cut in every way; 32,645 states |
| `sender` | `SentInOrder`, `TrueMeansWhole`, `HandshakeWaits`, `MiningNeverBlocks` | every way the kernel takes and the pool reads five lines; 745 states |
| `startup` | `StationKeepsTrying`, `GivesUpAfterAllRetries`, `OneSocket`, `WifiWaitEnds` | every order of driver events, handler and main; 369 states |
| `session` | `SharesAreThePools`, `ReportsAreTrue`, `NothingIsLost` | two jobs, a half notification and a difficulty pushed at any time, answers in any order, refusals of both kinds, the pool leaving; 83,166 states |
| `core` | `NetworkTargetExact`, `ShareTargetExact`, `PaddedAsDefined`, `FinishIsReference`, `HeaderIsThePools` | the pure functions at all their limits; 1,905 states |
| `xtensa` | `KnownAnswers`, `ImplementsC` | the published digests of `test_sha256.c`, and every turn of the assembly's loops beside the C code's, with clear and with used registers; 1,308 states |
| `esp_bad_branch`, `desktop_torn`, `sender_torn`, `startup_close` | one property each, violated | see below |

The properties are stated, with the code they are about, above their definitions.

### Bounds

- ESP32: nonces 0..1 for 2^32 and a batch of 1 for 2000; desktop: nonces 0..2 and
  a batch of 2, so that a batch ends before, at and after the last nonce. Two
  extranonce2 strings and a counter of 2 (ESP32) or 4 (desktop): both the strings
  and the counter come round. The ESP32's instance is the smaller because its
  liveness is checked over every interleaving; batches that do not divide the
  nonce range are covered by the proofs.
- ESP32: three jobs, of which one neither decodes nor can be built; desktop: four,
  one good, one malformed, one whose branch does not decode, one that cannot be
  built; two targets, so that a share found under one is sent under the other.
- A queue of 2 for 8: it is empty, filling, full and overflowing.
- `MaxGeneration` = 3 jobs and targets per connection on the ESP32: two are
  needed before anything is mined, and one more replaces work while it is hashed
  or waits. The code's counter has 32 bits and does not come round in practice.
- Reader: a buffer of 3 bytes, 5 bytes sent: lines that are empty, fill the
  buffer exactly, are one byte too long, with and without a carriage return, two
  in a piece, one in three pieces. `OutSize = BufSize`, as both callers have it.
- Sender: text of 2 bytes, a send buffer of 4, which is one line and a byte; three
  handshake lines and two submits, the fewest in which one can be torn and the
  next follow it.
- Start-up: two retries for ten, two addresses. `FailuresBound` caps a history
  counter above any value it reaches.
- Session: three pushes, two lines on their way to the miner, two shares, two
  branches. Three pushes are a whole notification, a half one on top of it and
  another whole one in the same buffer; two shares are answered in either order.
- Core: base 4 and six digits for 256 and 32, six bits of precision for 53 or 64,
  with every compact target, and difficulties whose quotient saturates no digit,
  one and all. Message lengths at 55, 56, 63, 64, 119 and 120 bytes, cut in two.
  Up to six transactions (branches of 0 to 3), extranonce2 of up to two bytes,
  each header field spoiled in four ways. A coinbase of 8 bytes for 1024 is filled
  exactly and overflowed by one field.
- Xtensa: the NIST messages of the test and one block on another chaining state,
  each with two contents of the registers at every call; all other inputs and
  contents are covered by the proof.

What the bounds could hide in `EspMiner` is answered by the proofs, which hold
for all values.

### Fairness

- ESP32: both tasks are scheduled, as each has its core and calls `vTaskDelay` in
  every round (weak fairness of each task's steps). A task that waits for
  `s_lock` gets it in the end although the other takes it again and again: strong
  fairness of the two takes, which FreeRTOS gives because a waiting task is woken
  by the give. The drain loop has no bound of its own, so `FullQueueDrains` needs
  the pool to pause: strong fairness of `NetNoLine`. This is an assumption about
  the pool, not a fact about the code.
- Desktop: the thread runs, and the pool pauses in the same sense.
- Reader: a call that can take or receive bytes is made again, since both loops
  poll after every batch. The pool owes nothing.
- Sender: the thread runs; the pool need not read.
- Session: the miner's loop runs, and a pool that stays answers. Nobody has to find
  a share, push a line or leave; `NothingIsLost` allows the connection to end.
- Start-up: both tasks run, and an attempt to join the network ends with an
  address or a disconnect. A network that associates and never gives an address
  breaks this, and `wifi_connect` then waits for ever (it has no timeout).

## The proofs

### The ESP32 miner

`EspMinerProofs` proves, for every set of jobs and targets, every predicate
`Meets`, nonce range, extranonce2 size, batch and queue length and every
`MaxGeneration`:

| theorem | property |
|---|---|
| `TypeCorrect` | `TypeOK` |
| `NoTwoTasksInside` | the critical sections exclude each other |
| `CopiesAreFresh` | `FreshWork` |
| `WorkIsNeverTorn` | `NoTornWork` |
| `OldWorkEndsWithinABatch` | `StaleWorkBound` |
| `SearchIsExact` | `GroundExactly` |
| `SharesAreRebuilt` | `SharesReconstruct` |
| `MinerImplementsShareFlow` | `ImplementsShareFlow` |
| `EachPairIsHashedOnce` | `NothingHashedTwice`, stated in the proof module |

The assumptions of these are the ones the modules name: `JobsAssumption`,
`TargetsAssumption`, `SizesAssumption` (the number of extranonce2 strings divides
the counter's range, which holds as both are powers of 256 and sizes above 8 are
clamped) and `EspAssumption`. TLC evaluates them in every run.

None of the properties is inductive alone. The argument is a chain of
invariants, each proved with the ones before it:

1. `LockInv`: who holds the mutex is decided by the two program counters.
   `TypeInv`: types, with `RoomInv`: the generation has room for what was read
   and is not yet published, so that `Bump` keeps it in range.
2. `WorkInv`: outside the lock `s_job` is whole; while it is written its head is
   `scratch_job`'s; the hash task's copy is whole; its generation is never ahead;
   and equal generations mean equal work.
3. `SearchInv`: which program counters have a template; its extranonce2 is the
   counter's; unless the branch did not decode, it is of the task's own job.
4. `StaleInv`: `late` is at most `b` in a batch and 0 before one, once the
   generation has moved.
5. `GroundExactly`, from `SearchInv` and three lemmas about remainders: counting
   on by one moves the extranonce2 string by one or back to the first, also when
   the 64-bit counter itself comes round. `EachPairIsHashedOnce` follows from it:
   the pair about to be hashed is the one after those covered. Since when: since
   the hash task last took over work it could build. A job with a bad branch
   leaves the search where it was.
6. `ShareInv`: every queued or sent share is of one job and, when the branch
   decoded, of the template the pool rebuilds.
7. `PublishInv` and the step simulation `FlowStep` for the refinement.

### The assembly

`Sha256XtensaProofs` proves, for every table of constants, every chaining state,
every sequence of blocks and every old content of the registers:

| theorem | property |
|---|---|
| `AsmRoundsBounded` | the round index is never past 64, the value the loop tests it for |
| `AsmImplementsC` | `ImplementsC`: every turn of an assembly loop is a step of the C code |

Its assumptions are the types of the constants (`KAssumption`,
`InputsAssumption`, `LeftoversAssumption`). The invariant is `AsmTypeInv`, the types
of words and schedule, and of the registers a4..a11 during the rounds.

The first half is about programs. `RunIs` turns `Run` into the contents of the
registers after each instruction (`Executes`), `Instructions` says of each kind of
instruction that it writes its value to its register and leaves the others alone,
and one lemma per program (`LoadRuns`, `ExtRuns`, `SumRuns`, `Sigma1Runs`,
`ChoiceRuns`, `Sigma0Runs`, `MajorityRuns`, `MovesRuns`) goes through it
instruction by instruction to the formula it leaves and the registers it keeps.
`RoundRuns` puts the six of a round together: a4..a11 then hold the working
variables moved up, with `AsmT1` and `AsmT2` added where they belong.

The second half shows that these formulas are those of the C code, with lemmas
about sets of bits:

- `MajorityIsMaj`: `(a & b) ^ (c & (a ^ b))` is MAJ, bit by bit.
- `LoadedWordIsWordOf`: shifting by 8 three times puts the four bytes where the C
  code's shifts by 24, 16 and 8 put them (`ShlUnion`, `ShlTwice`).
- `AsmT1IsT1`: the two orders of summation agree because addition is commutative
  and associative. `AddCommutative` follows from the definition of the carries.
  `AddAssociative` needs an induction over the bit positions: `CarryZero` and
  `CarryStep` give the carry into a position from the one below, `AddBit` the bits
  of a sum, `SameCarriesStep` shows that the two carries into each position, in
  `(x + y) + z` and in `x + (y + z)`, stay the same as a pair, and
  `SameCarriesEverywhere` concludes from the least position at which they would
  differ (`LeastNatural`), which takes the place of the induction theorem.
- `RotatedIsRoundOf` puts them together for a round; the simulation has one lemma
  per action, `LoadStep` to `AddStateStep`.

That the C code itself is SHA-256 is what `KnownAnswers` and the padding of the
`core` run show on instances; it is not proved.

### The desktop miner

`DesktopMinerProofs`, for every set of jobs of each kind and every range:

| theorem | property |
|---|---|
| `DesktopTypes` | `TypeOK` |
| `OnlyUsableJobsAreMined` | `OnlyUsableJobsMined` |
| `DesktopSearchIsExact` | `GroundExactly` |
| `SearchIsNotRepeated` | `SearchNotRepeated` |
| `DesktopImplementsShareFlow` | `ImplementsShareFlow` |
| `EachPairIsHashedOnce` | `NothingHashedTwice`, stated in the proof module |
| `OnlyMalformedSharesFail` | how far `MalformedJobDropped` holds: `OtherSharesSolve` |

`MineInv` does the work: the live job is whole or its head is that of a refused
notify, and a template, when there is one, is the one the pool rebuilds for the
current counter. The lemmas about the search order (remainders, extranonce2, the
pairs covered) open both miners' proof modules. The refinement is by cases: each action is one of `ShareFlow`'s or a
stutter.

### Transport

`LineSenderProofs`, for every number of lines, length of text and send buffer:
`SenderTypes` (`TypeOK`), `HandshakeNeverFailsEarly` (`HandshakeWaits`),
`BytesInOrder` (`SentInOrder`), `ResultsAreTrue` (`TrueMeansWhole`).

`HandshakeWaits` speaks of the first `HandshakeLines` results and not of the socket,
so it fails when `net_set_nonblocking` comes too early. What makes it inductive is
`HandshakeInv`: a blocking socket has had no line behind the handshake, and a call
on the non-blocking one is of such a line, so a full buffer fails only those.

For the other two the invariant `WireInv` says what is on the wire at any moment:
of the line being sent exactly the bytes up to the cursor of `send_all`, of each
earlier one all its bytes if and only if its result is true, nothing of a later
one. `StreamGrows` is the lemma that a `send` adds just the bytes it counted;
`ReadingMovesTheCut`, that the pool's reading changes nothing in the stream as a
whole.

Two more theorems say exactly how far `PoolReadsWholeLines` goes, which `sender_torn`
finds violated. `LinesRunTogetherOnlyAfterFailure`: a newline on the wire ends the whole
text of its line, and in front of that text is nothing, a newline, or the part of a line
that `net_send_line` reported as failed. `WholeLinesUntilFailure`: until a call returns
false the pool reads whole lines and nothing else. `FollowInv` says of every byte what
is in front of it: the byte before it in the same line or, for the first byte of a line,
something that ends one. `WholeLineBefore` walks back from a newline over its text, as a
least counterexample.

`LineReaderProofs`, for every buffer size, stream and cut: `ReaderTypes` (`TypeOK`)
and `OnlyLongLinesEndReading` (`GivesUpOnlyWhenFull`, and that the caller's limit is
never the reason). `LineFits`: a line is shorter than the text with its newline
that it comes from, and that is at most the buffer. `NewlineFound` says what
`Newline` finds, from the least index (`LeastIndex`).

`EveryLineIsFramed` (`LinesAreFramed`) is the one that matters most here. Its
invariant `WholeLines` splits the stream at `Taken`, which is how much of it has left
the buffer: the buffer is the stream from there to `read`, the part before ends with
a newline or is empty, and the lines handed out are `Framed` of that part. That
`Framed` of a text and one more line is `Framed` of the text with that line behind it
(`FramedConcat`, `FramedOne`) rests on how many newlines a prefix has and where the
k-th is. `NewlinesCount` counts on by one character; that the count reaches every
number up to its value and never falls (`CountReaches`, `NewlinesGrow`) is an induction,
written as a least counterexample.

`NothingIsHeldBack` is the other half: a call that comes back without a line leaves no
whole line in the buffer, so all lines of what was received have been handed out, and
when it reports the end of the stream all lines of the stream. `ResultInv` says that
after such a call the buffer holds no newline; `TakingEmpties` is the case of a poll
that takes the line in front, and `WholeLines` does the rest.

### Start-up

`EspStartupProofs`, for every number of retries and addresses: `StationNeverRests`
(`StationKeepsTrying`), `AllRetriesAreUsed` (`GivesUpAfterAllRetries`), `OnlyOneSocket`
(`OneSocket`), `StartupTypes` (`TypeOK`, and that the history `failures` never gets to
its bound, so capping it hides nothing). `StationInv` lists the five queues of events
that occur, each with the station's state and with how far the handler's count is
behind the disconnects; `SocketInv` says which descriptor is open where. From it also
`ConsoleStaysOpen`, how far `OnlySocketsClosed` goes: the console's descriptor is closed
only when `app_main` returns without a connection, so a board that connects, shakes
hands or mines has its console.

### The session

`StratumSessionProofs`, for every set of jobs, of pushed lines and of sessions, any
number of pushes and shares, answers in any order:

| theorem | property |
|---|---|
| `ReportsAreTheVerdicts` | `ReportsAreTrue` |
| `SharesBelongToThePool` | `SharesAreThePools` |
| `PushedJobsAreKept` | `JobsAreKept`, safety core of `NothingIsLost` |
| `PoolsVerdictsAreKept` | `VerdictsAreKept`, likewise |
| `FoundSharesAreKept` | `SharesAreKept`, likewise |

Two assumptions carry what is said about the pool (`SessionAssumption`,
`PushesAssumption`): a pushed line does not read as an answer, and the job in it is
what a reader with a *clean* buffer finds. That the miner, with a buffer full of
remains, finds the same is what is proved:

- `ParseForgets`: whether a line is accepted does not depend on the buffer, and a
  line that is accepted leaves the same job in every buffer, as far as the count
  says to read. With `PushParsed` and `JobsStep`: all jobs taken are the pool's.
- `SentInv`: every id is that of one request, known by it and never used again;
  `ReportInv`: an acknowledgement on its way or on the log is a verdict of the pool
  on a request that was sent.
- `AssignInv`: only the subscribe request makes the pool assign a session, it is
  sent once, and from its reply on the miner has exactly that session.
- `TalkInv` and `WaitingMoves`: while the connection is up a line that waits goes on
  waiting or is the one just read, whoever reads it, the handshake or the loop. With
  `PushTaken` a job is therefore still waiting or taken over whole. `AnswersByMethod`
  and `AnswerLogged` do the same for a share: what the pool owes becomes an answer, and
  the answer a line of the log under the same id.

### The pure functions

`CoreCallsProofs`, for messages of every length, every job and every target, in any
base, with any number of digits and any precision:

| theorem | property |
|---|---|
| `ReferencePadsAsDefined` | `PaddedAsDefined` |
| `HotLoopHashesTheHeader` | `FinishIsReference` |
| `TheMinerBuildsThePoolsHeader` | `HeaderIsThePools` |
| `NetworkTargetIsExact` | `NetworkTargetExact` |
| `ShareTargetIsExact` | `ShareTargetExact` |

The first needs `MessagesAssumption` (lengths are natural numbers, a cut lies inside
the message), the second nothing, the third `BuildsAssumption` (fields are texts of
any length and any characters, the transactions a sequence, size and counter natural
numbers) and `CoinbaseMaxAssumption`. The last two need `BaseAssumption`,
`SizeAssumption` and `PrecisionAssumption`, which 256, 32 and 53 or 64 meet, and that
the inputs are numbers: `CompactAssumption` (three bytes under an exponent),
`DifficultiesAssumption` (a fraction, of either sign). `Absorbed(M, p, ctx)` says that a context has taken
in the first p bytes of M: its chain is the whole blocks, its buffer begins with the
rest. `InitAbsorbed` and `UpdateAbsorbs` carry it along; the loop of an update is a
recursive function, whose existence (`RefillsExist`) and effect are each shown by the
least turn at which they would fail. `FinalPads` closes it: the last block, or the last
two when the 0x80 leaves no room, are the padding place by place (`PaddedByte`), and
`PaddedMessageIs` that this is the message with its one bit, zeros and length. For the
hot loop the header is split into the 76 bytes the nonce has no part in and the nonce
(`HeaderParts`), so that patching the tail gives the header of the new nonce
(`PatchedIsTail`), and the two blocks `sha256d_finish` writes out are the ones the
padding yields for 80 and 32 bytes (`PaddedIsClosed`).

The third is put together from five parts. `DecodesHex` and `DecodedLengthIs` say
what the two decoders take: whole bytes, all hex, and in the coinbase no more than
fits; the loop of the second is followed from its end. `CoinbaseIs` and
`CoinbaseIsText` carry that through the four parts to the pool's text. `Extranonce2Is`
goes up the digits two at a time: what is spelled so far and the part of the counter
not yet reached make up the counter. `RootIsTheTrees` compares two trees over the
same transactions, the pool's with its placeholder and the one with the coinbase:
on every level they differ in the first hash at most (`TreesAlike`), so they are as
deep, and folding the second hash of each level of one gives the first hash of each
level of the other. `HeaderIs`, `FieldDigits` and `PrevhashDigits` read the numbers
back from the 80 bytes. Every loop here is one recursive function; `LoopRuns` shows
for all of them that such a function exists.

The targets rest on one lemma, `MeetsAsNumbers`: comparing two arrays from the top
compares the numbers they spell. `Expands(x, h)` gives the number above each digit of
`h`; from the top down the numbers are either equal, as all digits so far, or apart for
good. For the network target, `PlacedIs` shows that three bytes in their place are the
digits of the shifted mantissa, and `UnpackedStands` that the comparison with it is the
one with mantissa * base^(exponent - 3), also where the shift down drops bytes. For the
share target, `UnitIs` and `QuotientRounds` bound the division by half a unit in the last
place, and the digit loop has two regimes: a quotient below the top place leaves its
remainder at every digit (`DigitsOfFitting`), one at or above it leaves so much that
every digit is the highest (`DigitsOfMuch`), and then every hash is below it
(`TakenMeets`). `RoundedIsWithinAnUlp` puts the two together; the one delicate case is
a quotient below one half, which the model rounds to a fixed unit and no longer to its
own last place, and where no hash but zero may meet the target.

### Only model-checked

Liveness (`NewWorkReached`, `FullQueueDrains`, `SearchStarts`, `LinesArrive`,
`MiningNeverBlocks`, `WifiWaitEnds`, `NothingIsLost`) and `KnownAnswers`. Liveness and
`ENABLED` are out of TLAPS's reach. For two of them the safety part is proved and only
the progress is left to TLC: `NothingIsHeldBack` for `LinesArrive` (left: that the caller
calls again), and the three theorems on what is kept for `NothingIsLost` (left: that
the pool answers and the miner goes on reading). `KnownAnswers` is about three messages
and their published digests, which is a computation and no theorem.

## Disagreements with comments

The first four are runs that expect their one property to be violated.

- `esp_bad_branch`: a job whose merkle branch is not hex is not dropped on the
  ESP32. `continue` at main.c:167 comes after the job, target and generation were
  copied and before the template and the counter are reset, so the next rounds
  hash the old template, or one with half a branch, and queue shares under the new
  job's identifier. `stratum_proto.c:12` wants such a job dropped; the desktop
  miner drops it. `SharesAreRebuilt` proves that only shares under the
  identifier of such a job are wrong for it.
- `desktop_torn`: `stratum_parse_notify` leaves its output unspecified when it
  fails (`stratum_proto.h:97`), and the desktop miner's output is the job it is
  mining. `OnlyMalformedSharesFail` proves that only shares under the identifier
  of a malformed notify are wrong for it.
- `sender_torn`: with a full send buffer a submit stops half way and the next one
  follows on the same line; `net_posix.h:36` promises a line and its newline.
  `WholeLinesUntilFailure` proves that this needs a call that returned false.
- `startup_close`: after a failed `net_connect` the connection is passed to
  `net_close`, against `net_posix.h:30-32`, and descriptor 0 is closed.
  `ConsoleStaysOpen` proves that this happens only as `app_main` returns.

Others that the models reach but no run is kept for:

- A new difficulty makes the ESP32 rebuild the header and search the job again
  from the first pair; main.c:8-9 and `sha256_fast.h:10-12` say a header is built
  once per job and extranonce2. (The desktop's `SearchNotRepeated` holds.)
- Shares of the old job wait in the ESP32's queue while the network task takes a
  clean new job, and are sent after it; `stratum_proto.h:40-41` says they would be
  stale.
- app_desktop/main.c:192-193 takes every answer with an id other than 2 for one on
  a share; the answer to `suggest_difficulty` has id 3. `ReportsAreTrue` is stated
  with this exception.
- A refusal whose result is null instead of false is no acknowledgement to
  `stratum_parse_result`, so it is logged as a raw line and not as a rejected
  share. `NothingIsLost` accepts the raw line as the answer.
- `target.h` says an exponent is rejected when the value would overflow; an
  exponent of 33 or 34 with leading zero bytes in the mantissa does not overflow
  and is rejected (`target.c:34-38`). `NetworkTargetExact` states what the code does.
- `difficulty.c` counts on the 64 significant bits of a `long double`; where it is
  a `double`, as on the ESP32, there are 53. `ShareTargetExact` is stated for any
  `Precision`.

## Not modelled

- `coinbase_pays_script` and the warning it gives: it only logs.
- The characters of a line: JSON text, escapes, the printing of numbers. cJSON is
  third party; of the serialisers the model keeps whether the line fits.
- 32-byte targets in base 256 and 64-bit doubles as they are: TLC's integers have
  31 bits.
- `selftest.c` (a firmware of its own, without state), the tests and build files,
  `nvs_flash_init` and the driver's set-up calls, which abort on failure, logging
  and hash-rate reports.
- On the desktop, SIGPIPE on a broken connection is modelled as the end of the
  program; EINTR is not modelled, as neither program installs a handler.
- Timing: cycles, delays, the watchdog.

## Plan

Done: the data, the abstract miner, both miners, transport in both directions,
start-up, the protocol and the session, the pure functions of `core/`, the
compression in C and assembly; proofs of every safety property of these but
`KnownAnswers`, of the safety part of `LinesArrive` and `NothingIsLost`, and of the
limits of the four properties that runs find violated.

Open:

The miners and the session composed in one module, in place of the session's
"any job taken may give a share". The interface is the same on both sides
(`taken` there, `scratch_job` and the queue here); a composed run is large.

`TypeOK` of `DesktopMiner`, `LineSender` and `EspStartup` is proved and therefore in
no run.

## Running it

    tlc -workers 2 -config EspMiner.cfg MCEspMiner.tla
    tlapm EspMinerProofs.tla

and likewise for each entry of `runs` in `PROJECT.json` and each `*Proofs` module.
