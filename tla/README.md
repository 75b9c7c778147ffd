# TLA+ verification of the L1 data cache of the CV32E40P system

The repository joins a CV32E40P RISC-V core (`src/rtl/cv32e40p_*.sv`), the CVA6
instruction cache (`src/rtl/l1_cache/cva6_icache_full/`) and the HPDcache data
cache (`src/rtl/l1_cache/hpdcache/cv-hpdcache/`), with the software that tests them:
the SystemC testbench of the cache, a QEMU plugin that records memory traces for it,
and test programs of the core. The repository's own work is in the data cache:
stores are forced to write-back, a single-entry **victim buffer**
(`hpdcache_vbuf.sv`) captures a dirty line before its way is overwritten, and the
pipeline controller, the directory and the replay table were changed around it.
The project has two halves: the cache, where the hard behaviour is, and the test
environment, whose verdicts are only worth something if it is right itself.

In this document names of `.sv` files are under
`src/rtl/l1_cache/hpdcache/cv-hpdcache/rtl/src/`, and names of `.h`, `.c` and `.cpp`
files under `.../rtl/tb/` next to it, except `interrupt.c`, which is
`src/example_tb/core/interrupt/interrupt.c`.

## 1. Inventory

| Component | State | Operations | Hard behaviour |
|---|---|---|---|
| Victim buffer (`hpdcache_vbuf.sv`) | FSM state, line, way, copied data, beat counters, safe flag | allocate, read a beat, capture a beat, write-back request / data / response, consume the safe flag, forward to loads | multi-cycle capture while the pipeline drains; a flag that outlives what it stands for |
| Pipeline controller (`hpdcache_ctrl.sv`, `hpdcache_ctrl_pe.sv`) | stage 1 and stage 2 registers | accept, abort, answer, hold, replay, miss, hit, forward | decisions taken on last cycle's lookup; priority of a dozen hold reasons |
| Directory, data RAM, victim selection (`hpdcache_memctrl.sv`, `hpdcache_victim_*.sv`) | valid, write-back, dirty, fetch bits, tags, data, PLRU bits | lookup, update, select a victim | victim selected again after a replay, with other contents |
| Miss handler, MSHR, coalesce buffer (`hpdcache_miss_handler.sv`, `hpdcache_mshr.sv`, `hpdcache_cbuf.sv`) | outstanding misses, coalesced stores, refill FIFO | allocate, send, receive, refill, acknowledge | out-of-order and failing responses |
| Replay table (`hpdcache_rtab.sv`) | requests on hold, linked lists per line, dependency bits | allocate, link, clear dependencies, pop, commit, roll back | dependencies cleared by one-cycle pulses; fairness of wake-ups |
| Flush controller (`hpdcache_flush.sv`) | directory of lines being flushed | allocate, read the line, write, acknowledge | several writes in flight |
| Uncached and AMO handler (`hpdcache_uncached.sv`, `hpdcache_amo.sv`) | one request | forward to memory, update the cached copy, answer | "nothing else is pending" condition |
| CMO handler (`hpdcache_cmo.sv`) | FSM, set and way counters | fence, invalidate, flush | same condition |
| Write buffer (`hpdcache_wbuf.sv`) | entries, timers | merge, send, acknowledge | unused by forced write-back stores |
| Prefetcher, core and memory arbiters, FIFOs | grants, streams | arbitrate, route by identifier | burst lengths, identifiers |
| Test sequences and driver (`sequence_lib/`, `include/hpdcache_test_sequence.h`, `include/hpdcache_test_driver.h`, `hpdcache_tb.cpp`) | identifiers in use, transaction pool, position in the sequence | draw and send requests, drive them, end the simulation | threads of a SystemC kernel that wait for each other |
| Scoreboard (`include/hpdcache_test_scoreboard.h`) | tables of requests in flight, expected memory, reservation, AMO FIFO | one process per channel, final report | compares an answer with what was expected when the request was sent |
| Memory model (`include/hpdcache_test_mem_resp_model*.h`) | memory, reservations, FIFOs | read, write, atomics, random delays, error segments | two write channels paired by order; ready stays high while a FIFO is full |
| Cache directory model (`sc_verif_lib/modules/generic_cache/`) | tags, valid and recency bits | access, replace, invalidate | compiled out (`hpdcache_test_scoreboard.h:38`) |
| Fault injection (`include/hpdcache_fault_injection.h`) | none | place a mask in the words of a RAM | bit offsets that cross words |
| Trace recorder (`qemu_plugin/qemu_plugin.c`) | buffer, compression stream, instruction counter | record an access, compress a full buffer, close at exit | unsigned edge at exit; record lengths that depend on the target |
| Trace reader (`include/hpdcache_test_trace_manager.h`) | file position, buffer, stream | refill, read a record, end | chunks that end anywhere in a code |
| miniz, compression (`thirdparty/miniz/`) | dictionary, codes, suspended decoder | deflate, inflate | suspension and resumption at every byte; circular dictionary; code tables |
| miniz, archives | offset, directory in memory, file | add, finalize, open, extract, validate, locate | the directory is overwritten before it is written again; fields that change width |
| Interrupt test (`interrupt.c`) with the interrupt controller of the core and the interrupt generator | pending word, expected order, `mstatus`, `mie` | set lines, take, serve, check | handler and main share variables |
| Instruction cache (`cva6_icache.sv`) | FSM, lookup registers | lookup, miss, kill, flush | killed misses |
| CV32E40P fetch, LSU, controller | OBI counters, FIFOs, FSM | issue, flush, stall | outstanding transactions across branches |

Interaction in the cache. The core puts one request per cycle into stage 0. Stage 1
looks it up and answers it, holds it in the replay table, or passes a micro-operation
to stage 2, which allocates the MSHR, the victim buffer, the flush controller or
updates the directory one cycle later. The handlers talk to memory on their own
and report back with one-cycle pulses (`refill_i`, `flush_ack_i`, `vbuf_ack_i`) that
clear dependency bits in the replay table; an entry without dependencies is replayed
through stage 0. Refills take the pipeline over; the victim buffer reads the data
RAM at the lowest priority and stops stage 0 while it captures
(`capture_pending_o`).

Interaction in the testbench. A sequence thread draws a request, takes an identifier
and a transaction object, and blocks on a FIFO until the driver has handed the request
to the cache. The memory model answers on the memory side. Driver and memory model
copy every transaction they see to the scoreboard, whose six threads update the
expected memory and compare. When the sequence is over the driver waits for
"no request in flight" and stops the simulation. A trace recorded by the plugin is
compressed by miniz, written, read back by chunks, inflated and replayed by the trace
sequence.

What makes it correct: no store is lost between a dirty way, the victim buffer, a
flush and memory; hits and forwarded loads see the last store; the directory, the
MSHR and the buffer agree about every line; every request is in one place and is
answered once, in the end. The testbench reports a wrong cache and never a right one,
and ends; a replayed trace is the recorded one; the interrupt test's exit status is
the truth about the core. `PROJECT.json` lists the hazards by line.

## 2. Modules

| Module | Models | Used by |
|---|---|---|
| `Vbuf` | the victim buffer, cycle by cycle, in an abstract cache (`Env...` actions) | extended by the two below |
| `VbufProofs` | theorems about `Vbuf` | TLAPS |
| `Hpdcache` | controller, directory, victim selection, miss handler, replay table, flush, AMO path, around `Vbuf` | the runs on the whole cache |
| `HpdcacheProofs` | types and directory of the whole cache; `Hpdcache` implements `VbufSpec`; the data, without AMOs | TLAPS |
| `HpdcacheRequestProofs` | requests, wake-ups and table sizes of the whole cache | TLAPS |
| `MCHpdcache` | the map of lines to sets and the symmetry of the instances | runs `direct`, `assoc`, `sets`, `live`, `random_stale_safe`, `amo_vs_vbuf` |
| `Rtab` | the replay table entry by entry, with stage 1 as its user | run `rtab` |
| `ReplayQueue` | what the table promises: one queue of requests per line | refined by `Rtab` |
| `RtabProofs` | theorems about `Rtab` | TLAPS |
| `MCRtab` | the symmetry of the instance of `Rtab` | run `rtab` |
| `TbTransaction` | the operations of the testbench, their classes, atomics as scoreboard, memory model and cache compute and translate them | the testbench modules, `TbUnits` |
| `TestSequence` | the five sequences, identifiers, transaction pool | extended by `Scoreboard` |
| `Scoreboard` | the processes of the scoreboard | extended by `MemRespModel` |
| `MemRespModel` | the threads of the memory model | extended by `Testbench` |
| `Testbench` | driver, reset, end of the simulation, and an abstract cache: the composition | run `testbench`, through `MCTestbench` |
| `TestbenchProofs` | channels, beats and identifiers of the testbench | TLAPS |
| `TestbenchVerdictProofs` | the verdict of the scoreboard, right and wrong answers | TLAPS |
| `Huffman` | code construction, packing of code sizes, decoding tables, match symbols of miniz | `TbUnits` |
| `UnitProofs` | theorems about `IrqTest` | TLAPS |
| `IrqTest` | interrupt test, generator, interrupt controller | `TbUnits` |
| `Zip` | zip archives of miniz: writer, reader, iterator, names | `TbUnits` |
| `TbUnits` | fault placement, filling of the expected memory, and `Huffman`, `IrqTest` and `Zip` on all small inputs | runs `units`, `fill`, through `MCUnits` |
| `Deflate` | the compressor: dictionary, parsing, blocks, output | extended by `Inflate` |
| `Inflate` | the decompressor as a coroutine | extended by `TracePath` |
| `TracePath` | plugin, file, reader, replay | runs `trace`, `trace_exit` |
| `TraceProofs` | theorems about `TracePath`, with `Deflate` and `Inflate` | TLAPS |

### Vbuf

One variable per register of `hpdcache_vbuf.sv` (the comments give the names), the
tags and the data of the ways, and memory. `snap` (the victim when it was
allocated) is a history variable, `burst` is what the memory has received of the
current write. One action per register update: `VbufAlloc`, `VbufRead`,
`VbufCapture`, `VbufStartWriteBack`, `VbufMemReq`, `VbufMemData`, `VbufMemResp`,
`VbufSafeConsume`. Only "replacement owner" mode is modelled, the one
`hpdcache.sv` instantiates; `wb_enable_i` is 1 there, and the drain input of the
other mode is tied to 0.

The `Env` actions are what the rest of the cache may do to the ways, with the
guards the buffer relies on: no store to a line the buffer holds, no refill of such
a line, no refill into the way being captured, no second capture of a line
flagged safe. `VbufSpec` is therefore also the abstract specification of the
cache as the buffer sees it, and `Hpdcache` is checked to implement it.

### Hpdcache

It extends `Vbuf`, so the refinement mapping is the identity and `VbufSpec` is
a property of `Hpdcache!Spec`. One action per outcome of stage 1 (`Stage1Abort`,
`Stage1Error`, `Stage1Link`, `LoadForward`, `LoadMiss`, `LoadHit`, `StoreHold`,
`StoreMiss`, `StoreHit`, `AmoHold`, `AmoFlush`, `AmoIssue`), one per kind of stage 2
operation (`Stage2Vbuf`, `Stage2Miss`, `Stage2Dir`), and one per event of a handler.
`StoreDep` and `LoadMissDep` are the prioritised hold reasons of
`hpdcache_ctrl_pe.sv`. Allocation of a dirty victim and its later replacement
are separate passes through the pipeline, as in the code: `CaptureVictim` holds the
request without dependencies, and the replay selects a victim again.

Abstractions:

- A request is looked up in the step that decides about it. In the code the lookup is
  a cycle earlier, but every decision that changes the directory inserts a nop, so
  no request reads a state that is about to change. Stage 1 waits for stage 2.
- Stage 0 and the handlers take any number of cycles (refills, invalidations and CMOs can
  hold stage 0), arbiters choose freely (safety) or fairly (liveness). Stage 1 takes one
  cycle: the buffer does not advance past a request in stage 1, except for the events
  of the accepting cycle that stage 1 sees (`Stage2Vbuf`, `VbufDone`).
- The replay table is one FIFO per line with dependencies on its head, and at most
  one fence. Several fences cannot occur: `core_req_ready_o` is low while one waits.
- A refill, and the read of a line by the flush controller, are one step: both freeze
  the pipeline. Their memory requests and answers are separate steps.
- The MSHR has one set. `cfg_default_wb_i` and `cfg_prefetch_updt_plru_i` are set.
- An AMO overwrites a word: which function it computes does not matter here.
- Write responses with an error are treated like the others, as in the code.
- Left out: uncacheable loads and stores, LR/SC, CMOs, NoC invalidations, ECC and the
  scrubber, write-through stores.

`latest` (the contents every line should have) and `issued` (unanswered requests) are
history variables; `latest` changes when a store or an AMO takes effect.

### Rtab and ReplayQueue

`Rtab` keeps the registers of `hpdcache_rtab.sv`: `valid_q`, `head_q` and `tail_q` as sets
of entries, `next_q`, `deps_q`, `req_q`, and the pop state machine
(`pop_try_state_q`, `pop_try_next_q`). A step is one clock cycle: what stage 1 does
with its request (`Pass`, `Alloc`, `Link`, `Commit`, `Rollback`) and, in the same step,
what stage 0 takes meanwhile (`Stage0(nop, hd)`: nothing, a replay, a request of the
core), both reading the registers as they were. This is where the races are: a link to
the tail that is being popped, a roll-back in the cycle the next entry is offered,
`full_o` and `fence_o` read a cycle before the allocation. `Wake` and `WakeFence` are
the pulses that clear dependencies; an entry behind the head is popped after its
predecessor, whatever its own dependencies. `deps` is abstracted to "none", "wait" (any resource) and "pend" (a fence
waiting for pending transactions); which resource clears when is the subject of
`Hpdcache`. `req_q` is not reset in the code and starts with any value.
The polling of the write buffer is left out with the write buffer.

`ReplayQueue` is the abstract specification: a queue per line, of which the oldest request
is replayed and leaves when the replay succeeds. The refinement mapping (`Queue`)
follows the links from the entries that start a list (`Starts`: heads, the entry in
stage 1, or the one after an entry that has just been popped); the fence of a line comes after its list. `Hpdcache` uses
the table in the form of `ReplayQueue`.

### The testbench: TestSequence, Scoreboard, MemRespModel, Testbench

The four modules extend each other in that order, as the objects of `hpdcache_tb.cpp`
hold references to each other; `Testbench` wires them and adds the driver.

- `TestSequence`: one action per iteration of `run()` of each sequence (`RunRead`,
  `RunWrite`, `RunTrace`, and for the two sequences that follow a LR by requests and a SC
  `RunFirst`, `RunBetween`, `RunSc`), `RunStart` and `RunStop`. `allocate_id` probes from a
  random start; `pool` and `allocated` are the transaction objects.
- `Scoreboard`: one operator per SC_THREAD. A thread handles a transaction in the delta
  cycles between two clock edges, so the operator is conjoined with the step of the driver or
  of the memory that writes its FIFO. `sbErrors` is the list of reported errors; at
  `ErrorLimit` the program exits, as `print_error` does. `inflight` is the table of requests
  (`inflight_m`): a function whose domain is the set of identifiers in flight. `lrsc_buf_m` is
  not initialised by the code: `lrscRaw` is what it happens to hold until it is first written, and
  `phantom` remembers that a SC matched it, that is, a reservation nobody made.
- `MemRespModel`: `read_process`, `readOperation`, `read_response_process`,
  `write_address_process`, `write_data_process`, `write_process`, `WritePush` (the blocking
  pushes at the end of `writeOperation`) and `write_response_process`. A random
  delay is an interleaving. The random initial contents are drawn in `MemInit`, with the
  reservations `excl_buf_m` happens to hold. The two write threads do **not** stop the cache when
  their FIFO is full: they raise ready, sample a request, and retry `nb_write` with ready still high
  (`hpdcache_test_mem_resp_model.h:392-402`, `425-430`), so that a request driven meanwhile is taken by
  the handshake and kept by nobody. `Taken` has both outcomes, `overrun` remembers a loss.
- `Testbench`: `Simulate` (reset), `DriverTake`, `drive_request`, `CheckInflight`,
  `DriverFinish`, and the device under test (`Dut...`). The device is **not** the
  verified RTL: it is an abstract write-through cache with the order guarantees the
  scoreboard relies on, which may give one wrong answer (`Bugs`: data, error flag,
  identifier). `bug.seen` says whether the scoreboard can know that the answer is wrong: it
  does not check a word it has never seen, nor the data of a request that failed.

When the testbench is sound. `Sound` is `~overrun /\ ~phantom`, and the verdicts are stated for a sound
testbench, because the code does not keep it sound by itself:

- A loss needs more writes in flight than the FIFO (16, the default of `sc_fifo`) and the request its
  thread holds. Of the shipped configurations the high-performance one can have 26 outstanding (write buffer, flushes and
  uncached together), the default 14, the embedded and the direct-mapped one 10. `NoHandshakeLost` holds where the
  writes in flight fit, which is the condition of the theorem `HandshakesAreKept` and true of the instance (one write for each of two addresses,
  FIFO of one). The model frees the place of an address when its write is performed; the code frees it a little
  earlier, as soon as it has read the address.
- A SC before the first LR that matches the uninitialised buffer is reported as an error though the cache is
  right; TLC shows this alarm as soon as `Sound` is dropped from `NoFalseAlarm`.

A line is a word and a beat. Which bytes of a response are taken over, with
several words and partial accesses, is the unit `fill` of `TbUnits`.

### TbUnits, Huffman, IrqTest, Zip

`TbUnits` chooses a unit and an input, and computes the result in one step; the
properties compare it with a reference definition. Three units are state machines of
their own: `IrqTest`, and the units `archive` and `iter` of `Zip`.

`Huffman` follows the arrays of miniz: `SortedKeys`, `minimum_redundancy` (the in-place
algorithm), `CodeSizes` with the length limit, `pack_code_sizes` and
`start_dynamic_block`, `BuildTable` (fast table and tree), `huff_decode`,
`bitbuf_filled` (when the decoder asks for another byte), and the symbols of lengths and
distances with their real tables.

`IrqTest` has `fw` (globals and position of the program), `core` (`mstatus`, `mie`, the running
handler), `gen` (registers and lines of the generator) and `fault`. `mstatus` is changed by two
instructions, as in the code, with interrupts in between. The core may once take
an interrupt out of order, a masked one, or one while interrupts are off. Assumptions:
the lines have settled before `mret` (the handler restores its registers first); a fault
that comes just before main enables the interrupts cannot be told from a correct interrupt and
is not required to be noticed. The generator samples its word in every cycle until it has sampled
a zero word, and once more when the word is not zero again, so its lines always follow the word. The program has no test 4.

`Zip` is the second half of `miniz.c`. A file is a sequence of cells (a signature, the other
fields of a record, a name, a byte of data, a word of a descriptor, a value of the extra data), so that a write can
stop inside a record, and a record of the wrong kind is recognised by its cell. `zw` is the
`mz_zip_archive` with the writes its current call still has to make, `zg` what its caller
knows, `zlim` the values of `MZ_UINT16_MAX` and `MZ_UINT32_MAX`.

- Unit `archive`: an archive is made (`writer_init_file`) or opened and turned to writing
  (`writer_init_from_reader`), files are added (`add_mem`), the archive is finalized and closed.
  Every call of `m_pWrite` is a step, which may write less than it was given
  (`write_short`) or be the last one of the process (`process_stops`). Mode "inplace" is
  `mz_zip_add_mem_to_archive_file_in_place_v2`, mode "writer" a program that uses the
  writer itself. What a reader makes of the file is computed by operators
  named after the functions: `read_central_dir`, `file_stat`, `extract_to_mem`,
  `extract_to_callback`, `validate_file`, `validate_archive`.
- Unit `iter`: an entry, whole or damaged, is extracted by `iter_new`, reads with buffers of any
  size (`iter_read_stored`, `iter_read_packed`; `iter_round` is one turn of the loop) and `iter_free`.
- Unit `locate`: the heap sort of the directory (`sort_central_dir`), `binary_search` and the
  scan of `locate_file`, on all directories of up to five names of which some
  differ only in case or only in their path.

Abstractions: writes reach the file when they are made (stdio's buffer is not
modelled); compression makes an entry two cells shorter, and its last cell stands for three;
a CRC is the data, so it never collides. Four things the code does are excluded from
`ArchiveSound` rather than hidden:

- An archive that became zip64 does not pass `mz_zip_validate_file`: an entry
  without extra data has a 32-bit descriptor (`miniz.c:6528`), and the validation of a zip64 archive
  expects 64-bit ones (`miniz.c:5519`). Its entries extract correctly, which is
  checked.
- An entry whose size, but not its compressed size, is beyond 32 bits, and that starts
  beyond 32 bits, has its compressed size both in the header and in the extra data; the
  reader, which takes from the extra data only what the header does not say
  (`miniz.c:4343`), takes it for the offset (`TwiceStored`).
- A file that could not be added is overwritten by the directory that is put back, but what
  is longer than that stays behind the end record; when it is more than the reader looks
  through (`ScanReach`; 64 KB) the archive cannot be opened.
- With two faults (a file not added, then the process stopped while the directory is put
  back) a record of the old directory may be completed by what overwrote it: `MaxFaults` is one.

### Deflate, Inflate, TracePath

Data on the wire is a sequence of units (header, block header, literal, match, end of block,
raw byte, checksum) rather than bits: the bits are the subject of `Huffman`. All the control
is kept: the circular dictionary with its lookahead, lazy and greedy parsing, flushing
of the code buffer into blocks, raw blocks when a block does not shrink, output
that does not fit and is delivered by later calls, the statuses of `mz_deflate` and
`mz_inflate`, the coroutine positions of `tinfl_decompress`, its read-ahead that is given
back, the window. `find_match` chooses any valid match, which covers the hash chains and probe
limits. Small sizes (`Dict` 8, matches of 2 to 4) make every wrap-around happen.

`TracePath` adds the plugin (`mem_cb`, `write_buffer`, `plugin_exit`,
`CompressStart`, `CompressWrite`, `CompressAgain`), the reader (`ReadChunk`, `InflateChunk`,
`ChunkInflated`, `get_content_of_trace`) and the sequence (`OpenTrace`, `RunTrace`). A byte
is a small number; a field of a record is one byte, but for the address, which has a low and a high half, because its
length differs: `write_address` writes both halves only for a riscv64 target (`qemu_plugin.c:182-188`), while
`read_transaction` always takes both (`hpdcache_test_trace_manager.h:222`). `write_value` writes nothing for a store of
128 bits (`qemu_plugin.c:263`), while `read_value` takes a value for each size up to 4. `SameRecord` says when the two sides agree, and
`ReplayFaithful` is about traces all of whose records they agree on (`Replayable`). The others are replayed wrongly
from the first such record on, although `qemu_plugin/README.md:44` says "This plugin is compatible with 32 and 64 bits"; run
`trace` has such targets and stores too, for which it checks that the compressor and the dictionary are right and that the replay ends. `starved` remembers that a
refill produced no byte: the reader does not check this and goes on with whatever its buffer
holds (hazard at `hpdcache_test_trace_manager.h:188`), so the properties stop
there. It happens when a chunk of the file (5 MB in the code) holds nothing that inflates
to a byte, for instance only the end of the last block and the checksum.

## 3. Runs

| Run | Instance | Shows |
|---|---|---|
| `direct` | one way, 2 lines, 2 beats, 2 requests, one entry everywhere | maximal conflict: every miss evicts; data correctness, no lost store; the copy that is captured, forwarded and written back is the evicted line; refinement of `VbufSpec` |
| `assoc` | one set of 2 ways, 3 lines, 2 MSHR entries, coalesce buffer of 1 | a dirty victim, selected with PLRU while two misses are outstanding, is captured before it is replaced |
| `sets` | two sets, all operations, both write-policy hints, memory errors | structure: directory, MSHR and replay table agree; requests are conserved; waiters have a cause; no table is written beyond its size |
| `live` | one way, loads, prefetches, stores and AMOs | every request is answered |
| `rtab` | 3 entries, 2 lines, 4 identifiers | the linked lists implement the queues of `ReplayQueue`; no entry is orphaned or in two lists; the assertions in the code hold; the inductive invariant of the proofs |
| `testbench` | 2 addresses (one in an error segment), 2 identifiers, 2 transactions (3 for the trace sequence), at most one wrong answer, any reservation at the start | a correct cache raises no alarm; a wrong answer the scoreboard can know of is reported; identifiers and beats are accounted for; no write is lost at a full FIFO; the simulation ends |
| `units` | codes of 5 symbols limited to 3 or 4 bits, runs of code sizes, all match lengths 3..258 and distances 1..32768, all AMOs on 4-bit words, masks in all RAM layouts, 64-bit memory, 4 interrupts, archives of up to six entries in three calls with one fault | the algorithms against their reference definitions; the interrupt test tells a right core from a wrong one and ends; an archive never lists anything but complete entries, and can be opened once it was finalized |
| `trace` | 2 accesses of one byte or 128 bits, a 32-bit and a 64-bit target, dictionary of 8, chunks of 8 units, output of 3 | what is replayed is what was recorded, where plugin and reader agree on the records; the dictionary holds what matches refer to; the replay ends |
| `random_stale_safe` | `assoc` with random replacement | **violation**, finding 1 |
| `amo_vs_vbuf` | `direct` with AMOs and one beat | **violation**, finding 2 |
| `fill` | unit `fill` with memories of 128 and 256 bits | **violation**, finding 3 |
| `trace_exit` | `trace` with a buffer that a record fills exactly, so that it is empty at exit | **violation**, finding 4 |

Bounds of the cache. Two requests in flight are the fewest with which one can be on
hold while another moves; three lines are the fewest with which a two-way set
evicts; two beats are the fewest with which a capture can be interrupted; two
values tell old data from new. Resources of size one make "full" frequent, and
`assoc`/`sets` give the MSHR two entries so that refills overtake each other (no miss
is pending without a way of its own, so that a full MSHR is met in `direct` and `live`). Of `TablesBounded`, run `sets` exercises the limits
of flush directory, coalesce buffer and refill FIFO; a full replay table with a request at its door is met in `rtab`, and the theorem
`TablesAreBounded` covers all tables and sizes. The
number of in-flight requests (`Tids`) bounds every queue; no counter is cut off.
Lines of one set and transaction identifiers are interchangeable, and no action or
property orders them, which justifies `Symmetry` in the safety runs; `live` does
not use it. In `rtab` three entries allow a list with a middle, or two lists, and a
fourth identifier is what it takes to have a request at the door of a full table.

Bounds of the test environment. `MaxTrans` cuts the sequences: two transactions give a
pair on the same or on different addresses in every order, and a LR with a request between
it and its SC makes three in the sequences that do this (`Gap`). Words of one bit (`W`)
are enough to tell a stale word from the current one. `RespFifo` is one instead of two,
`AmoFifo` two, `DutDepth` two. The codes of `units` have a limit that the counts 0, 1,
2, 5 exceed, so that the shortening of codes happens, and a fast table (`Fast` 2) shorter
than the longest code, so that the tree is used. `Extra18` and `SizeBits` are the widths 7 and 3 of the
format scaled down, so that runs reach the limits of the symbols within the inputs. `MaxBombs` and
`Rows` are one: one random interrupt while the matrix is multiplied. In `trace` the two
records overlap in all fields or in none, the buffer of 6 fills in the middle of a
record, and a chunk of 8 units ends inside a block. The three archives of
`ZipSmall` are one far from all limits, one in which the third entry exceeds the 16-bit count,
and one in which entries and offsets exceed the 32-bit fields; `MaxCalls` 3 allows an archive to be made, hurt, and opened again to be
extended, `MaxAdds` 2 a file that is added after one that failed. `IterDict` 4 and `IoBuf` 2 make
the buffers of the iterator wrap and run empty inside an entry of six cells.

Deadlock is checked in the runs on the cache and on the replay table. It is off in
the others, where the simulation, the trace or the unit comes to its end and stops
(`Terminates`, `ReplayEnds` and `IrqTestEnds` say that it does).

Data properties (`LoadsSeeLatest`, `NoLostStore`) are checked without memory
errors, with one set and with write-back hints: with two sets, failing refills or write-through
hints finding 1 appears with PLRU too (see below).

## 4. Findings

1. **The safe flag survives its capture** (`hpdcache_vbuf.sv:303`). `wb_done_fire`
   frees the entry but not `safe_valid_q`; only the miss that replaces the line
   clears it. If the replayed miss picks another way, the line stays cached and
   flagged; it can be dirtied again, and when it is chosen as victim later the flag
   is still set, so it is overwritten without a capture. `hpdcache_ctrl_pe.sv:792`
   states the opposite. Run `random_stale_safe` shows it with the random policy
   (selected in `rtl/syn/hpdcache_wrapper.sv`). It is not tied to that policy: with
   PLRU, TLC reaches it with two sets, one MSHR entry and three requests (the replay
   of the waiting miss is delayed past the end of the write-back, the line is stored
   to, then replaced), with failing refills, and with a single way when loads may carry a
   write-through hint (the hit of such a load flushes the line while the buffer captures it, so that the replayed
   miss finds it clean and does not use the flag up). With one set, write-back hints and no errors PLRU
   makes the replay choose the captured way again, and runs `direct` and `assoc`
   pass.
2. **An AMO does not wait for the victim buffer** (`hpdcache_ctrl.sv:833`).
   `st1_no_pend_trans` and `rtab_no_pend_trans` leave the buffer out, so an AMO is sent
   to memory while a dirty line, possibly its own, is still to be written back.
   `docs/source/amo.rst:96` and `hpdcache_ctrl_pe.sv:641` promise that it is the
   only pending transaction.
3. **The scoreboard does not take over a whole memory beat** when the memory is wider
   than 64 bits (`hpdcache_test_scoreboard.h:944`). The index of the first word is
   the address divided by the bytes of a beat instead of by 8, and the shift counts are
   taken from the position in the beat. Bytes that stay "unknown" are never
   compared. Run `fill` shows it for 128 and 256 bits; the comment at line 947
   promises all bytes. With 64 bits the result is right (run `units`).
4. **The plugin may not finish its stream** (`qemu_plugin.c:84`). The loop condition
   `offset < buffer_begin - 1` compares `size_t` values: with an empty buffer at exit the
   loop never ends, with one byte it is not entered, so that byte, the end of the
   stream and the checksum are missing. The comment at line 397 says that the stream
   is closed. Run `trace_exit` stops at the empty buffer, the
   first of the two that TLC meets; `trace` checks the streams that were finished.

## 5. Fairness

The victim buffer's reads have the lowest RAM priority but `capture_pending_o` stops stage 0,
so the pipeline drains and they are granted; the write arbiter and the memory are
assumed to serve every master. This is the strong fairness of `VbufStep` below.

`Hpdcache`: weak fairness of the pipeline (stages 1 and 2, fences), which advances on
every clock that does not freeze it, of the handlers and of the memory. Strong
fairness where something is enabled again and again rather than for ever: a
round-robin arbiter (`hpdcache_rrarb`) chooses which ready request is replayed
(`AcceptReplay(l)`) and which request waiting for an MSHR entry or a way a refill
wakes (`RefillGrants(l)`); `Refill` has priority over replays and new requests in
stage 0; `VbufStep` happens between the passes of a request that is replayed while the
buffer is busy. Nothing is assumed about the core: `AcceptCore` has no fairness,
and aborts are a free choice. No memory errors in the run `live`: if the memory
failed for ever, requests retried after each other's errors could take the MSHR entry
from the same waiter every time.

`Testbench`: weak fairness of the whole next-state relation: the SystemC kernel
advances as long as a thread can run. Nothing more is needed, because every thread
works off a finite number of transactions. `Terminates` excludes a cache that gave a
wrong answer, which may leave the testbench waiting.

`TracePath`: weak fairness of the next-state relation (plugin and reader are single threads), and
strong fairness of `plugin_exit`: the guest exits in the end.

`TbUnits`: weak fairness of `RunIrqTest`, the steps of core, generator and program;
none of `CoreFault`.

## 6. Proofs

`VbufProofs` proves, for any set of lines, ways and values and any number of beats:

| Theorem | Statement |
|---|---|
| `VbufInvariant` | `VbufSpec => []VbufInv` |
| `VbufTypeCorrect` | `VbufSpec => []VbufTypeOK` |
| `CaptureIsConsistent` | `VbufSpec => []CaptureConsistent` |
| `CapturedCopyIsExact` | `VbufSpec => []CapturedCopyAgrees` |
| `BurstIsVictim` | `VbufSpec => []BurstFollowsVictim` |
| `SafeFlagIsFresh` | `VbufSpec => []NoStaleSafeFlag` |
| `WriteBackIsExact` | `VbufSpec => WriteBackIsVictim` |

Assumption: `VbufAssumption` (at least one beat, a way and a value exist, `NoLine` is
not a line). Argument: `VbufInv` is the conjunction of the five invariants, which are
inductive only together. That the copy in the buffer is the victim needs that the
way being captured keeps its contents (`CaptureConsistent`); that needs that a line
is in one way only and is not captured twice (`NoStaleSafeFlag`), because the guard of a store
names the line and not the way; the write-back needs the order of the beats
(`BurstFollowsVictim`) and that gives the type of what memory receives. One lemma per
conjunct, one step per action.

`RtabProofs` proves, for any number of entries, lines and requests:

| Theorem | Statement |
|---|---|
| `RtabInvariant` | `Spec => []RtabInv` |
| `RtabTypeCorrect` | `Spec => []TypeOK` |
| `ListsStayWellFormed` | `Spec => []ListsWellFormed` |
| `FenceStaysAlone` | `Spec => []FenceAlone` |
| `RtabAssertions` | `Spec => []AssertionsHold` |
| `ListsAreComplete` | `Spec => []AllListed` |
| `NoEntryOrphaned` | `Spec => []NoOrphan` |
| `QueueInvariant` | `Spec => []QueueInv` |
| `TableImplementsQueues` | `Spec => ImplementsQueues` (the refinement of `ReplayQueue`) |

Assumptions: `NAssumption` (at least one entry), `SingleEntryAssumption`,
`NoneAssumption` ("none" is neither a request nor a stage 1 with a request). Argument, in three
layers. The first is about single links, and inductive by itself: `ListsWellFormed` says
that a link leads to a valid entry, that no two links lead to the same one and
none to a head or to the entry being popped, that the pop state machine is where stage
1 is, and that a line has one tail; the last needs that no fence is in the table
when a core request is linked (`FenceAlone`), since a fence is a tail as well. `Room` carries
`~full_o` from the cycle a request is accepted to the one it is allocated, so that
`FreeEntry` exists (`FreeEntryIsFree`, from the well-foundedness of the naturals).

The second layer is about whole lists. `Chain(e)` follows the pointers step by step, so it cannot be
carried through a step as it is; `Laid(P, ...)` says what an explicit layout `P`, a sequence of entries for
each start, must satisfy: it begins at its start, each entry but the last is linked to the following one, only the last is a tail,
no entry is on two lists or twice on one, every valid entry is on one, and all are for the line of the start.
`LaidIsLinked` shows that such a layout **is** the lists the pointers form (`IsList` determines the sequence, `OnlyList`; the
values of the recursive function `Follow` are reached by induction, `SetInduction`, from the least
counterexample). Each action is then an operation on the layout: `alloc_i` adds a list of one entry
(`LaidAlloc`), `alloc_and_link_i` appends to the list of the line (`LaidLink`, where `Popped = {}` while a
core request is in stage 1 is what keeps it from a list that is being popped), `pop_commit_i` takes the first
entry away (`LaidPop`, `LaidLast`), the others change nothing. `AllListed` says that the lists of the table are such a layout.

The third layer is the refinement. `FenceLast` adds what the fence needs: once its dependency is cleared, it is alone in the
table, so a fence is never replayed ahead of older requests. `QueueForm` gives the queue of a line as the requests of its one list
followed by its fence, `QueueHead` says that the request in stage 1 is the oldest of its line. `QueueAlloc`,
`QueueLink` and `QueueCommit` show each of the three actions that change the table to be `Enqueue` or the successful
`Replay`; every other step leaves all queues alone (`QueuesKept`).

`HpdcacheProofs`, for any number of lines, ways, sets, beats, requests and table entries,
all operations, memory errors and both victim policies:

| Theorem | Statement |
|---|---|
| `ControlInvariant` | `Spec => []ControlInv` |
| `HpdcacheTypeCorrect` | `Spec => []TypeOK` |
| `DirectoryIsConsistent` | `Spec => []DirectoryConsistent` |

Assumptions: `VbufAssumption`, `HpdcacheAssumption` (sizes, each line has ways and the ways of two
lines are the same or disjoint) and `NoneAssumption` ("none" is no request and no entry).
Argument: that a refill finds the way it was promised, and that a line is not fetched while it is
cached, is decided in stage 1 and used when the memory answers. `ControlInv` adds to
the two properties what lies in between: what stage 1 found out about a line still holds when stage 2 acts on
it (`Stage2OK`), the way being captured is not taken under a request in stage 1 (`CaptureOK`), a refill in the FIFO belongs to one
outstanding miss (`FifoOK`), and whoever replays an entry finds it in the list of its line (`QueueOK`).
`TypeOK` is about types only; that no table is written beyond its size is `TablesAreBounded` below.

The second part of `HpdcacheProofs` is about the data, with the assumption `NoAmo` (`"AMO" \notin Ops`; with AMOs the statements are false,
finding 2):

| Theorem | Statement |
|---|---|
| `CacheImplementsVbuf` | `Spec => VbufSpec` |
| `VbufInvariantInCache` | `Spec => []VbufInv` |
| `CacheWriteBackIsExact` | `Spec => WriteBackIsVictim` |
| `DataInvariant` | `Spec /\ DirtyVictimCaptured => []DataInv` |
| `LoadsAreFresh` | `Spec /\ DirtyVictimCaptured => []LoadsSeeLatest` |
| `StoresAreKept` | `Spec /\ DirtyVictimCaptured => []NoLostStore` |

The refinement mapping is the identity; each step of the cache is shown to be a step the environment
of the buffer may take, or to leave `vbufVars` alone, from `ControlInv` and `VbufInv`. So
every theorem of `VbufProofs` carries over to the cache. The last two are conditional for a
reason: `DirtyVictimCaptured` is what finding 1 refutes in some configurations (random
replacement, several sets, failing refills). They say that this is the **only** way to lose
a store or to answer a load with an old word: a repair that restores `DirtyVictimCaptured` restores the data.
Run `assoc` checks `DirtyVictimCaptured` on an instance where it does hold, and run `direct` the
conclusion without condition. `DataInv` says that every copy that may still be read (way, victim buffer, flush,
refill FIFO) is the newest, and that a line that is not up to date in memory has a dirty way, is in the victim buffer or
is being flushed.

`HpdcacheRequestProofs`, all operations:

| Theorem | Statement |
|---|---|
| `RequestsAreConserved` | `Spec => []RequestConservation` |
| `NoWakeUpIsLost` | `Spec => []WaitersHaveCause` |
| `UncachedRunsAlone` | `Spec => [](uc # None => ...)`: while an AMO is performed, MSHR, flush controller, replay table and pipeline are empty |
| `AloneInvariant` | `Spec => []AloneOK`: the same from the release of an AMO that was on hold |
| `BoundInvariant` | `Spec => []BoundInv` |
| `TablesAreBounded` | `Spec => []TablesBounded` |

`RequestInv` counts: each identifier has one place, and places are exclusive. `WaitInv` relates each
dependency bit to its cause. The proof attempt corrected the property: a request that waits for an
MSHR entry or a way and is not chosen by the arbiter of a refill may find no miss outstanding; the one
chosen will then bring about the next refill (`WillMiss`). `UncachedRunsAlone` shows that finding 2 is about
the victim buffer and about nothing else: everything else the documentation promises an AMO does hold.
`BoundInv` counts what is in a table together with what is on its way to it: a miss or a flush in stage 2, a core request in stage 1. The room for
these was checked when they were let in, one or two stages earlier, and only the counts together are inductive. An AMO that flushes a dirty line does not check
the flush controller (`hpdcache_ctrl_pe.sv:653`); the flush directory is empty then because of `AloneOK`, and because a core AMO does this
only without pending transactions. The coalesce buffer and the refill FIFO are bounded in the same way; the sum over
the lists of the replay table changes by one element at a time (`ListGrows`, `ListsShrink`).

`UnitProofs`: the interrupt test, for any implemented interrupts, words and masks:

| Theorem | Statement |
|---|---|
| `VerdictIsTrue` | `IrqSpec => []IrqVerdict` |

`IrqInv` has two halves, one while the core has behaved (`Behaves`: what is pending, raised and sampled agree with
what the program expects at each of its positions) and one after a fault that must be noticed (`Fails`: the status
is already an error, or the program is on a path that sets it). The lemma the rest hangs on is
`HighestFirst`: the interrupt the controller picks is the first of the test's table that is
pending and enabled. Assumption `Reserved # {}`: the program writes `0xFFFFFFFF`, so its word has bits of no interrupt.

`TraceProofs`: the whole way of a trace, for any sizes of dictionary, matches, code buffer, input buffer, chunks of the
file and output buffer, any accesses of the guest and any choice of matches and of raw blocks:

| Theorem | Statement |
|---|---|
| `DictionaryIsKept` | `Spec => []DictionaryHolds` |
| `FileIsTrue` | `Spec => [](StreamEnded => Encodes(file, 0, Len(Stream), Stream))` |
| `FileIsPrefix` | `Spec => [](\E m \in Nat : Encodes(file, 0, m, Stream))` |
| `NeverRefused` | `Spec => [](ppc # "failed")` |
| `FileIsFramed` | `Spec => [](StreamEnded => Framed(file, AtStart, AtEnd))` |
| `RecordIsRead` | the bytes written for an access with `SameRecord` are one record for the reader, which gives the transaction of the access |
| `ReplayIsFaithful` | `Spec => []ReplayFaithful` |

The recorder. `RecorderInv` is `DictionaryHolds` for an arbitrary stream (`DictHolds`), with the room that is left beside the lookahead,
and `NothingSkipped`: the first `pos + look` bytes of the stream are in the compressor, the next in the input
or the buffer, the last in the record. `DictionaryHolds` alone is not inductive: that the bytes moved into the lookahead
are the next ones of the stream depends on the order in which the plugin refills and reuses its buffer.
`SenderInv` adds that the codes of the block under construction stand for the stream from its start to the
lookahead, but for the byte before it while a match is put off there (`Sent`), that file, output buffer and units that wait
stand for what comes before (`WireTrue`), and that the compressor is finished only with all of the stream
(`SenderControl`: the last block is made with an empty lookahead, so that no match is put off any more). `Encodes`
follows positions; header, block headers, end of block and checksum stand for no byte. `WireInv` adds their order: `Framed`
says that each unit leads from one place of the format to the next (before the header, between blocks, in a raw block with so many bytes to
come, in the codes, before the checksum, at the end), and the invariant is about file, output and waiting units together, because a
block is often in all three. Its part `Shape` bounds the distance of matches, also of one that is put off.
Assumption `SizeBuffer # 1` (`SIZE_BUFFER` is 5000): a buffer of one byte would be thrown away each time
(finding 4 is about the last one). The minimum of a match is two bytes at least, as everywhere in the code.

The reader. When it opens a complete file, `FileIsTrue` and `FileIsFramed` give each unit a position in the
stream and a place in the format (`Path`); from there on the file is fixed and the proof is about where each layer is in it. `Inflating` says that the units not
yet decoded are those in the bit buffer, in the input and in the rest of the file (`Unread`: read-ahead that is given back
changes nothing), that the coroutine is in the state that fits its place, in the middle of a match or a raw block too (`Doing`: a match may stop at the end of
the window and go on at its start, so the source of the copy is right only modulo `Dict`), that the window has the last
`Dict` bytes at their places modulo `Dict` (`Window`), and how many of them are not delivered yet (`Owed`). `Ending` says that an end of stream is
reported only when everything was delivered. `Buffered` is the buffer of the reader: what is left in it, and while it is refilled what the call has given (`Given`),
are the next bytes. `Recorded` cuts the bytes used so far into whole records and the beginning of one; `WholeRecord` shows
that `Whole` recognises exactly the last byte of a record, although its length is known only from its fifth byte, and that the fields read are those written. Both need `Replayable`: a
riscv64 target and no store of 128 bits; the theorems about the file do not.
`ReplayInv` joins them: nothing is read before the plugin has closed the file. The checksum plays no part: a mismatch would keep
the replay from ending, not change what is replayed. That the replay does end is `ReplayEnds`, which TLC checks.

`TestbenchProofs`, for any addresses, identifiers, number of transactions and FIFO depths, whatever the
reservation buffers hold at the start:

| Theorem | Statement |
|---|---|
| `BeatsArePaired` | `Spec => []BeatsPaired` |
| `IdsAreAccounted` | `Spec => []IdsAccounted` |
| `HandshakesAreKept` | `Spec => [](bug = None /\ ~phantom => NoHandshakeLost)`, assuming `Cardinality(Addr) <= ReqFifo + 1` |

Assumptions: the named ones of the testbench modules; `NullptrAssumption`, `ChannelAssumption` and
`TbNoneAssumption` say that the null pointer and "none" are no requests, responses or entries. `BeatsPaired` is about
a memory that has lost no handshake, `IdsAccounted` about a testbench that is `Sound`. Argument, in three
layers. `TbBase` holds whatever the cache answers: types, the hand-over between sequence and driver (a
transaction is in one place), identifiers in use, and `Paired`: reading the write channels from the memory
towards the device, addresses and beats carry the same identifiers in the same order, whichever channel is ahead.
While `bug = None` and the testbench is sound, `InOrder` holds as well: the requests of the device are the table of requests
(`QueueOK`), an atomic is alone in the device (`DeviceOK`), each memory channel holds what the miss set, the write
buffer and the atomic have outstanding (`ReadsOK`, `WritesOK`, `AcksOK`), and the two FIFOs of the scoreboard for
atomics follow the memory (`AtomicsOK`, `ReservationsOK`). The identifiers are freed by a response to a
request in the table only, hence `IdsExact`. The third layer is `HandshakesAreKept`: the cache has one write at most in flight for
each address, all of them in the write channels, so that with `Cardinality(Addr) <= ReqFifo + 1` no request is driven while a
thread holds one.

`TestbenchVerdictProofs`, under the same assumptions:

| Theorem | Statement |
|---|---|
| `NoFalseAlarms` | `Spec => []NoFalseAlarm` |
| `NoSilentBugs` | `Spec => []NoSilentBug` |

Argument: the scoreboard decides what a request must read when the request is driven, the cache when it is
performed, and the memory in between may still be writing earlier stores. `FindsAt(q, n, a, c, v)` joins the three: request
`n` of the device will find `v` at `a` if the word there, in the write buffer or else in memory (`Current(a)`), is
now `c`, after the stores that are ahead of it. `VerdictOK` holds while `bug = None`: outside the error segments, each word of `ram_m` is the one
the next request will find (`RamOK`), each entry of the table has the word its own request will find and the right error
flag (`EntriesOK`), what is cached is current (`CacheOK`), and what each read response, data beat and write response
on its way carries is what was asked for (`ReadsData`, `WritesData`). An atomic is the exception: between its write
in memory and its answer (`Changing`) memory is ahead of the cache and the scoreboard; it is alone in
the device then, so nothing can read the word, and `AtomicReadOK` keeps the old word until the answer. `ScData` says that the status of the
last write response, which the scoreboard keeps in one flag for all writes, is that of the SC when a SC is answered. From
`VerdictOK` every answer of the cache is `Expected`, so the right one prints nothing (`RightAnswer`) and
a wrong one that can be known is caught (`WrongIsCaught`): `Caught` is a message, or a request in the table that has left the device. Both
stay for ever (`CaughtStays`), and the driver ends only after a sample taken with an empty table (`EndOK`),
so only the message is left at the end. The two atomic units, of the scoreboard and of the memory, are shown to agree
on every operation and word (`AmoUnits`), whatever the width.

`Sound` enters in two places: `ReservationsOK` says that the reservation of the scoreboard is the one the device
has (what the buffer held before its first write is kept apart, and counts only for a SC that matches it: `phantom`), and a lost beat would shift the data of all later writes.

Only model-checked:

- all liveness properties (`EveryRequestAnswered`, `Terminates`, `ReplayEnds`, `IrqTestEnds`): fairness is beyond the prover;
- the data of the cache with AMOs (false, finding 2) and `DirtyVictimCaptured` (false in general, finding 1);
- `Huffman`, `Zip` and the units of `TbUnits`: what they compute is defined by recursion on their inputs, for which
  the prover has no induction. `FaultPlaced` and `FillComplete` are enumerated by TLC over all their inputs; `AmoUnitsAgree` on half words
  needs the laws of powers of two (on whole words it is the lemma `AmoUnits`).

## 7. Not modelled

In the cache:

- Uncacheable loads and stores, LR/SC, the CMO handler, ECC and the scrubber: each
  multiplies the outcomes of stage 1, and the instances of `Hpdcache` are at TLC's limit.
- Widths and identifiers on the memory side: a line is sent as the beats the buffer
  reads, each master receives its own responses. Refills arrive as one step with
  one error flag. The hazards about these have a note instead of a property.
- The write buffer: stores are forced to write-back, so the controller does not use it.
- Arbiters, prefetcher, FIFOs, adapters: free or fair choices and sequences where they are used.
- The instruction cache, and the core but for its interrupt controller: taken over unchanged,
  and independent of the data cache.

In the test environment:

- `simulate()` ending after `max_cycles`, performance counters, command line, messages,
  waveforms. The option `-s from_trace` is meant to come after `-f`.
- Uninitialised fields: `lrsc_buf_m` and `excl_buf_m` start with any value (`LrscInit`, `ExclInit`);
  the verdicts are stated until a SC matches such a reservation (`phantom`). `zalloc` of the stream at `qemu_plugin.c:51` is taken to be null.
- `ram_model` keeps 16 MB and aliases addresses above; the instances have fewer.
- The second `seg[3]` in the constructor of the unique-set sequence is modelled as written
  (segment 2 has no atomics).
- The cache directory model: compiled out (`hpdcache_test_scoreboard.h:38`, with a FIXME about races
  between refills and requests); its arrays are not initialised and its `reset()` is never called.
- Errors after the first one: the instance exits at the first (`ErrorLimit` 1), so what becomes of a request that was
  reported and dropped (`hpdcache_test_scoreboard.h:433`) is not checked.
- `GenericCacheData`: not used. `trace_writer`: compiled out, and writes other
  fields than the reader reads.
- Plugin: the text mode and `compress=false`, whose files the reader does not read; several
  vCPUs, which share the buffer without a lock.
- miniz archives: archives in memory and on the heap, files added from a callback, a `FILE` or another
  archive, alignment, comments, user extra data, and flags other than the defaults.
- miniz: PNG, one-call and heap interfaces, `mz_inflate` with `MZ_FINISH`: not
  called. `tdefl_compress_fast` is compiled out
  (`MINIZ_USE_UNALIGNED_LOADS_AND_STORES` is 0).
- The other test programs of the core: straight-line code and system-call stubs.
- The vendored FPU, the decoder and the arithmetic of the core.
