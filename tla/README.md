# A verification project for qwen-kernel

qwen-kernel serves one large language model (a 40-layer hybrid of delta-rule
recurrence and attention with a mixture of experts) from a consumer GPU. A C++
engine owns the GPU and offers a small C ABI of *slots*; a Rust server
(`qk-server`) turns HTTP requests into jobs for those slots, on one thread; and
in split serving the model is cut into two stages on two machines that talk over
TCP. This directory models the parts of it whose correctness is a matter of
order, sharing and failure, checks the models with TLC, and proves the most
important facts with TLAPS.

Line numbers refer to the files of this repository. `PROJECT.json` maps every
definition to the lines it stands for.

## 1. Inventory

### Components, their state and operations

| Component | State | Operations | Correct when |
|---|---|---|---|
| **Request front end** `server/src/http.rs`, `main.rs` | `AppState.queue` (a semaphore of `--queue` + slots permits), one tokio task per request with the receiving half of its event channel | `submit_generation` (permit, channel, job), `collect_generation` and the `stream_*` loops, disconnect by dropping the task, `ctrl_c` and graceful shutdown | each accepted request ends once and truthfully; permits are neither lost nor duplicated; shutdown ends |
| **Engine thread** `server/src/engine.rs` | `VecDeque<GenerateJob>`, `Vec<Option<SlotState>>` with a buffer of events per slot, `StepOut` | loop: take commands, `admit_jobs`, `flush_slot`, `step_chunk`, `handle_step`, failure branch | its slot table and the engine's agree; a stalled consumer stalls nobody; streams are exact under backpressure |
| **Slot ABI** `include/qk.h`, `server/src/ffi.rs` | slots, as the caller may know them | `qk_slot_start`, `qk_slot_cancel`, `qk_step_chunk`, `qk_close`; `qk_stage_run`, `qk_state_save/load` for split serving | a contract: who is active, how many tokens a call may emit, when `finished` is set |
| **qk_engine host side** `src/main.cpp` | `std::vector<Slot>` (cursor, pos, gen, outQ, finPending), GPU stripes of recurrent state and K/V rows per slot, scratch stripe, prefix cache with an LRU clock, n-gram index | slot start with restore, batched prefill and snapshot; `stepChunk` in three phases (drain, speculative rounds, serial steps); `specDraft`, `verifyRound`, commit; `snapshotSlot`, `matchPrefix` | output is greedy decoding whatever path made it; live state and snapshots hold exactly what their position or key says |
| **Command streams** `src/main.cpp` (`open`, `prefillBatchLast`) | activation buffers shared by all layers, per layer the stripes of both recurrent states, K/V rows and the conv carry, logits, indirect dispatch grids | the recorded step streams (one per depth of active slots), the batch stream recorded for every call, `verifyRound`, `promoteScratch`, `qk_stage_run`, `stageTopK`, `serialPrefillLogits` | no race between two barriers; every path leaves the state that single steps leave; every result read comes from its row's whole history |
| **Model loading** `src/gguf.h`, `src/main.cpp` (`open`, `upload`) | directory of tensors over one or more mapped shards, the staging buffer, device buffers | parse the shards, read the shape, load each owned layer, `upload` | buffers hold the bytes of their tensors; each is read by the kernel of its type; a complete model opens |
| **Harness modes** `src/main.cpp` (`serve-test` and its kin) | what a mode counts and compares | serve-test, serve-test2, serve-bench, stage-bench, cachetest, verify, speccmp, prefillcmp, prefilldecode, prefillbench, pipe | they call the engine as its contract allows, and their verdicts can be believed |
| **Split head** `server/src/split.rs` | `Phase` per slot (prefill or sequence), `WorkerLink` (stream, pending), snapshot registry with LRU clock | admission with mirrored restore, a pass (send phase, receive phase), the barrier (mirrored save, first token), failure branch | replies are matched to frames; both halves of a snapshot agree; a failure loses no consistency |
| **Pipe-worker** `src/main.cpp` | one connection, per-slot state and snapshots of the second stage | frames run, save, load, bye | answers in order, one per frame |
| **Text output** `http.rs` (`StopDetector`, `decode_tokens_lossless`), `tokenizer.rs` | text held back, stop strings | `push`, `take_ready`, `finish` | no text lost, no stop string shown, independent of how tokens arrive |
| **Anthropic endpoint** `server/src/anthropic.rs` | output parser, blocks of the stream | `fit_to_context`, parse, block events, retry | blocks open and close in order, tool calls are whole, nothing is shown twice or lost |
| **Tokenizer** `server/src/tokenizer.rs` | vocabulary, merges | encode (BPE), decode | decode is the inverse of encode |
| **Sampler** `split.rs` | SplitMix64 state | `sample_candidates` | (floating point) |
| **Chat template, server's GGUF reader** | none after start | render, parse | (formatting, file format) |
| **Metal backend, kernels** | GPU buffers | dispatches | (numerical) |

### How they interact

```
 HTTP task r ──permit── submit ──▶ cmds (mpsc) ──▶ engine thread ──ABI──▶ qk_engine
     ▲                                              │  slots[s].pending
     └────────── chan[r] (bounded, 64) ◀── flush ───┘
                                                     (or, in split serving)
                              split head ── frames over TCP ──▶ pipe-worker

 qk_engine ── records ──▶ command buffers ── submit / wait ──▶ GPU buffers
     ▲                                                            ▲
     └─ harness modes (the ABI, and the engine's own functions)   └─ upload ◀── gguf.h ◀── files
```

Handlers and the engine thread run concurrently and share the command channel,
the semaphore and one event channel per request. The engine thread is the only
caller of the ABI, so an ABI call is atomic to everything but time; handlers run
between any two steps of the loop. Dropping is communication too: a handler that
ends drops its receiver, a job or slot that ends drops a sender *and* the permit.

### What is hard about it

* **Backpressure without blocking.** The thread never waits for a consumer; what
  a full channel refuses stays in a buffer in order, and a slot whose engine work
  is done lives on until its buffer drains.
* **Two slot tables.** The engine frees a slot by itself when it reports it
  finished, the server may free one by cancelling: who frees when depends on
  whether the consumer vanished before, in or after the step that finished it.
* **Partial failure.** A failing step, a failing start, a broken link, a
  restarted worker: some requests fail, others must drain untouched, and every
  permit must come back.
* **State on the GPU.** Rejected drafts, idle slots that take part in every
  dispatch, restored prefixes and snapshots taken between steps all leave state
  behind that must not show.
* **Barriers by hand.** The two families of command streams record the same layers
  with different groupings between barriers, and most flags change the grouping.
  The activation buffers are reused by every layer, so a missing barrier or a row
  too few shows as a value of the layer before.
* **Files of any layout.** Tensors lie in any shard, at an alignment of the
  shard's own, in types that differ by layer; what is absent is taken for zero in
  some places and refused in others.
* **Tests that test nothing.** The modes compare an engine with itself; if both
  sides go the same wrong way, they report equality.
* **Two machines.** Replies outlive connections, halves of snapshots can diverge.

`PROJECT.json` lists these as hazards at their lines, with the properties that
would catch each one going wrong.

## 2. The modules

| Module | Models | Built on |
|---|---|---|
| `Requests` | the parameters all modules share | |
| `SlotEngine` | the slot ABI of `qk.h` as an abstract specification (`EngSpec`) | `Requests` |
| `ServerFrontend` | handlers, permits, channels, the slot buffer and `flush_slot` | `Requests` |
| `EngineThread` | `run_engine_thread`: the loop on top of `ServerFrontend` and `SlotEngine` | both |
| `SequenceLemmas` | lemmas on sequences, on `FlattenSeq` and on induction over numbers | TLAPS |
| `ServerFrontend_proofs` | lemmas about types, permits, streams and their ends that hold for both drivers | `ServerFrontend`, `SequenceLemmas` |
| `EngineThread_proofs` | theorems about `EngineThread` | `EngineThread`, `ServerFrontend_proofs` |
| `SplitServing_proofs` | theorems about `SplitServing`: its link and permits, and what its clients, stages and snapshots hold | `SplitServing`, `ServerFrontend_proofs` |
| `QkEngine` | the engine behind the ABI; implements `SlotEngine!EngSpec` | `Requests`, `SlotEngine` by `INSTANCE ... WITH` |
| `QkEngine_proofs` | theorems about `QkEngine`, the refinement among them | `QkEngine`, `SequenceLemmas` |
| `GpuChain` | the command streams of `open()` and `prefillBatchLast`, and the host calls that submit them | |
| `GpuChain_proofs` | theorems about `GpuChain` | `GpuChain`, `SequenceLemmas` |
| `Upload` | `upload()`: chunks through one staging buffer | |
| `Gguf` | `gguf.h`: shards, key-values, the directory, pointers into the mappings | |
| `ModelLoad` | `open()` from the files to the last weight | `Gguf`, `Upload` |
| `Upload_proofs` | the theorem about `Upload` | `Upload`, TLAPS |
| `Harness` | the command-line modes, as clients of an engine that may be faulty | |
| `SplitServing` | `run_split_engine_thread`, the link and the pipe-worker | `ServerFrontend` |
| `TextOut` | `decode_tokens_lossless` and `StopDetector`, as operators | |
| `MessageStream` | `stream_messages`: one streaming `POST /v1/messages` with its parser, its content blocks and its retries | `TextOut` |
| `MessageStream_proofs` | theorems about `MessageStream` and the operators of `TextOut` | `MessageStream`, `SequenceLemmas` |
| `MC*` | values of the constants for TLC | |

### How state and actions correspond to the code

**ServerFrontend.** `client[r]` is what the handler of r knows: not submitted,
refused (503), reading, or how it ended: `stopped` (a stop string completed in
the text), `eos`, `limit`, `error`, `gone` (disconnected). `chan[r]` is the tokio
channel, `cmds` the std mpsc channel, `permits` the free permits of the
semaphore, `slots[s]` the `Option<SlotState>` (`req = None` for the Rust `None`).
A token is the pair of its request and its number, so that a lost, repeated,
reordered or misdelivered one shows. `Submit`, `Receive`, `ReceiveClosed` and
`Disconnect` are the handler; a job may be submitted until `serve` returns, since ctrl_c leaves
requests at work that have not submitted theirs, or will retry; `FlushSlot` is `flush_slot` with the release of a
drained or closed slot; `SendError` is the single `try_send` of an error with the
drop of the job or slot that follows. `cut` is a history variable: the requests
whose Error event did not fit.

**EngineThread.** `pc` and `cur` say which phase of the loop the thread is in and
at which slot. Each phase is one action per slot, so handlers interleave between
any two ABI calls and any two flushes. `out` is `StepOut`; a slot's part of it is
reset when `handle_step` has consumed it. `StepOk` draws an outcome for every
active slot from `StepOutcomes`, the contract of `qk_step_chunk`: a silent prefill
step, or up to `Chunk` tokens, finishing at `max_gen` at the latest.

**QkEngine.** What is abstracted is the arithmetic of the transformer: the model
is a bigram function chosen at the start. What is kept is what every piece of GPU
state has been fed. The recurrent state of a stripe is the sequence of tokens fed
to it, a K/V row is the history it was computed from, and both become `Junk` when
fed out of step; a pass over them is `Feed`. `Start` is `qk_slot_start` with
`matchPrefix`, `restoreInto`, the two batched prefill legs and the fork snapshot.
`Call`, `SpecRound`, `SpecOver`, `Submit`, `TakeSample` and `Return` are
`stepChunk`. The n-gram hash is modelled by its only relevant property: the draft
starts behind the latest matching place, or behind any place (`Collisions`).

**GpuChain.** The other half of the engine: `QkEngine` takes a pass over the model
as one step, this module takes it apart. A command buffer is a sequence of epochs,
the dispatches between two barriers; the dispatches of an epoch run in any order. A
dispatch is known by what its descriptor set lets it read and write and by the rows
its grid covers. An activation is the name of a quantity and the layer it was
computed for, or `Stale`; a dispatch that finds another quantity or layer than it
needs leaves `Stale`. A stripe of state is the history folded into it, or `Bad`.
`Submit` starts the next command buffer of the host operation, `Epoch` runs one
epoch, `Finish` is the return of `submitWait` with what the host then reads. The host
operations are `Admit`, `Prefill`, `Step`, `Verify`, `StageRun`, `StageTopK`,
`SerialPrefillLogits` and `Release`; each puts the submissions it makes into `todo`.
`cfg` holds the flags `open()` reads (split-K, live dispatch, fused and grouped
kernels, `QK_ATTN_GROUP`) and the layer at which a pipeline is cut.

**Gguf, Upload, ModelLoad.** A file is a record of its version, key-values and tensor
infos; what is kept of the format is every length the reader has to step over to find
the next thing, so an offset computed wrongly finds a wrong byte. A byte is the name
of its tensor and its index. `OpenShards` is `Gguf::open`, `ReadShape` the metadata,
the cut of `QK_LAYERS` and the global tensors, `LayerMixer` and `LayerMoe` the two
halves of the loop over layers, and `CallUpload` the next of the uploads either
has planned. `Fill`, `Wait`, `Return` and `Copy` are `upload()` and the GPU, which makes a
submitted copy when it likes before the queue is idle. `ssm_ba` is divided into
alpha and beta by rows, as the code does. Every refusal of `open()` leads to `failed`.

**Harness.** The engine is its contract: a slot's state is what it was fed, and a
sample is the greedy token of that, right as long as the state is. A `fault` breaks the
contract in one place (a batched pass, a commit, a promotion, a restored prefix, a
neighbour's step), and makes the samples after it differ. Each mode is the actions of its
loop: `Stream`, `Admit`, `VerifyRound` and `SpecRound` for verify and speccmp, `HandOff` and
`Continue` for prefilldecode, and so on; `Report` is its return code. `legal` and `subjBad` are
history variables: whether each call kept the engine's preconditions, and whether a
compared sample came from a state that was wrong.

**SplitServing.** `head` and `worker` are the histories of the two stages per
slot, `headSnaps`, `workerSnaps` their snapshot entries, `snaps` the registry.
`link` is `WorkerLink.stream` with the difference between dropped (`down`) and
broken without anyone having noticed (`broken`); `wire` and `replies` are the two
directions of the connection, `pending` the link's own count. `Break` loses any
suffix of the replies under way; `Restart` empties the worker. A token sampled
from a wrong history has number 0, so `StreamsExact` sees it. The loop's phases
are separate actions, and a state operation is two (`AdmitLoad`/`AdmitLoaded`,
`BarrierSave`/`BarrierSaved`), because the link can break in between.

**TextOut.** A text is a sequence of characters, a token the text it decodes to. A
character whose bytes are split over two tokens is written as two characters
(`Split`), and `Decode` does what the code does to tokens that hold one half.
`Push`, `Taken` and `Finished` are the methods of `StopDetector` on a record of its
fields.

**MessageStream.** One handler: `det`, `parser` and `emitter` are the three objects
`stream_messages` keeps, `events` is what it has yielded. `Receive`, `ReceiveDone` and
`ReceiveError` are the arms of the inner `match`, `ParseRest` the lines after that
loop, `Retry` and `End` the decision after them. `Turn` is one turn of the loop of
`OutputParser::push`, and `ParserPush` takes turns until the loop is left: a turn that
does not leave it consumes a tag, so as many turns as the buffer has characters, and one
more, are enough. `TagAssumption` says of the two opening tags what `<tool_call>` and
`<think>` have: neither begins inside or at the head of the other. `parse_tool_call` is
abstracted to the set of texts it accepts (`Calls`), with repair and name
inference inside it. `ids`, `before`, `raw` and `rounds` record what the model said,
for the properties.

## 3. What the runs check

| Run | Instance | Shows |
|---|---|---|
| `engine_thread` | 3 requests, 2 slots, queue 1, channels of 1 event, chunk 2, one failing call | `StreamExact`, `EndsOnce`, `EndIsTruthful`, `PermitsConserved`, `SlotsAgree`, `TypeOK` |
| `engine_thread_live` | 3 requests of one token, 2 slots, queue 1, one failing call; fairness for the thread only | `GenerationEnds`, `VanishedFreed`: stalled consumers hold up nobody; `RequestsEndIfPolled`, `ShutdownIfPolled`: with handlers that are polled, requests end and the server stops |
| `qk_engine` | all 9 bigram models over 2 ids and Eos, 3 prompts with common prefixes, 2 slots, 2 cache entries, drafts of up to 3 | `OutputIsGreedy`, `LiveStateExact`, `SnapshotsExact`, `ImplementsABI`, `TypeOK` |
| `gpu_chain` | 3 layers (recurrent, attention, recurrent), 2 slots, contexts of 3, batches of up to 3 rows, 4 sets of flags, any 3 host operations | `RaceFree`, `StateAsSerial`, `VerifyKeepsLive`, `OutputsExact`, `TypeOK` |
| `model_load` | 10 models (one file or shards, both architectures, complete or broken), 4 cuts, 1 or 17 slots | `Uploaded`, `BuffersExact`, `KernelsFit`, `CompleteModelsOpen`, `TypeOK`; deadlock is checked |
| `harness` | 11 modes, a right engine and five wrong ones, all 9 bigram models, 4 prompts | `CallsLegal`, `NoFalseAlarm`, `VerdictSound`, `HarnessEnds` |
| `split` | 2 requests, 2 slots, 1 snapshot entry, two faults among broken links and worker restarts | `StreamsExactWithWorker`, `ExactUnlessMissed`, `SnapshotsMirrored`, `RepliesMatch` |
| `split_fair` | 2 requests of one token, one broken link, with fairness | `RequestsEnd`, `PermitsReturn`, `ShutdownCompletes` |
| `messages` | any model output of up to 5 tokens, at most 2 to an event, 2 stop strings, 1 retry | `CutAtStop`, `ContentExact`, `BlocksWellFormed`, `CallsEndTheTurn` |
| `split_lost_state` | with a restart | a violation, finding 1 |
| `messages_bytes_lost` | tokens that are halves of a character, no stop strings | a violation, finding 2 |
| `model_mixed_experts` | a model whose layers differ in the type of their experts | a violation, finding 3 |

`Harness` is about tests. `NoFalseAlarm` says that a right engine passes, `VerdictSound` that
a wrong one which was looked at does not: the verdict "equal" excludes that a compared
sample came from a wrong state. Both are stated with the exceptions the run brought up:
prefilldecode with M = 1, and faults of batched passes, which only prefillcmp can
see (section 5).

Every property of a passing run has a mutant: an operator beside the definition
it replaces that changes it the way a plausible bug would (`Mutant of ...`), under
which TLC finds the property violated in the same instance.

### Bounds and why they are enough

* *Requests and slots.* The interactions are pairwise (a neighbour's step
  disturbs a slot, a queued job takes a freed slot, a permit is contended for);
  three requests on two slots include a successor in a slot while the neighbour
  runs. With a queue of 1 a request waits
  in `admit_jobs`, and with fewer permits than requests one is refused.
* *Channels of one event.* The code has 64. What matters is full, not full and
  refused in the middle of a flush; with one event a buffer of two (tokens and
  Done) is split across the boundary in every possible place.
* *`Chunk` 2, `max_gen` 1 and 3.* A step may emit less than, exactly and more than
  what is left of a chunk; a request may end in the call that reaches `max_gen`, by
  EOS before or in the same call.
* *`MaxFaults` 1 or 2.* One failing call, or two faults of the link, so that a fault can
  meet the recovery from another.
* *QkEngine.* The thresholds of the code (16 rows for a batch, 8 tokens for a
  cached prefix, K up to 8) are scaled to 2, 1 and 3 so that short prompts have
  all cases: a prefix below and above the threshold, a batch with and without a
  tail, a draft accepted wholly, partly and not at all, Eos at each place of it.
* *The live run.* One token to a request and chunks of one keep `engine_thread_live` at
  a size where temporal checking is possible; what it is about (who waits for whom) is
  in the phases of the loop, the full channels and the queue, which are all there.
* *GpuChain.* A recurrent layer on either side of an attention layer has every change of
  layer kind. The attention chunk is 2 and the context 3, so a history takes one or two
  chunks; `GqaThreshold` 2 lets both attention kernels be chosen; `QB` 2 and `Budget` 4 tile
  a batch of three rows unevenly. Three host operations are enough for the state of one
  to be fed by another of a different kind with a third on the neighbour between. The
  configurations are the defaults, everything on, split-K off, and two stages.
* *ModelLoad.* The staging buffer holds 7 cells, so buffers take one, several and exactly
  filled chunks, and rows cross chunks. Alignments are the default, 8 by metadata, and
  different between shards. The types differ in values to a block and cells to a
  block, as the real ones do, at small numbers, so that a length taken for the
  wrong type shows.
* *Harness.* Prompts of 1 to 4 tokens with `MinBatch` 2 and `MaxB` 3 are batched, left to
  serial steps, or both; `Chunk` 2 ends streams within and at the end of a call.
* *SplitServing.* Prompts of 3 and 4 tokens with history boundaries inside,
  chunks of 1 and 2: a prompt takes several frames, alone and shared, and the
  second request's prefix is registered by the first.

* *MessageStream.* Tags are of two characters and come as one token, as parts, or
  joined by text on either side; stop strings are one and two characters long. Five
  tokens hold a text, a call and a closing text, two calls, an unfinished call, a
  stop string across events or inside a call, and a retry with a second round.
  `MAX_TOOL_RETRIES` is 2 in the code and 1 here: a round before and a round after.

`CHECK_DEADLOCK FALSE` is set everywhere but in `model_load`, where loading ends in an
explicit stutter and a stuck loader would be found: elsewhere, once every request has
ended, the thread has stopped, the calls are used up or the mode has reported,
the system rests. That it rests only then is what the liveness properties say.

### Fairness

`ThreadFair` is weak fairness of the loop as a whole: an OS thread that is never
blocked but in `recv` with nothing to do. It is all the specification of
`engine_thread_live` assumes, and all `GenerationEnds` and `VanishedFreed` need: that they hold
without any fairness of the handlers is the point. `HandlersFair` is weak fairness of each
handler's receive and of the end of `serve`: a tokio task is polled when its channel
has an event or has closed. It is the antecedent of `RequestsEndIfPolled` and
`ShutdownIfPolled`. No client is assumed to submit, to stay or to leave. In split serving the
worker works off what it has received and an abandoned connection is noticed in
the end (`WorkerGivesUp`); a connection that stays half open for ever (a host that
dies without a FIN) is outside the model, as the worker reads without a timeout.
A mode of `Harness` is one sequential process: weak fairness of `Next`. No strong fairness
is used.

## 4. What is proved

Every theorem holds for all values of the constants that satisfy the named assumptions of
the modules (`RequestsAssumption`, `SlotEngineAssumption`, `FrontendAssumption`, `FaultsAssumption`,
`SplitAssumption`, `QkEngineAssumption`, `GpuChainAssumption`, `TextOutAssumption`, `MessageAssumption`,
`TagAssumption`, ...): sizes are positive, prompts are not empty and fit their context, `max_gen` is
positive, a configuration is one `open()` accepts, the number of query heads is a multiple of 8 (it is
16, `src/main.cpp:3086`, and a group of heads is 1, 2, 4 or 8), stop strings and tags are not empty texts.
TLC evaluates each assumption on the instance of a passing run. The theorems by component:

| Component | Theorem | States, always |
|---|---|---|
| Engine thread | `TypeCorrect`, `SlotTablesAgree`, `StartFindsSlotFree` | `TypeOK`, `SlotsAgree`; a slot that is started is free |
| | `PermitsAreConserved` | `PermitsConserved` |
| | `EndsAreTruthful`, `StreamEndsOnce`, `StreamsStayExact` | `EndIsTruthful`, `EndsOnce`, `StreamExact` |
| Split serving | `RepliesMatched`, `SplitPermitsAreConserved` | `RepliesMatch`, `PermitsConserved` |
| | `SplitEndsAreTruthful`, `SplitStreamsStayExact` | `EndIsTruthful`, `StreamsExactWithWorker` |
| | `SnapshotsStayMirrored`, `AnswersStayExact` | `SnapshotsMirrored`, `ExactUnlessMissed` |
| Engine | `EngineInvHolds`, `EngineTypesHold` | the inductive invariant, `TypeOK` |
| | `LiveStateStaysExact`, `SnapshotsStayExact`, `OutputStaysGreedy` | `LiveStateExact`, `SnapshotsExact`, `OutputIsGreedy` |
| | `EngineImplementsABI` | the refinement `ImplementsABI` |
| Command streams | `TypesHold`, `NoRaces` | `TypeOK`, `RaceFree` |
| | `SerialState`, `LiveStateKept`, `ExactOutputs` | `StateAsSerial`, `VerifyKeepsLive`, `OutputsExact` |
| Model loading | `UploadedAlways` | `Uploaded` |
| Messages | `StopCutExact`, `BlocksInOrder` | `CutAtStop`, `BlocksWellFormed` |
| | `CallsAreLast`, `ContentStaysExact` | `CallsEndTheTurn`, `ContentExact` |

### The engine thread

*Types and tables.* The part of `TypeOK` with content is that no event channel exceeds its
capacity and that the buffers a flush leaves are sequences. `SlotsAgree` is not inductive. A slot
with a finished bit may look like agreement of any phase, so the phases other than `handle` must
know that no bit is outstanding, and within `handle` that none is left behind the current slot:
`OutHandled`. The inductive invariant `IInv` is `TypeOK /\ OutHandled /\ SlotsAgree`.
`PermitsConserved` is inductive together with the types; `ServerFrontend_proofs` has a lemma for each
operation on jobs and slots, over two about the cardinalities involved.

*Streams and ends.* `EndIsTruthful`, `EndsOnce` and `StreamExact` speak of a channel and of the
buffer behind it at once. What they leave out is where a request can be. `FrontInv` says that a
request is in one place only (not submitted, in the command channel, in the queue, in a slot, or
ended) and what its client and its channel may look like there; `ExactInv` that the tokens a client
has, its channel holds and its slot has buffered are, in that order, those numbered 1 to the number
generated; `OutOK`, per slot, that a `StepOut` not consumed yet continues that numbering. `StreamInv`
is their conjunction with `IInv`. The lemmas about handlers, flushes and errors are in
`ServerFrontend_proofs`, for the two drivers alike.

### Split serving

*Matching.* `RepliesMatch` says nothing of frames still on the wire or of the phases in which the
head waits for nothing; both matter, as a stray frame would be answered later. `MatchInv` adds
them: during a pass over a connection that is up, the answers followed by the unanswered frames
are those of `sent`, one for one; while a state operation waits there is one frame or one answer;
otherwise nothing is under way. Of a broken connection only a prefix of the answers is left.
`SplitInv` adds to the types that a job which waits for its restored prefix is still at the head of
the queue, and its slot free.

*Streams without a restart.* `CoreInv` is about the head alone: what each phase of the loop may find
in a slot, and the ends. `HeadInv` says what the head's stage holds of each slot and snapshot, and
`LinkInv` what each frame on the wire and each answer was made from. `Mirrored` says the same of the
worker: frame by frame along the wire, the worker's state after the frames before it is what the
frame assumes, and every whole snapshot entry is the registry's. It holds as long as the worker
has not restarted, and `SplitServingInv` is the conjunction. `SplitStreamsStayExact` and
`SnapshotsStayMirrored` follow.

*With restarts.* `Mirrored` is lost with the worker's memory. `ApartInv` says why no wrong answer
comes of it unless a fault was missed: what a restart spoils is not read before the head has
noticed. As long as no fault was missed, everything kept of the answers is its own request's
(`Sound`), and `WorkerInv` holds as long as the link is not broken. A frame of a pass that meets a
broken link aborts the pass and voids the registry, so that nothing in use depends on the worker's old
state when the next connection starts (`Fresh`). What remains is the state operation that swallows
the failure, which is what finding 1 is about and what `ExactUnlessMissed` excepts.

### The engine

`EngineInv` is the conjunction of the types (`TypeOK` and those of the cached snapshots and the call's
buffers), of `RequestsOK` (a request is in at most one slot, and what its caller has got is greedy), and
per slot of

* `SlotOK`: what the slot has generated is greedy decoding, and is what the caller got, then what
  the call in progress holds, then what is queued; cursor, position and count agree with it;
* `CallOK`: how far the call in progress has moved the slot on from its entry, in each of the call's
  phases;
* `MemOK`: a running slot's stripes and K/V rows hold exactly the tokens fed, and one more while
  its sample waits to be taken.

A batched pass is a recursive function over its rows; that it leaves what single steps leave is an
induction stated for a set of numbers, as the library's induction theorems take an operator.
`RoundKeeps` is a speculative round, with all, some or none of the draft accepted. `OneSlotKeeps` is
every step of a call that hands one slot on and leaves the others alone. The serial step is an argument
of its own, as idle and finished slots take part in it.

For the refinement, `Start`, `Cancel` and `Return` map to steps of the ABI and every other action to
a stutter. `EntriesShown` is needed besides `EngineInv`: what the ABI is shown of a slot during a call
is its entry, and a slot without a request at the entry is shown as free.

### The command streams

A stream is put together from few kinds of epoch: one dispatch, the dispatches of one of seven groups
of kernels over the same rows, or the two indirect attention dispatches (`Shape`). `StepShaped` and
`BatchShaped` say so of the streams that are recorded, for any layers, rows, tiles and flags; the layers
are joined by `FlattenSeq`. `GroupsApart` compares the descriptor sets within a group. What is left is
the pair of indirect dispatches, which both write `bAttScratch`: that they may share an epoch
depends on the host, and `TypeInv` says that of the two live grids one is empty. It also says that
every submission to come is a proper one (`IsCall`): the batches a prompt is cut into cover it and
fit (`BatchesOK`), for one stage and for two.

*What a stream computes.* `StateAsSerial`, `VerifyKeepsLive` and `OutputsExact` speak of the moments
between operations; the invariant `ChainInv` behind them has to say what holds between any two epochs.
It is built in three layers.

* A static analysis of a stream. `Know` records what is known between two epochs: which buffer holds which
  quantity of which layer in the rows that count, which layers' convolution, recurrence and keys are done,
  whether the carry window is seeded, which tiles and partial results are there. `Rule` says what an epoch
  makes of that, `Fine` that a whole stream leads from one such record to another, and `StepFine` and
  the lemmas about batches, by induction over the layers, that every recorded stream is `Fine` and
  ends with its results (`Ended`).
* Its soundness. `Models` relates a record to the memory; one epoch, in whatever order its
  dispatches run, preserves it. For the indirect attention grids this needs `Ready`: the grid
  covers the longest slot and every lane.
* The host. `Knows` says which histories the stripes and key rows hold between two calls, `CallRule`
  what a reset, a copy, a batch or a step call makes of it, and `Plan` that a sequence of calls leads
  from one such set of facts to another. Each host operation puts a plan into `todo` that leads from what
  `HeldBy(active, fed)` says before it to what it says after: for a prefill by an induction over its
  batches, over each range of layers for stages, and for `Verify` through the scratch stripe, with
  the two ends (promotion, replay) of a round.

`ChainInv` is `TypeInv`, `OutputsExact`, `TopOK` (the logits row that `stageTopK` would read is of the last
history) and `Underway`: there is a plan for the calls in `todo` from what is known now, or, while a
call runs, from what it leaves when it ends, to the histories that are announced.

### Upload

`Uploaded` speaks of the moment of return only. The invariant `UploadInv` adds what holds between: a
copy is outstanding only between `Fill` and `Wait` and is the chunk under way, the staging buffer
still holds that chunk, and everything before `off` has arrived. That is where the wait after each
chunk is needed: with it dropped, the next chunk overwrites the staging buffer under the copy.
`ModelLoad` uses `Upload` unchanged, so the theorem is about its uploads too.

### Messages

*Stop strings.* `CutAtStop` is about the moments between two events; what a detector may hold back
is not in it. `StopInv` says that as long as no stop string was hit, what the parser was given and what is
held are together the decoded text of the round, no stop string occurs in it, and what is held is its
last `HoldChars` characters (all of it, when it is shorter). The lemma behind it is `StopInNew`: a stop
string that occurs in the text after an event and not before it begins in what was held or later, so
that looking for it in `held` and the new text alone misses none and finds the same first place. With one
character less held (the mutant of `HeldBack`) that lemma fails.

*Blocks.* `BlocksWellFormed` compares neighbouring events. `BlockInv` says of the emitter what the last
event must be for its state: none or the end of block `index - 1` when no block is open, the start or a
delta of text block `index` when one is. `TextBlocks`, `CallBlocks` and `CloseBlocks` show that one parsed
item keeps it; a whole delivery is an induction over its items (`EmittedBlocks`).
It holds across retries because the emitter is the message's, not the round's.

*The parser in pieces.* `CallsEndTheTurn` and `ContentExact` compare what the parser did with a text in
pieces with what it means as a whole. `Whole(m, y)` is what parsing `y` at once gives a parser in mode `m`;
the items handed on, followed by `Whole` of the buffer and of any continuation, are not changed by a turn
of the loop (`TurnKeeps`), and so not by a push (`PushKeeps`). `TagAssumption` and the end of
the buffer that is held back are needed in two places: no tag begins in what is let go (`TagInHeld`),
and the tag that is first in the buffer stays first whatever follows (`FirstStays`). `RoundInv` says there is
a sequence `P` of the round's items that, with whatever comes, has the letters of `raw` and what
comes (`Accounts`), that `malformed` is its malformed items and `emitter.calls` the number of its calls,
and that the rounds before had no call. Every step leaves it alone, hands items on, retries, or ends the message
(`RoundSteps`); `CallsAreLast` is its last case.

*Content.* `ContentInv` says that, before the end, the deltas sent so far add up (`AddUp`) to what should be
shown (`Shown`) of the past rounds' letters and this round's. The emitter holds back blanks, so the
invariant has to say which: with a text block open, the text since the last call has a letter that is not
blank (`Alive`) and nothing is held; with none open, `blanks` are exactly the letters after the last call, all
of them blank (`Waits`). `ShownOther`, `ShownText` and `ShownFirst` say what a call, more text, and the first
text of a block add to `Shown`; `ShowsText`, `ShowsClosed` and `ShowsCall` that the emitter adds the same,
`RetryShows` that a retry loses nothing, and `EndShows` that what the parser has left at the end is shown.

### What is only model-checked

* Liveness, which is out of the prover's reach, as is `ENABLED`.
* `ModelLoad` apart from `Uploaded`, whose models are explicit files, and `Harness`.

## 5. Findings

1. **A swallowed state operation loses the worker's state** (`split.rs:829`,
   `542`). The doc comment of `run_split_engine_thread` (596-598) and
   `docs/split-serving.md:213` say that a worker failure fails every unfinished
   slot and voids the registry. That is so for frames of a pass. When the failure
   is met by a snapshot or a restore, the link is dropped but neither happens: if
   the worker restarted, requests decode on over state the worker no longer has.
   Run `split_lost_state`.
2. **Characters split over tokens are lost** (`http.rs:647`). `docs/server-spec.md:148-152`
   asks for incomplete bytes to be held for the next token. `decode_tokens_lossless`
   decodes every token by itself and skips one that is not valid UTF-8 alone;
   `Utf8StreamDecoder` (`tokenizer.rs:328`), written for the purpose, is used nowhere.
   Run `messages_bytes_lost`.
3. **The kernel of the gate and up experts is the last layer's** (`src/main.cpp:3918`). The
   comment there says they are "uniform across layers (checked per layer by
   loadMoeT)". `loadMoeT` (1283-1289) compares the two tensors of one layer; nothing
   compares layers, and after the loop `guIq4` is the last one's. A model with
   IQ3_XXS in one layer and IQ4_XS in another opens, and one layer is read by the wrong
   kernel. Run `model_mixed_experts`. For models whose layers agree `KernelsFit` holds (run
   `model_load`).

Met while modelling and not given a run:

* A failure can end as a normal `limit` (`split.rs:894`, `engine.rs:341`). The Error event gets
  one `try_send`; when the channel is full it is lost, the sender is dropped, and
  `collect_generation` ends with the finish it started from. `EndIsTruthful` is stated with
  this exception (`cut`).
* A malformed tool call beside a valid one vanishes from a stream (`anthropic.rs:1131`),
  where the comment on `leftover` (1032-1033) says nothing is silently lost and the
  non-streaming path (829-830) passes it on as text. The model drops it as the code does;
  `ContentExact` leaves the case open: it holds whether such calls are dropped or
  passed on at the end.
* `serialPrefillLogits` (`src/main.cpp:5343`) submits the recorded step stream without
  writing the indirect grids, which under `QK_ATTN_LIVE_DISPATCH=1` only `stepChunk` keeps
  up to date. Its comment (5376) takes it for the reference of prefillcmp; with that flag
  set the reference is wrong. `OutputsExact` is stated with this exception.
* The "all-serial" reference of prefilldecode (6897) goes through `qk_slot_start`, which
  prefills in batches as well: a batch that is wrong in itself goes wrong on both sides.
  `VerdictSound` is stated with this exception; prefillcmp is the mode that can tell.
* prefilldecode with M = 1 reports a divergence of a right engine (6914): the second slot's
  `max_gen` is looked at after a token is emitted, so it emits two.
* serve-bench takes "a call that emits nothing" for the end of prefill (5745-5747, 5789). When the
  batches leave a tail of the prompt to serial steps, it may stop early and report on
  fewer steps than asked for.
* `matchPrefix` starts from `bestLen = 8` and skips `L <= bestLen`, so a cached prefix
  needs nine tokens where the comment (`src/main.cpp:3547`) says at least eight.
* "At most 2 in flight" (`split.rs:66-68`), from which the comment concludes that
  there is no deadlock, is not what the send phase does: it sends a frame for every
  occupied slot before it reads one reply. No deadlock follows in the model, whose worker
  takes a frame off the wire before it answers and whose channels have no bound in bytes.
* `StopDetector::push` takes the first stop string *of its list* that occurs, so when
  one event completes two of them, text up to the listed one is shown even if the
  other occurs earlier in it (`http.rs:682`; `docs/server-spec.md:271-274`).
  `CutAtStop` says what holds: the cut is at the first occurrence of the stop
  string that is reported, and none was complete before the last event.

## 6. Not modelled, and why

* *Arithmetic.* What the kernels compute, within a workgroup and in floating point,
  the quantised formats and the sampler. `GpuChain` knows of a dispatch what it touches.
* *Metal backend, stub.* The first offers the same ABI through another API and has command
  streams of its own; the second is a test double that replays a fixed answer.
* *Creation of instance, device and pipelines, timing probes, the metrics thread.* No state
  the serving program depends on.
* *Benchmark cases* (single kernels against CPU references), scripts and manifests.
* *pipe's network client.* `Harness` has the pipe driver with its stages in one process;
  frames over TCP are in `SplitServing`.
* *Tokenizer, chat template, the server's `gguf.rs`.* Pure functions of text and files.
* *`Downstream::Local`* (both stages in one process) shares the loop of `SplitServing` and
  differs in where replies come from; it is left for later with failures of the
  head's own `stage_run`.
* *The non-streaming answer of `anthropic.rs` and `fit_to_context`.* Left for later.
* *SIGTERM* (`main.rs:118`): only ctrl_c starts a graceful shutdown. There is no behaviour of
  the program to model where there is no handler.
* *A worker whose head's host dies without a FIN* (`src/main.cpp:6391`) reads for ever: the model
  has no connection that stays half open.

## 7. Plan

In order of importance; 1 to 7 are done, but for what 8 names.

1. `ServerFrontend`, `SlotEngine`, `EngineThread`: the loop every deployment runs.
2. `QkEngine`: the engine, and that it implements the ABI.
3. `SplitServing`: two machines.
4. `TextOut` and `MessageStream`: from tokens to what a client sees.
5. `GpuChain`: the command streams behind the engine.
6. `Gguf`, `Upload`, `ModelLoad`: what the engine starts from.
7. `Harness`: what its tests are worth.
8. The rest of `anthropic.rs`: the non-streaming answer with the same retries, and
   `fit_to_context` as operators checked against their definitions; the
   other streaming endpoints' texts.
9. `Tokenizer`: the merge loop against a reference definition of BPE.
10. `SplitServing` with `Downstream::Local` and failures of the head's stage.
11. Proofs: `CallsLegal`, `NoFalseAlarm` and `VerdictSound` of `Harness`; `BuffersExact` and `KernelsFit` of `ModelLoad`.
