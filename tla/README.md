# TLA+ models of EK-KOR v2

This directory holds the TLA+ specifications kept beside the EK-KOR v2 Rust
sources, together with the TLC configurations that check them. The field
engine, the module coordination loop, the SPSC ring, the gossip receiver, the
Chaskey MAC builder and the desktop HAL are each a module, and each is translated from the code listed in `PROJECT.json` ("map").

## The system

| Part | Source | What it does |
|---|---|---|
| Field Engine / Field Region | `src/ek-kor-public/rust/src/field.rs`, records in `.../ek-kor2/rust/src/types.rs` | The region is a table of one `Field` slot per module id, plus a shared 32-bit update mask. `publish` overwrites the caller's slot and ORs in a bit. `sample` applies a piecewise-linear decay and refuses fields older than 5τ. `sample_neighbors` takes the health-weighted mean over a neighbour list. `gc` clears old slots. |
| Module | `.../ek-kor2/rust/src/module.rs` | Each module owns a field, up to 8 tasks and a 7-state lifecycle. `tick` runs 8 ordered steps: (1) heartbeat, dropping Dead neighbours; (2) sample the neighbours; (3) gradient; (4) consensus; (5) topology; (6) select and run one task; (7) publish the module's own field; (8) re-evaluate the lifecycle. |
| Topology / Heartbeat / Consensus | not in this tree | Collaborators the module calls. Their effect on a tick is modelled from `spec.md` as nondeterministic choices. |
| SPSC ring | `src/rust/src/spsc.rs` | Lock-free single-producer single-consumer queue. The head is published by the producer with Release and the tail by the consumer with Release. |
| Gossip | `src/rust/src/gossip.rs` | Version vectors. `emit` and `handle_event` do duplicate and gap detection with a 4-slot gap buffer; `merge_vv` merges a remote vector. |
| Chaskey MAC | `src/rust/src/auth.rs` | An incremental builder (`update`, `finalize`), one-shot `mac`, and `mac_message`. |
| HAL | `src/ek-kor-public/rust/src/hal.rs` | The `Hal` trait and its implementations. `PosixHal` has a mutex-protected message queue shared through `&self`, a receive callback run by `send`, and a mock clock that `delay_us` advances. `NoopHal` and `Stm32G474Hal` are stubs. |
| Pitch sample | `src/strategija/.../03-rust-state-machine.rs` | An illustrative snippet; not compiled as part of the crate. |

How the parts interact: an external driver calls `Module::tick` once per
period. In one tick the module reads every neighbour's slot in the shared
region, derives its Load gradient, and may run a task. It then writes its own
slot and sets its bit in the shared mask. Many modules share one region, and
each writes only its own slot. Gossip, the SPSC ring and the MAC are
transport-side building blocks that the coordination core does not call.

## Modules

* **`FieldEngine.tla`**: the region and the engine.
  * State:
    * `region`: id → `[load, age, source, seq]`;
    * `updateFlags`: the set of mask bits that are set.
  * Actions:
    * `Publish(m, v)`;
    * `Gc(maxAge)`;
    * `AdvanceClock`, the caller's clock.
  * Operators translating the code's pure functions:
    * `DecayFactor`: `apply_decay`;
    * `SampleOk` / `SampleVal`: `sample`;
    * `SampleNeighbors`, with `Contributors`, `WeightedSum` and `TotalWeight`;
    * `Gradient`.
  * Abstractions:
    * Fixed I16F16 becomes an integer scaled by `ONE = 2^FRAC`. Multiply and divide floor, and `from_num` rounds to nearest. `FRAC = 8` in the models keeps TLC's integers small.
    * A slot stores its age, not its timestamp. The clock enters only through the saturating `now - timestamp`, and ages are capped one past the largest age any caller distinguishes.
    * Only the Load component is kept; the other four go through the same loops.
* **`Module.tla`** (EXTENDS FieldEngine): one module in a cluster.
  * State: `state`, `myLoad`, `gradient`, `tasks` (priority, period, state), and `nbrs` (peer → Absent or health). The history variable `ran` records the task the last tick ran.
  * Actions:
    * `Start`, `Stop`, `AddTask`, `TaskReady(i)`, `TaskBlock(i)`, `UpdateField(v)`;
    * `Tick`, all 8 steps as one atomic step, because `tick` holds `&mut self` and `&mut FieldRegion`. This includes the early return when step 7's publish fails.
    * `Environment`: peers publishing, the gc owner, and the clock.
  * Helpers from the code: `SelectTask` (the loop of `select_task` as a left fold, including the `as i8` cast), `RunTask`, and `UpdateStateFromTopology` (the match arms in order).
  * Spec-modelled: the heartbeat (health changes, then Dead neighbours dropped) and the topology tick (neighbours lost or discovered as Unknown).
* **`Spsc.tla`**: the producer and consumer as two processes with program counters.
  * Each atomic load/store and each buffer access is its own step:
    * `push` = `PushCheck` → `PushWrite` → `PushPublish`;
    * `pop` = `PopCheck` → `PopRead` → `PopRelease`.
  * `Peek` and `DropRef` model a reference from `peek` held by the caller. `Reset` requires no handle alive (`&mut self`).
  * Items are 1, 2, 3, …, so any loss, duplication, reordering or read of an uninitialised slot is visible. A refused push is retried with the same item, because `Err(item)` returns it.
  * Every Release store is paired with an Acquire load, so the interleaving of these steps is sequentially consistent.
* **`Gossip.tla`**: one `GossipContext` (the receiver) and the peers whose events reach it.
  * State: `vv` (id → sequence, at most `VV_MAX_ENTRIES` entries), `localSeq`, `pending`, `buffered` (the gap buffer as a sequence) and `nbrs`. For the peers: `emitted` (how many events each emitted). History: `acceptCount` (how often each event was accepted) and `mergedUpTo` (the highest entry `merge_vv` raised each origin to).
  * Actions: `Emit`, `HandleEvent(e)`, `ClearPending`, `MergeVV(r)`, `AddNeighbor(n)`, `RemoveNeighbor(n)`; for a peer, `OriginEmit(o)`.
  * The network: `HandleEvent` may be given any event emitted so far, including the receiver's own, any number of times, in any order. Loss, duplication and reordering all follow from this.
  * `ProcessBuffered` is a RECURSIVE operator that follows the code's `while` loop, including re-examining the same position after a removal. `Merged` folds `MergeEntry` over the remote entries in order, because the order matters once the vector is full.
  * Helpers the context does not call are also modelled as operators: the LWW timestamp (`IsNewer` for `is_newer`, `LwwCmp` for its `Ord`, and `LwwTimestamp`). They are checked against the origins of the context's reachable vectors. `VVSummary` is not modelled (see below).
  * `VVCompare` translates `VersionVector::compare`. `CausalOrder` is the reference: the componentwise order over all ids, where a missing entry counts as 0.
  * An event is `[origin, seq]`. A remote vector given to `merge_vv` counts only events that were emitted.
* **`Fifo.tla`**: the abstract specification of a queue: `Enq(m)`, `Deq`, `Clear`, with histories `in`/`out` of what went in and came out since the last clear. Both queues below are shown to implement it: each defines a refinement mapping, `Abstract == INSTANCE Fifo WITH ...`, and checks `ImplementsFifo == Abstract!Spec` as a PROPERTY.
  * Spsc maps `q` to the slots `tail .. head-1` of the ring (`Queued`), `in` to the accepted pushes and `out` to the pops.
  * PosixHal maps `q` to the ids of the queued messages addressed to this module (`Mailbox`), in queue order.
* **`PosixHal.tla`**: the desktop HAL shared by several threads.
  * State: `queue` (id, sender, destination), `cbSet` (a callback is registered), `cbLock` (the thread holding the callback mutex), `mock` (`mock_time`, `None` = −1) and `real` (the real clock). Per thread: `pc`, `cur` and `dl`, for the calls that span more than one lock, and the history `dlFrom` (the clock value a mock-time `delay_us` found, forgotten at any `set_mock_time`).
  * Each statement that holds a `Mutex` is one atomic step. `send` is `Send` (push under the queue lock), then `LockCallback` and `RunCallback`: the callback mutex is taken after the queue lock is released, and it is held while the callback runs. `delay_us` is `DelayCheck` (test `mock_time` under its lock), then `DelayAdvance` (add to it under a second lock).
  * Actions also cover `broadcast`, `recv` (the first message for this module or for broadcast), `inject_message`, `clear_queue`, `set_recv_callback`, `set_mock_time`, `advance_mock_time` and the real clock's `Tick`.
  * Payloads and message types are left out: they are copied, never inspected. A registered callback returns without calling back into the HAL.
* **`AuthBuilder.tla`**: the incremental MAC builder.
  * State: `raw` (the raw key), `fed` (bytes given so far), `absorbed` (blocks processed, in order), `buffer` (`buffer[..buflen]`), `phase`, and `tag`. The history variable `updates` counts the update calls, capped at 2.
  * The k-th byte is the value k, so a block is the sequence of positions it holds. A tag is abstracted to its inputs: the absorbed blocks, the last block (with the 0x01 pad as `Pad`) and the subkey (K1 or K2). The permutation and the XORs are left out. The key schedule is modelled bit by bit: `LeWord` (`u32::from_le_bytes`), `TimesTwo` (shift across the four words with the 0x87 reduction) and `AuthKeyNew`. Words are functions `0..31 → {0,1}`, because TLC's integers are 32-bit signed.
  * Actions: `Update(n)` (the early return, then `CompleteBuffered`, the `AbsorbBlocks` loop and `Remainder`, in code order), `Finalize` and `NewBuilder` (the next `mac` / `mac_message`).
  * `ChaskeyRef(L)` is the reference: the message cut into blocks, with the last one K1 if complete and K2 padded otherwise. K1 = xK and K2 = x²K are computed as doublings in GF(2^128) of the key read as one 128-bit number (`GFDouble`), independently of the code's word layout.
  * `MC_AuthBuilder.tla` gives three raw keys: 0x42 repeated, a key with the top bit of every little-endian word set (so the carries between words and the reduction both occur), and 0xFF repeated.
* Spsc also models the queries `is_full`/`available` (`ProducerQuery`) and `is_empty`/`len` (`ConsumerQuery`). Each records what the caller was told in `pSaid`/`cSaid` until its next operation.
* MC modules: `MC_FieldEngine.tla`, `MC_Module.tla`, `MC_Gossip.tla`, `MC_AuthBuilder.tla` and `MC_PosixHal.tla` hold the model values. `MC_Module` also defines `MCView`, which leaves out the module's own slot. That slot is written by its own publish and aged by the clock, and nothing the module does reads it. The view is used only by the selection runs.

## Runs

| Run | Config | Expect | What it shows |
|---|---|---|---|
| fe_aggregate | `FieldEngine_aggregate.cfg` | pass | For all 64 neighbour/health assignments, and over every region three publishers reach, `sample_neighbors` is the health-weighted mean of the decayed samples. It is never above the exact mean and less than 3 ulp below it, and 0 exactly when no neighbour contributes. |
| fe_decay | `FieldEngine_decay.cfg` | violation | `DecayNeverRises`: with τ = 4, a field is worth 0.25 at age 3 and 0.5 at age 4. |
| module_lifecycle | `Module_lifecycle.cfg` | pass | `LifecycleMatchesNeighbourhood`: after every tick, Active has ≥ K/2 neighbours, Degraded has fewer, and Isolated has none. `StableNeighbourhoodReachesActive`: under a weakly fair tick, a neighbourhood that stays ≥ K/2 ends with the module Active (or never started, or stopped). `LifecycleEnds`: the state leaves Init only for Discovering or Shutdown, and never leaves Shutdown. Uses K = 7 and 3 peers. |
| module_selection | `Module_selection.cfg` | pass | `SelectionFollowsPriority`: every tick runs what the policy of spec §4.2 names. That is none when the gradient is below −0.2; otherwise the lowest number, with the first registered winning a tie. |
| module_priority | `Module_priority.cfg` | violation | `SelectionFollowsPriority`: a priority-200 task beats a priority-1 task. |
| spsc | `Spsc.cfg` | pass | Under every interleaving, with wrap-around and a full ring: `ImplementsFifo` (the ring refines `Fifo`: every pop returns the oldest accepted push, each once, and `reset` discards exactly what was queued) and `QueryStaysTrue` (a "not full" the producer was told stays true until it pushes, and a "not empty" the consumer was told stays true until it pops, whatever the other thread does). |
| gossip | `Gossip.cfg` | pass | Two peers with 3 events each, plus the receiver's own 3, with `merge_vv` of two remote vectors interleaved (one with entries for both peers, one with an entry for the receiver itself): `NoDoubleAccept` (an event is accepted once), `AcceptedMatchesVV` (the accepted sequence numbers of each origin, together with those a merge skipped, are exactly 1..vv[o]), `CompareMatchesCausalOrder` (in every reachable state, `compare` against every remote vector gives the causal order, including entries present on one side only), and `LwwOrdersAgree` (`is_newer` and `Ord` of `LWWTimestamp`, written separately, agree and order distinct timestamps totally). |
| gossip_reverse | `Gossip_reverse.cfg` | violation | `CaughtUpWhenAllDelivered`: events 3, 2, 1 leave 3 buffered and vv at 2. |
| auth_split | `AuthBuilder.cfg` on `MC_AuthBuilder` | pass | For each of three raw keys and every cutting of messages up to 40 bytes into updates of 0–9 bytes: `DataConserved` (each byte is in exactly one absorbed block or the buffer, in order), and `OneShotMatchesChaskey` (one update, then finalize, gives the reference tag at every length, with subkeys equal to the GF(2^128) doublings of the key). |
| auth_chunked | `AuthBuilder_chunked.cfg` | violation | `IncrementalMatchesOneShot`: updates of 1 and 3 bytes (block 4) give a K2-padded empty last block, while `mac` gives K1 on the full block. |
| posix_hal | `PosixHal.cfg` on `MC_PosixHal` | pass | Two threads, three messages: `ImplementsFifo` (the messages for this module, and broadcasts, come out of `recv` in the order they were queued, each once, whatever other threads send or inject meanwhile; `clear_queue` drops exactly those not yet received) and `DelayAdvancesClock` (a `delay_us(us)` that found mock time on returns with `time_us` at least `us` past what it found, however the other thread's delays and `advance_mock_time` calls interleave with its two lock sections, unless `set_mock_time` was called in between; the trait asks for a monotonic clock and `test_mock_time` expects the delay to add). |
| spsc_peek | `Spsc_peek.cfg` | violation | `PeekedValueStable`: after peek → pop → pop, the producer overwrites the slot the peeked reference points to. |

Each property of a passing run has a mutant in `PROJECT.json`: a plausible
bug in the mapped definition, placed just before it in the module, which TLC
shows the property catches. Examples:
* `TotalWeight_CountsFailedSamples`;
* `SelectTask_ReplacesOnTie`;
* `PushCheck_NoFullCheck`;
* `TimesTwo_NoReduction`;
* `Recv_TakesLast`;
* `AdvanceMock_Assign` (`advance_mock_time` stores `us` instead of adding it).

### Bounds and why they suffice

* FieldEngine:
  * 3 publishers are enough for a weighted mean with mixed weights.
  * The two loads 255 and 256 make the Suspect halving round.
  * τ = 2 exercises all three decay segments, the zero tail and the 5τ horizon, with ages capped at 11.
  * The decay violation needs τ ≥ 3: with τ ≤ 2 the rounded factors happen not to rise.
* Module:
  * The lifecycle run keeps the code's K = 7, so the threshold is 3, with three peers so that every count 0..3 occurs. The field values do not influence the lifecycle, so there the peers list but do not publish.
  * The selection runs use one publishing peer with τ = 1 (ages 0..6). Own loads are 0 and 1.0, so the gradient falls below −0.2 (backpressure) and above it.
  * The three registrations cover a tie (two priority-1 one-shot tasks) and a strictly higher priority (a periodic priority-0 task that stays Ready).
* Gossip: two peers with 3 events each give gaps of one and two, reverse order, and more duplicates than the 4 buffer slots. Two remote vectors are enough for `merge_vv` to raise, keep and overtake local entries, including the receiver's own. The full vector is out of reach at these bounds (three ids against 8 entries); the hazard list gives the configuration that reaches it.
* AuthBuilder: `BLOCK_SIZE` = 4 stands for 16. The splitting logic uses only `len`, `offset` and `buflen` arithmetic against the block size, so every case of 16 (a slice shorter than the gap, one that completes it exactly, one that spans several blocks, a final full block) already occurs with 4. Slices of up to 9 bytes reach the loop's second iteration.
* Spsc: N = 4 (3 usable slots) and 6 items, so the ring fills and the indices wrap.
* PosixHal: two threads are enough for every pair of lock sections to interleave. Three messages, one other module and the broadcast id give a mailbox with messages for others between its own. One mock value and a delay of 1 with a clock bound of 2 let `delay_us` race `set_mock_time`, and let both threads be inside `delay_us` at once, or one inside while the other calls `advance_mock_time`.

### Fairness

Only the Module's `Tick` is weakly fair. The spec (section 5) has the tick driven by a
periodic timer loop, so it keeps happening. `start`, `stop`, task calls and
field updates are application calls, and nothing obliges them to occur.
The other modules state no liveness and assume no fairness. The SPSC ring is
lock-free, but whether a thread calls again is up to the application. The
HAL's `std::sync::Mutex` promises no fairness, so a thread waiting for the
callback lock may wait forever.

## What is not modelled, and why

* **Gossip.** `VVSummary` (`from_vv`, `to_vv`) is not modelled: no code path builds or expands a summary, so which neighbour list a receiver would use is undefined, and its byte truncation needs sequences of 256. Both are listed as hazards. The u32 wrap of LWW timestamps is a hazard too: timestamps in the model stay far below 2^32. Statistics, payloads, timestamps and the hop count do not influence the kept state.
* **Chaskey internals.** `chaskey_round`, the XORs into the state and the tag byte conversions are left out. They are 32-bit word arithmetic, and splitting messages into blocks does not depend on them.
* **HAL, the rest.** `NoopHal` and `Stm32G474Hal` are stubs. `PosixHal`'s GPIO, debug print, `yield_now` and the time conversions do I/O or nothing else. A callback that calls back into the HAL is not modelled: `send` from inside it would deadlock on the callback mutex (listed as a hazard).
* **`CriticalSection` and `critical_enter`/`critical_exit`.** On `PosixHal` they do nothing, and nothing in the repository creates a `CriticalSection`. `time_ms` is likewise never called.
* **`mac`, `verify`, `mac_message`, `verify_message`, `auth_requirement`.** `mac` is `NewBuilder`, one `Update` and `Finalize`. `mac_message` is the same with two updates, the 2-byte header first. Both are among the behaviours `AuthBuilder` explores, so the chunked-update finding covers `mac_message`. `verify` recomputes the tag and compares it, and nothing else in the repository computes these tags. `auth_requirement` is a constant table.
* **The pitch code sample.** Not part of the crate. `handle_state` calls `start_discovery`, `attempt_recovery` and `halt`, which are defined nowhere, so there is no behaviour to translate.
* **Topology, Heartbeat, Consensus.** Their sources are not in this tree. The module model uses the behaviour `spec.md` gives them.
* **Write-only bookkeeping.** `last_gc`, `gc`'s return count, `run_count`, `total_runtime`, `next_run`, the statistics counters and the callbacks are write-only from the modelled code's point of view. `next_run` being ignored is listed as a hazard.

### Found while modelling, with no run yet

These are listed in `PROJECT.json` under "hazards", each with a note:
* The update mask aliases ids modulo 32 (`field.rs:154`).
* `Module::new` accepts id 0. Every publish then fails, and the module never leaves Discovering. Setting `Self = 0` in `Module_lifecycle.cfg` makes `StableNeighbourhoodReachesActive` fail.
* Degraded and Reforming have no arm to Isolated when the count reaches 0 (`module.rs:549`).
* A duplicated gap event stays in the gap buffer after the gap fills (`gossip.rs:513`).
* A restarted peer's new events are refused as duplicates (`gossip.rs:404`). Peers do not restart in the model.
* With a full vector an event is accepted twice (`gossip.rs:528`). `Gossip.cfg` does not reach a full vector. With `VV_MAX_ENTRIES = 2`, `MaxSeq = 2`, `RemoteVVs <- MCNoRemoteVVs` and `INVARIANT NoDoubleAccept`, TLC finds the third origin's events accepted again and again.
* A `VVSummary` is positional. `remove_neighbor` shifts the list, and another module lists its neighbours differently. A summary expanded against any list other than the one it was built from gives sequences to the wrong ids (`gossip.rs:316`).
* A stopped module keeps running tasks and publishing, because `tick` never looks at the state (`module.rs:258`). `LifecycleEnds` shows only that the state stays Shutdown.
* The SPSC handles hold `&Spsc`, and `Spsc` is declared `Sync`, so `Producer` and `Consumer` are `Sync` too (`spsc.rs:68`, `194`, `262`). Two threads that share one `&Producer` can push at once and lose an item. The comments say the borrow checker allows only one of each. The model has one thread per handle, the use `split()` is written for.
* HAL: `delay_us` reads `mock_time` and then advances it under a second lock, so a `set_mock_time(None)` in between turns the advance into a no-op (`hal.rs:400`). `time_us` is not monotonic across `set_mock_time`. A callback runs in the order threads win the callback lock, not queue order.

## Plan for the next sittings

1. Gossip:
   * peer restarts with an incarnation;
   * the buffer-leak property.
2. Module: a per-task clock to show `next_run` is ignored, and a property that a stopped module does not publish. Both are violations. Each needs a run of its own, and one cfg cannot hold both the selection and the lifecycle properties: combined, the state space does not finish in five minutes.
3. A multi-module composition: two Modules over one region, each the other's peer.
4. HAL: a callback that re-enters the HAL, and the Module driven over the HAL's queue.
5. SPSC: a second producer thread sharing one `&Producer`, which breaks `ImplementsFifo`.
