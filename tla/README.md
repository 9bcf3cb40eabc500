# A TLA+ verification of Charades

Charades is a parallel discrete-event simulator on Charm++. Its chares hold
logical processes (LPs) that exchange timestamped events. Each processing
element (PE) runs a scheduler that executes events, and a GVT manager that
computes with the other PEs the *global virtual time* (GVT): a time before which
nothing will ever be executed or undone again. The optimistic scheduler executes
speculatively and undoes what turns out to have been too early. Whether a
simulation is right depends on three things agreeing: what the engine undoes,
what time a scheduler reports to the GVT, and what a GVT manager makes of the
times reported while messages are moving. This directory models those three
things and the parts they stand on - the collections of events, the migration of
chares, the random number generators, the placement of LPs and the example
simulation models, which have to undo their own steps - checks them with TLC and
proves with TLAPS the contract between engine and GVT and that all the components that
have to keep it do: the optimistic and the conservative engine, `SyncGVT`, `PhaseGVT`,
`CdGVT` and `BucketGVT`.

Paths are relative to the repository; `scheduler.C` is `src/scheduler/scheduler.C`,
and so on.

## 1. Inventory

| Component | State | Operations | What makes it correct | Status |
|---|---|---|---|---|
| Contract of schedulers and GVT managers (`gvtmanager.h`, `scheduler.h`) | minimum per PE, messages in flight, GVT per PE | work, receive, migrate, gvt_done | the GVT is a floor of everything unprocessed and never goes back | modelled: `VirtualTime` |
| `DistributedScheduler` (`scheduler.C`) | `running`, `execute()` messages, `gvt_trigger`, mode, last GVT | `start_simulation`, `iteration_done`, `next_iteration`, `gvt_done`, `start_balancing`, `balancing_complete`, `end_simulation` | one `execute()` in flight; no PE is forgotten; nothing runs while chares migrate | modelled: `DistributedScheduler` |
| `SyncGVT` (`synchronous.C`) | quiescence callbacks, contributions, results, `lb_trigger` | `gvt_begin`, `gvt_contribute`, `gvt_end` | contract, with every PE stopped | modelled: `SyncGVT` |
| `PhaseGVT` (`phased.C`) | `active`, the two phases, `sent[]`, `received[]`, `min_sent` | `gvt_begin`, `check_counts`, `gvt_end`, `produce`, `consume` | contract, with no PE stopped; equal sums mean delivered; rounds aligned | modelled: `PhaseGVT` |
| `BucketGVT` (`bucketed.C`) | `active`, `curr_bucket`, `counts[]`, held events | `attempt_gvt`, `all_ready`, `send_counts`, `check_counts`, `advance_gvt`, `produce`, `consume` | as `PhaseGVT`, per bucket of virtual time | partly: `BucketGVT` (no adaptive buckets) |
| Optimistic engine (`lp.C`, `event.C`, `optimistic.C`) | pending heap, processed queue, cancel queue, AVL tree of keys, token, LP state | execute, send, receive event or anti-event, roll back, cancel, commit | commits what a sequential run executes | partly: `TimeWarp` |
| Triggers (`trigger.h`) | counters | `iteration_done`, `ready`, `reset` | ready when due | partly: in `DistributedScheduler`, `GVTManager` |
| Conservative scheduler (`conservative.C`) | pending events, GVT window | `execute`, send and receive | timestamp order though nothing can be undone | modelled: `Conservative` |
| Sequential scheduler (`scheduler.C`) | queue | `execute` | timestamp order | partly: `SimModel`, `SequentialRun` |
| `CdGVT` (`cd.C`) | phases, `detector_ready`, `min_sent`; Charm++ `CompletionDetector` | `gvt_begin`, `gvt_contribute`, `gvt_end`, `produce`, `consume` | as `PhaseGVT` | modelled: `CdGVT` |
| Queue of tokens (`pe_queue.C`) | heap of tokens, index in each | insert, update, remove, top, second | the top token is the earliest | modelled: `PEQueue` |
| Pending events (`pending_heap.h`) | heap of events, index in each | push, pop, erase, min | a multiset with its minimum | modelled: `PendingHeap` |
| Events by key (`avl_tree.C`) | AVL tree, free nodes | insert or delete, delete | a set of keys, in logarithmic time | modelled: `AvlTree` |
| Processed queue, event buffer | deque; free list | - | - | the deque in `ChareMigration`; the buffer is not modelled |
| Migration (`lp_pup.C`, `event_pup.C`) | packed chare | pack, unpack | the chare afterwards is the chare before | modelled: `ChareMigration` |
| `BlockMapper`, setup (`mapper.h`, `setup.C`) | none | ids, numbers of chares and LPs | every LP is created where events look for it | partly: `Setup` |
| Generators (`clcg4.h`, `xoroshiro.h`) | seeds, count | seed, draw, un-draw | reverse undoes forward; streams apart | partly: `Rng` |
| Example models: phones, traffic, dragonfly network (`models/`) | LP states, the messages' saved fields | `forward`, `reverse`, maps | reverse undoes forward; channels, cars and credits are conserved | modelled: `PCS`, `Traffic`, `Dragonfly` |
| phold, example, statistics, command line, globals, splay queue, test drivers | - | - | - | not modelled, see section 6 |

How they interact. Each PE has one scheduler and one GVT manager, which call one
another directly: `iteration_done()` calls `gvt_begin()`, a manager calls
`gvt_resume()` and `gvt_done()`, and every message sent or received passes through
`produce()` or `consume()`. Chares on one PE share the scheduler's queue of tokens;
LPs of one chare send to one another by a call, chares by messages. Managers
talk through Charm++ reductions and broadcasts. An `execute()` message that a
scheduler sends itself is what keeps a PE going.

What is hard here. Charm++ delivers messages in any order and reductions at
different moments on different PEs, so an anti-event may overtake its event, a PE may be
a reduction ahead of another, and a counter may be read before or after the message
it should count. An event may be pending, processed, waiting to be cancelled, in
flight or referred to by an anti-event, and any of these may change under another
event's rollback. A PE that stops depends on somebody else's turn to run again.
Nothing here is persisted and no message is ever lost, so there is no crash
recovery, retry or timeout to model. PROJECT.json lists the hazards line by line.

## 2. Modules

```
SimTime ─── VirtualTime                      the contract
   ├── DistributedScheduler ── GVTManager ─┬─ SyncGVT    implements VirtualTime
   │                                       ├─ PhaseGVT   implements VirtualTime
   │                                       ├─ CdGVT      implements VirtualTime
   │                                       └─ BucketGVT  implements VirtualTime
   └── SimModel ─┬─ TimeWarp                              implements VirtualTime
                 └─ Conservative                          implements VirtualTime
PEQueue   PendingHeap, AvlTree ── ChareMigration          the collections
Rng   PCS   Traffic   Dragonfly   Setup                   what is simulated, and where
```

`VirtualTime` is the abstract specification. A scheduler and a GVT manager are
modelled apart, and both sides are shown to keep it: the GVT modules take any
scheduler that keeps its half (work and receives move the minimum and send messages
arbitrarily within it), and `TimeWarp` takes any GVT that keeps the other half (an
oracle that picks a floor). What is checked of one side does not depend on a
particular algorithm on the other.

**SimTime.** Virtual time is `0..EndTime`, where `EndTime` stands for every time
from `g_tw_ts_end` to `TIME_MAX`: no event is created there (`event_alloc` returns the
abort event), and no code tells such times apart. Messages in flight are a count
per PE and timestamp.

**DistributedScheduler.** A PE's scheduler is a record and each method a function on
it, so that a handler of a manager composes the methods it calls in the order it
calls them, and remains one action. `execs` counts `execute()` messages in flight;
`mode` follows load balancing (`start_balancing`, the `AtSync` barrier,
`balancing_complete`) and the end.

**GVTManager.** `lb_trigger`, the messages a scheduler may send in one handler, what a
sum reduction of counts yields (`Total`, the number of units all PEs hold: it needs no recursion,
so that it can be proved about) and where messages are after their chares moved
(`Forwarded`).

**SyncGVT.** One action per entry method: `execute` (with the whole of
`iteration_done` and `gvt_begin`), `receive`, `gvt_contribute`, `gvt_end`,
`resume_balanced`. Charm++'s part is external: `quiescence` calls every waiting
callback when nothing at all is in flight, `reduce` completes a reduction when every
PE has contributed, `balance` opens the `AtSync` barrier and redistributes the
minima. Contributions are queues, because with `g_tw_async_reduction` a PE can
contribute to a second reduction while the first is under way.

**PhaseGVT.** As SyncGVT, with the manager's fields in a record; `net[h]` are the
messages of phase `h`. `gvt_end` resets the counts, the flag and the trigger and
calls `gvt_done`, in one action. Load balancing may happen with messages in flight,
which then follow their chares.

**BucketGVT.** `counts[b]` is what a PE has sent less what it has received in
bucket `b`: the code keeps both numbers and only compares their sums. `attempt_gvt`
runs wherever the code calls it: when a message is consumed (before the event is
looked at), produced (while a batch or a rollback is under way, when
`get_min_time()` may already be later than before), at `gvt_begin()`, and when a round ends.
A count may be below zero, so the sum of a bucket is that of the counts above zero less that
of those below (`Balance`, from `Total`). Two widths matter and are kept: an event carries its
bucket as a `uint8_t` (`phase`, with `PhaseValues` values), and `buckets_passed` of a PE before its
current bucket is a division of an unsigned number (`as_int`, unless `PowerOfTwo`).
`Spec` is the code; `SpecAhead` is its runs in which nothing is sent into the bucket that its sender
works in, or past the buckets phases tell apart. Nothing in the code ensures either (the
assertion on the lookahead at `event.C:101` is for the conservative protocol), so they are a
restriction of the run and not of a constant: any run is one of `SpecAhead` up to the first such send.

**SimModel.** An arbitrary simulation model: what an LP sends depends on its state
and on the time, so that an event executed out of order sends the wrong events.
`SequentialRun` is what the sequential scheduler executes of it.

**TimeWarp.** One action per turn of the loop of `execute()` (`schedule_next_lp`),
its end (`end_iteration`, with all of `process_cancel_q`), `recv_remote_event`,
`recv_anti_event` and `gvt_done` (with `fossil_me` of every chare of the PE). Between
the turns of one `execute()` no message is received on that PE, which the variable
`batch` expresses. The reference counts and links of `Event` are what they mean: the
pending heap is a set, the processed queue a sequence of entries with the state
found and the events caused, the AVL tree the keys of the remote events held plus
the anti-events that wait. `token` is kept apart from the heap, because the code
updates it apart.

**CdGVT.** As PhaseGVT, but messages are counted by Charm++'s `CompletionDetector`, one
per phase. It is external and ideal: it calls `gvt_contribute` everywhere once every
PE is done with the phase and as many messages have been consumed as produced.

**Conservative.** `execute` and `iteration_done` are the two ends of the loop of
`execute()`, `schedule_next_lp` one turn of it; messages are received between
executions. `gvt_computed` is the GVT: in this scheduler no PE runs while one is
computed, and `SyncGVT`, `PhaseGVT` and `CdGVT` all wait for the messages sent before.
What the contract calls messages are those for all chares of a PE (`InFlight`).

**PEQueue, PendingHeap.** The arrays as sequences, with the index each token or
event keeps of its slot. One action per call the scheduler or a chare makes.
`Erasable` is the assertion of `erase()`, which finds the slot by the index.

**AvlTree.** The recursion of `avl_tree.C` on trees as records; `flagged` is the flag
in each event by which `tw_event_free` decides whether to look it up.

**ChareMigration.** One optimistic chare with the structures it really keeps, on top
of `PendingHeap` and `AvlTree`, all its entry methods, and `migrate`: `Packed` turns
pointers into indices and flags as `event_pup.C` does, `Unpacked` builds lists and tree
again. Anti-events that wait in the tree for their event are not packed; the model
loses them as the code does.

**Rng.** `clcg4` with the constants, the multiplication in halves and the widths of the
code (TLC stops at an overflow of 32 bits); `xoroshiro128plus` on words as sets of
bits. The output as a floating-point number and the distributions are left out.

**PCS, Traffic, Dragonfly.** One LP's handlers as operators from state and message to
state, messages and the bit field, and their reverse handlers; `forward`/`Handle`
runs any event that may be next, `reverse`/`RollBack` rolls the last one back. Loops
that draw until something fits are sets of outcomes with the number of draws.
What the code reads uninitialized or after it was freed is any of the values it may then
have: `StaleChan` is what `vc_index` of a WAIT event and `old_vc` of a dropped chunk may hold,
and `ReadAt` gives the waiting list of a router, which points to the message of a WAIT event,
any message that may have its memory once that event is committed. `drifts` counts the rollbacks that
leave a channel with a wrong count, each of which could go on for ever; `MaxDrifts` bounds them.

**Setup.** `BlockMapper` and the numbers `tw_create_simulation` settles on.

**MCParts, MCAsyncGVT.** Several independent systems in one run: a variable chosen
initially says which, and the state of the others does not change.

## 3. Runs

| Run | Question | Result |
|---|---|---|
| `sync_gvt` | Does the synchronous manager keep the contract, restart every PE it stops, and balance load only when the machine is quiet? | holds |
| `sync_gvt_async` | Does `CkAssert(min_time >= curr_gvt)` hold with `g_tw_async_reduction`? | violated |
| `phase_gvt` | `PhaseGVT`: do sums read at different moments mean what `check_counts` takes them for? That and `CdGVT`: is the GVT a floor while all PEs run? | holds |
| `phase_rounds` | Does every round of `PhaseGVT` end? | violated |
| `phase_continuous_lb` | Is the scheduler stopped when `start_balancing()` asserts so, with `g_tw_ldb_continuous`? | violated |
| `bucket_gvt` | As long as nothing is sent into the bucket that its sender works in: is `BucketGVT` sound, and does it reach the end? | holds |
| `bucket_cut` | And when something is? | violated |
| `tw_fan` | Does the engine commit the sequential run, whatever stragglers, overtaking anti-events and cascades of cancellations do? | holds |
| `tw_ring` | Does the engine keep its half of the contract, and do cancellations die out? | holds |
| `tw_token` | Is `get_min_time()` the earliest pending event? | violated |
| `parts` | Do the collections, migration, generators, example models, maps and the conservative scheduler keep what the rest relies on? | holds |
| `pe_queue_remove` | Is the top token still the earliest after chares have left? | violated |

The properties, each stated with a comment in its module:

- *Contract* (`ImplementsVirtualTime`; of `CdGVT` the runs check `CdGVTIsFloor` and a
  theorem states the rest): every step of the detailed
  system is a step of `VirtualTime` or a stutter. For a GVT manager this says that
  each GVT a PE is told is a floor of all minima and all messages at that very
  moment, and no earlier than the last one. `GVTIsFloor` says it stays one.
- *Engine*: `CommittedIsSequential` (what fossil collection has committed is what the
  sequential scheduler executes, event for event by time and chare),
  `AntisMeetTheirEvent` (no anti-event waits for an event that is gone; the `CkAbort`
  branches are dead), `ClaimedOrCancelled` (an event sent is claimed by one
  processed entry or cancelled once), `NothingCancelledCommits`.
- *Control*: `OneExecuteInFlight` (the claim of `scheduler.h`; `SyncGVT`), `EveryPEResumes`,
  `QuietWhileBalancing`, `NotRunningWhenBalancing`.
- *Counting*: `EqualCountsMeanDelivered`, `RoundsAligned`, `ReductionsMatch`,
  `ContributionNotBelowGVT`, `CdOneRoundAtATime` (no detector is started while it is
  used), `CdGVTIsFloor`, and `Terminates` of `BucketGVT`.
- *Conservative*: `ExecutesInOrder` (what is in flight for a chare is later than all it
  has executed, and below the GVT it has executed the sequential run).
  That it keeps the contract is proved only (section 4).
- *Collections*: `TokensIndexed`, `OrderKeptUntilUnregister`, `FirstIsEarliest` and
  `ErasesTheVictim` (the heap stays one, and cancels the right event, though `erase()`
  compares times where the heap compares events), `SearchFindsFlagged`,
  `InsertionKeepsBalance` (deletion does not, see below).
- *Migration*: `CausalityLinked`, `RemoteEventsTracked`, `MigrationKeepsEvents`.
- *Models*: `DrawsReversible` (the state of a generator depends on the count of
  draws alone, and the stream of the next LP starts where that of one ends),
  `ChannelsAccounted`, `LanesHoldTheCars`, `CreditsBalance`, `ReverseRestores`,
  `RoutesReach`, `MapsAgree`. `ReverseRestores` has three exceptions, all in `dragonfly.C`, where
  the reverse handler does not undo the handler: a packet dropped at its first router
  (`old_vc` is not set, 954-965 and 1378-1382), a packet whose non-minimal path was drawn (1370), and a
  credit that sends on a waiting packet (1223). The first two are exceptions of `CreditsBalance` too:
  these rollbacks lose a credit or keep one too many. The model takes all three steps
  and goes on, and the properties hold of every step that follows.

The type invariants are conjuncts of one property of each module where they have no
entry of their own (`NothingCancelledCommits`, `ReductionsMatch`, the first of each
part): they say nothing else that could go wrong.

### Disagreements between code and its own claims

The six violated runs each check one sentence or assertion of the repository;
PROJECT.json quotes it.

1. `tw_token`: for a straggler `recv_local_event` sets the chare's token, rolls back,
   which sets the token again to the earliest event of the heap, and only then pushes
   the straggler. `get_min_time()` is then too late until the chare next runs.
   `TimeWarp`'s other runs keep `VirtualTime`'s GVT, a floor of the real minimum
   (`Low`), so they show what the engine does under a sound GVT.
2. `phase_rounds`: `gvt_end()` zeroes the counts of a phase on its own PE, while a
   faster PE may be sending in that phase again; a receive counted before the reset is lost
   and the round never ends. Safety is unaffected (`phase_gvt` includes these
   behaviours): the sums can only fail to agree.
3. `sync_gvt_async`: a resumed PE may ask for a second round before the first
   reduction is over, PE 0's two callbacks fire at one quiescence, and contributions
   of different moments are reduced together.
4. `phase_continuous_lb`: a PE resumed into a load-balancing round is running when
   `start_balancing()` asserts that it is not.
5. `bucket_cut`: counts of a bucket are read at different moments with nothing
   like `min_sent` to make up for it; a receive and a send after one PE's reading
   can cancel a send and a receive before the other's.
6. `pe_queue_remove`: the hole of a removed token is filled by the last one, which
   is only pushed down, though it may belong above the hole. Some departures later a
   token that is not the earliest is on top, and the PE's minimum is too late.

Met on the way, and modelled as they are: AVL deletion rebalances one way only and
may leave a tree unbalanced (`AvlTree`); a dragonfly router that sends on a waiting
packet frees the slot of another, the reverse of a non-minimal choice returns too
early, and that of a dropped packet takes a chunk off the wrong channel (`Undoable` and `SendUndoable`
in `Dragonfly`); `CdGVT` with three phases enters a phase again too
early. With two phases, the default, it does not. With `g_tw_ldb_continuous` `CdGVT`
resumes a PE into a load-balancing round as `PhaseGVT` does, and TLC then finds a GVT
that is not a floor, after the assertion of `phase_continuous_lb` has failed. Where no sentence of the repository
says otherwise they are hazards in PROJECT.json and not findings.

### Bounds

Everything distributed is checked on two PEs: every interaction here is between a PE that is ahead and
one that is behind, or a sender and a receiver, and reductions treat PEs alike.
(The proofs, see section 4, need no such bound.)

| Bound | Where | Why enough |
|---|---|---|
| `EndTime` 2 to 4 | all | a GVT, an event past it, and one in between; `BucketGVT` has two buckets of two times, so that a reduction of both can complete one |
| `GvtInterval` 2 in `sync_gvt`, else 1 | GVT | 2: iterations with and without a GVT. 1: a GVT is begun, or asked for during a round, at every iteration, which leaves the managers least time between rounds |
| `LBInterval` 2 or 0 | GVT | rounds with and without load balancing, in turn |
| `MaxEmit` 1 | GVT | messages one handler sends; more are sent by further handlers |
| `MaxCopies` 1 | GVT | messages in flight for one PE at one time; there are several of different times |
| `MaxCount` 1 | Phase, Bucket | messages counted; repeated use of a phase or progress of buckets is not bounded by it |
| `MinDelay` 0, 1, 2 | GVT | 0 in `phase_gvt`: no lookahead at all. 1 in `sync_gvt`: without it two PEs may answer each other at one time for ever and quiescence never comes. 0 in `bucket_gvt`, of which `SpecAhead` excludes what stays in a bucket, and 1 in `bucket_cut` |
| `PhaseValues` 256 | Bucket | as in the code; with the two buckets of the run all phases differ, and only the proof is about more |
| `Phases` 2 | `TimeWarp` | one event executed too early changes what is sent |
| `MBlock` 1, 2 | `TimeWarp` | a message after every event; two events with none between |

Rollbacks, cancellations, GVT rounds and load-balancing rounds are bounded by none
of these, only by virtual time.

The subjects of `parts`:

| Subject | Instance | Why enough |
|---|---|---|
| `queue` | 5 chares, times 0 to 2 | three levels; any order of arrivals, updates and departures (6 in `pe_queue_remove`, where the disorder reaches the root) |
| `heap` | 6 events of 2 LPs, 3 of them at one time | a replacement that ties with its victim and one that belongs above it |
| `tree` | 9 keys, 8 nodes | 8 nodes are the fewest a deletion can leave unbalanced; the tree can be full |
| `migration` | 6 events, of which 3 come from elsewhere and 1 goes there | an event with a processed, a pending and a sent effect; two cancelled at once |
| `random` | 9 LP ids, 128 unit words, 4 draws not undone | `xoroshiro128plus` is linear over XOR, so the unit words decide all; ids with up to four bits |
| `phones` | 2 cells with 1 normal and 1 reserve channel, 2 portables, times below 4 | calls that end, move, are dropped at a full cell |
| `streets` | 3 x 3 torus, a start block of 2 x 2 in the first corner, 4 cars, one goal | cars start in the block, beside it and below it, where `other_id` skips its places each in its way; all four lanes |
| `network` | 3 groups of one router, non-minimal, one packet of two chunks, buffers of 1, `MaxDrifts` 1 | a chunk is dropped at the first router and the drop rolled back; another waits at the second until its credit comes, and is sent or, its memory being reused, the other one is. A local channel differs from a global one by its size only |
| `lockstep` | 3 chares on 2 PEs, lookahead 2, times below 7 | several windows; messages for the next one and for the one after it |
| `maps` | a 4 x 6 grid of cells; 10 routers in 5 groups (`Wide`), from any of which a way is a local, a global and a local channel; any 3 numbers up to 8 for `Setup` | uneven divisions |

### Fairness

Charm++ delivers every message and completes every reduction it has all
contributions for, so each action that delivers one is weakly fair: `execute` (a
message), `receive`, the GVT handlers, `reduce`, `quiescence`, the barrier. The
engine's GVT is fair in that, when the oracle can pick a later floor, it does in the
end. `BucketGVT` also assumes that a PE with something to execute gets on in virtual
time eventually, which the abstract scheduler would not do by itself: a batch of the real one
executes an event each turn, and events of one time are finitely many. `parts` and
`phase_gvt` state no liveness and have no fairness. No
strong fairness is used, and nothing is assumed of the order of deliveries.

## 4. Proofs

Theorems are for every set of PEs (and of chares), every `EndTime`, every interval,
bound and simulation model; they use the `ASSUME`s of the modules, which say no more than
that the constants are of their kind, and that PEs and chares are finitely many.

| Module | Theorems | Under |
|---|---|---|
| `VirtualTime_proof` | `ContractIsSafe` (`GVTIsFloor`) | - |
| `SyncGVT_proof` | `TypeCorrect`, `AtMostOneExecute`, `GVTIsSafe`, `BalancingIsQuiet`, `Refinement` | `~AsyncReduction` |
| `PhaseGVT_proof` | `TypeCorrect`, `EqualSumsMeanDelivered`, `ContributionsKeepTheGVT`, `RoundsStayAligned`, `StoppedWhenBalancing`, `Refinement` | `~LBContinuous` |
| `CdGVT_proof` | `TypeCorrect`, `RoundsDoNotOverlap`, `GVTIsSafe`, `Refinement` | `~LBContinuous`, `Phases = 2` |
| `BucketGVT_proof` | `ReductionsAgree` | a bucket size that is a power of two, or `SpecAhead` |
| `BucketGVT_proof` | `Refinement` | - , of `SpecAhead` |
| `TimeWarp_proof` | `NothingCancelled`, `AntisMeet`, `ClaimedXorCancelled`, `Refinement` | - |
| `Conservative_proof` | `NeverTooLate`, `Refinement` | `Assumptions` |

The hypotheses on `SyncGVT`, `PhaseGVT` and `CdGVT` are options of the program at their defaults, and all are
needed: with `g_tw_async_reduction` `SyncGVT` is wrong (`sync_gvt_async`); with
`g_tw_ldb_continuous` the assertion of `start_balancing()` fails in `PhaseGVT`
(`phase_continuous_lb`), and in `CdGVT` the GVT itself; with three or more phases
(`g_tw_gvt_phases` is 2, `globals.C:86`) `CdGVT` may begin a round before the last one ends and forgets the
`min_sent` of it (hazard at `cd.C:56`). `BucketGVT` has no
hypothesis on the simulation: that what is reduced together belongs together is proved wherever events are
sent, for bucket sizes that are powers of two, as the default of 8 is. That it keeps the contract is
false of the code as it stands (`bucket_cut`: the defaults, a lookahead of 5 and a bucket of 8, and an
end time of 128000 buckets, allow what breaks it), and is proved of the runs of `SpecAhead`: a GVT is sound for as long
as no event has been sent into the bucket its sender works in or past the 256 buckets of a `uint8_t`,
whatever delays and sizes are. Neither half can be left out. `Assumptions` of `Conservative` says that every offset is at least the lookahead, which
`tw_event_send` asserts, and that the lookahead is not zero. Everything else a run checks of these components
by a safety property is stated by a theorem, except that what is executed is the
sequential run (`CommittedIsSequential`, and the second half of `ExecutesInOrder`; see below);
`RoundsDoNotOverlap` with `TypeCorrect`, and `GVTIsSafe`, are what `phase_gvt` calls
`CdOneRoundAtATime` and `CdGVTIsFloor`. Both sides of the contract are thus proved:
`Refinement` of `TimeWarp_proof` and `Conservative_proof` says that an engine keeps the
schedulers' half under any sound GVT (the conservative one under the GVT it waits for),
the other four that the managers give a sound GVT to any scheduler that
keeps its half, and `ContractIsSafe` that together no GVT passes what is still to come.

`GVTManager_proof` holds what the managers share: the minimum of a reduction, adding and
taking messages, that a floor is kept by what is sent at or after it and by a
redistribution that keeps the minimum, what each method of a scheduler does to it, and how
sums and numbers of messages in flight change. Facts that modules which extend no common
one both need (`MinIsLeast`, `FiniteImage`, `TakeType`, `FloorKept`) are proved in each. A sum over the PEs is the number of elements of a set of units,
so that facts about sums are facts about cardinalities of finite sets and need no
induction.

**VirtualTime.** `GVTIsFloor` with the types is inductive: work sends nothing below
the minimum of its PE, which is above every GVT; a straggler is above them too, being
in flight.

**SyncGVT.** `GVTIsFloor` is not inductive here: nothing in it says that a minimum
contributed a while ago is still one. `IInv` adds the *stage*
of a round as seen from PE 0, which is the only one to ask for quiescence.
`RootStage` says that PE 0 is in exactly one of running, waiting for quiescence,
having `gvt_contribute()` on its way, having contributed, having a result on its way, or
balancing. `Collecting` says that from the moment the callbacks are called until
the result is out, no scheduler runs and no event is in flight, and each PE has
either one `gvt_contribute()` to come or one contribution made, which is its minimum
still. `Floors` is `GVTIsFloor`. `Announced` says that a PE has
at most one result on its way, no earlier than the GVT it holds, and a floor, also
after PEs that have had theirs go back to work: they work at or above it. The
refinement follows action by action: `execute` and
`resume_balanced` are `Work`, `receive` is `Receive`, `gvt_end` is `Commit`, `balance`
is `Migrate`, the rest stutter. `BalancingIsQuiet` needs `LBInv` besides: each PE
counts the rounds by itself, and only because the counters agree (`Counted`, which
allows for the PEs that have had the result of a round and may have begun the next) do
all PEs draw the same conclusion from a result (`Verdict`).

**PhaseGVT.** Here PEs never stop, and the counts that are compared were read at
different moments. `IInv` says

- `Staged`, `Contributed`: a PE in a round has one contribution or one result, of the
  phase it left, and what it has contributed as sent is final, while its contribution as
  received may since have become too low;
- `Together`: any two PEs are at most one reduction apart;
- `Accounted`: what is in flight in a phase is what the sums lack. The counts
  a PE has still to clear from the last use of the phase are left out (`Stale`); they are the
  reason the sums need not agree (`phase_rounds`), and also the reason the
  invariant is an inequality: a receive counted before the reset is lost;
- `Delivered`: after equal sums nothing of the phase is in flight;
- `Tracked`: a message in flight in the new phase, and the minimum of a PE that
  has contributed its own, are no earlier than some minimum still to be contributed or
  contributed already: `gvt_begin` resets `min_sent` when it enters the new phase;
- `Floors`: a GVT held or announced is a floor, and stays below everything that PEs in
  the next round have contributed or recorded in `min_sent` (`Bounded`). Without the
  second part it is not inductive: a PE may be told the GVT after another has begun
  the next round;
- `Stopped`: a PE in a round that ends with load balancing is not running.

The refinement maps `net` to the messages of both phases together (`BothPhases`).

**CdGVT.** The shape is that of `PhaseGVT`, with another reason for each part. Nobody
counts: that nothing of the phase is in flight is what the detector promises when it
calls `gvt_contribute()`. `Delivered` says that this stays true until the round ends,
because no PE sends in that phase any more. `Staged` says where a PE is in its round:
done and waiting for the detector of the phase it left, called by it, with a contribution
made, or with a result to come. `Together` relates any two PEs: they wait for
one detector, one that has been called knows that the other has been called too, and
when one has its result the other has the same, or is past it. With two detectors used in
turn this is what keeps a detector from being started while PEs still leave it. `Tracked`,
`Floors` and `Stopped` are as above; `Cover` is what a PE has contributed or, until it
has, its `min_sent`. The messages in flight are those of all phases (`AllPhases`), whose
number is the cardinality of a set of units, one per phase and message.

**BucketGVT.** PEs never stop and nothing like `min_sent` is kept. `Core` is what holds of any run,
when the size of a bucket is a power of two:

- `Accounted`: what all have sent less what all have received under a phase is the number of
  messages in flight under it. This holds of the counts at one moment; a reduction adds up
  counts of different ones;
- `Staged`, `Together`, `Follows`, `Fits`, `Placed`: a PE has one contribution or one result; two PEs
  are in one reduction, of one kind and as many buckets, or one of them has yet to do what its result
  asks for (`advanced` is where it will be then); `Controlled` is about the scheduler.

A PE that an event of the past has taken before its current bucket counts the buckets passed
by the unsigned division, and the number is below zero only if their size is a power of
two. `ReductionsAgree` follows from `Core`. `IInv` adds what makes counts sound in `SpecAhead`, where
a PE does not send into the bucket it works in, nor before it:

- `InPhase`: what is in flight has a phase of its own bucket;
- `Snapshot`: when a PE has contributed counts, the first `r` of them are what they were
  (`Untouched`), for some `r`, and it has left those buckets; the next one, if the PE had passed it when it
  contributed, has only lost since: the PE sends nothing into a bucket it is past, and a count falls
  with a receive before a rollback can send there again. When a reduction completes, the
  least `r` over all PEs bounds the buckets whose sums can all be zero: in the next bucket the
  sum contributed is more than what is in flight, so it is above zero;
- `Floors`: the GVT that is held, and the one that results on their way lead to, is a floor. With
  it no PE is before its current bucket, so that the division is one of a number of `Nat`.

**TimeWarp.** `IInv` of `TimeWarp_proof` says that a processed queue goes back in time,
that what an event caused is later than the event, that nothing pending is earlier than the
newest processed event, and that everything pending, queued to be cancelled or in
flight is at or above the GVT. The last is the claim; the others make a rollback,
which restores what the undone entries executed and cancels what they sent, stay above
its cause. The refinement of `VirtualTime` (minimum: `Low`; messages: the number
for one PE at one time) rests on the same facts. `AntiInv`
is about who knows an event. `Linked`: no two entries claim one event, and one that the
chare sent itself is pending or was processed after the entry that sent it. `Claimed`: what an entry claims is cancelled
nowhere, and in flight, held or committed where it went. `Travelling`: the target of
an anti-event in flight is in flight or held, and not cancelled yet. `Waiting`,
`Queued`: an anti-event in the tree waits for an event in flight, and a cancelled event is held.
When an entry is undone its events pass from `Claimed` to `Travelling`; that
none of them has been committed in the meantime is where `IInv` comes in. `StateBefore`,
`Sends` and the numbers of chares and LPs are arbitrary: none of this depends on what
is simulated.

**Conservative.** That nothing comes too late is not inductive: a message must be known
to be late enough before it arrives. `Windowed` says that what is in flight is past the
window (from the GVT to a lookahead later), that all that is executed is before its end, and that
a PE which waits has nothing left in it, so that the next window begins where this one ends or
later. `Ordered` is the claim for the pending events, kept within a window because a chare takes
its earliest event and sends later ones. `Told` says that a PE executes only with the last GVT.
The refinement needs, besides, that the GVT computed while all PEs wait is still a floor when the
last of them is told, and that is `Windowed` too.

Only model-checked:

- all liveness (`EveryPEResumes`, `Terminates`, and the violated `EveryRoundEnds`),
  which is beyond the prover as fairness and ENABLED are;
- `CommittedIsSequential` and the second half of `ExecutesInOrder`: the reference is a run of the
  sequential scheduler, defined by recursion, and comparing with it is an induction over that run;
- the collections, migration, the generators and the example models. Most of these descend by
  recursion (`AvlTree`, `Rng`, `PCS`, `Dragonfly`, and what uses them) and are beyond the
  prover as they stand; their runs cover small instances of each shape.

## 5. What is abstracted, and why that is sound

- *Minimum and messages of the GVT modules.* A handler moves the minimum to any time
  its contract allows and sends any messages it allows. This is more than a real
  scheduler does, so safety carries over to any.
- *Atomic handlers.* A Charm++ entry method runs to its end on its PE. What it does to
  other PEs are messages.
- *Ties.* `execute_me` takes any pending event of the earliest time. The comparator
  (`event.C`) orders ties only partially, so nothing stronger is promised.
- *Event ids* are the least unused of one source, destination and time. The code never reuses
  one; the model reuses one only when nothing refers to it.
- *Offsets* are positive in `SimModel`. An event a handler sends to its own time is
  left out (see the hazards).
- *Ties in `Conservative`* are counted and not named: what LPs of `SimModel` send does
  not depend on which of two events of one time came first.
- *Delays in `Traffic` and `Dragonfly`* are left out: pending events come in any
  order, which includes the real one. A time at which a channel is free is the number
  of times it was moved on, so that a reverse handler that forgets it is seen.
- *One event back.* The models roll back their last event only. Rollbacks of several
  events are sequences of these, newest first, and each restores the state the next one
  needs; that the engine calls them in this order is what `TimeWarp` shows.
- *Widths.* `Event::index` is a `uint8_t`; `ErasesTheVictim` and migration are checked for
  as many pending events as it tells apart.
- *`dragonfly` includes `ross_api.h`*, which the repository does not have: the model is
  of the source as it would compile against ROSS's types.
- *Triggers.* `CountTrigger` and `ConstTrigger` as used; the `lb_trigger` counter
  saturates. `LeashTrigger` and `BoundedTrigger` are not modelled.
- *After `end_simulation()`* a scheduler may go on executing until the program
  exits, as in the code.
- *The Charm++ runtime* (delivery, reductions, quiescence, barrier, forwarding) is external
  and modelled by what the code relies on.

## 6. What is left

Done: the contract, the schedulers' control, four GVT managers, the optimistic and
the conservative engine, the collections, migration, generators, three example
models, the maps, and the proofs of the contract, of the four managers and of the
two engines.

Not modelled, and why:

- *Event memory* (`event_buffer.h`, `event_alloc`, `tw_event_free`): who owns an event is
  modelled by the lists that hold it; the free list adds nothing but reuse.
- *Adaptive buckets* (`g_tw_adaptive_buckets`, off by default): when a held event counts
  as sent is a matter of return values that no caller looks at (hazard at
  `bucketed.C:283`).
- *Buckets under the conservative scheduler*: see the hazard at `conservative.C:15`.
- *Events sent to the sender's own time*: the engine rolls back what it should not (hazard
  at `lp.C:306`), and the sequential reference would depend on the order of ties.
- *`LeashTrigger`, `BoundedTrigger`*: off by default.
- *phold and example models*: their handlers draw a destination and send; reversing
  them gives back the draws, which `Rng` covers.
- *Start-up, statistics, command line, globals, load metrics*: no protocol.
- *The splay queue* (`pending_splay.h`): nothing includes it.
- *Floating-point output of the generators* and the distributions of `random.h`.

Proofs still worth having: `TokensIndexed` for `PEQueue`; the heap order of `PendingHeap`; the
correspondence of ids for `Setup`.

## 7. Running it

    tlc -config MCSyncGVT.cfg MCSyncGVT       # and the other .cfg files with their module
    tlapm SyncGVT_proof.tla                   # and the other _proof modules
