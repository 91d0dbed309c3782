# TLA+ models of the game-engine kernel

This directory specifies, model-checks and proves properties of the engine kit:
the worker pool and the wave executor on it, the message rings, the schedule
planner, the kernel's life cycle and frame loop, the ECS world, the replication
layer with its write-ahead log, the Vulkan presentation engine of both platforms,
and the path of a frame through window, input, UI and renderer. The modules are
translations of the Rust code (paths in `PROJECT.json` carry the repository's own
prefix); `PROJECT.json` maps every definition that models code to its lines.

## 1. Inventory of the system

| part | state | operations | interacts with |
|---|---|---|---|
| worker pool (`platform/thread_pool.rs`) | job stack, `pending`, `stop`, one mutex, one condition variable | `try_new`, `try_execute`, `wait_idle`, `worker_loop`, `Drop` | executor; any thread that holds a reference |
| wave executor (`kernel/scheduler.rs`) | a pool | `try_run`, `run` | pool |
| inbox ring `SpscRing`, outbox ring `MpscRing` (`kernel/bus.rs`) | slots, wrapping head and tail, a spinlock word in the outbox | `push`, `pop`, `is_empty`, `len`, `Drop` | bus |
| message bus (`kernel/bus.rs`) | inboxes, outbox, edge matrix, sequence counter | `add_subscriber`, `set_debug_edges`, `publish`, `flush`, `pop_inbox` | contexts of the subsystems, kernel |
| planner (`toposort`, `dependency_waves`, `access_waves`) | colours, stack, order, levels | `SchedulePlan::build` | kernel |
| registry (`kernel/registry.rs`) | subsystems in registration order | `register`, `resolve_dependencies` | kernel |
| kernel (`Kernel`) | order, waves, names, frame index, `initialized` | `init`, `run_until`, `shutdown` | all of the above, subsystem callbacks |
| deferred commands (`kernel/deferred.rs`) | bounded command list | `push`, `apply` | contexts, world |
| entity table, bitset, storages, world, queries (`kernel/ecs`) | generations and free stack, word masks, sparse sets | spawn, despawn, insert, remove, collect, for_each | contexts, deferred commands |
| write-ahead log `SyncWal` (`kernel/sync.rs`) | a file of checksummed records | `open`, `append`, `acknowledge`, `replay`, `compact` | replicator |
| `Replicator` (`kernel/sync.rs`) | pending and in-flight queues, numbers, session nonce | `enqueue*`, `pump`, `receive`, `try_acknowledge`, `set_session_nonce`, recovery | log, network, peer |
| memory pool and arena, tracer, plug-in host (`kernel/mem`, `kernel/trace`, `kernel/game.rs`) | slots, bump pointer, sample ring | alloc, free, rewind, record | kernel |
| asynchronous I/O (`platform/*/io_uring.rs`, `iocp.rs`) | submission and completion rings, buffers | submit, complete | applications |
| Vulkan bindings (`platform/*/vulkan.rs`, `gpu_pipeline.rs`, `vulkan_policy.rs`) | wrappers that own driver objects and release them in `Drop` | one constructor per object, command recording, submission, family and memory-type choices | presentation, clients of the device |
| presentation engine (`platform/*/present.rs`, `swapchain.rs`, `surface.rs`, `world_upload.rs`) | device objects, frame slots with a fence and semaphores, shared staging buffers, the packets handed over | `build`, `set_ui_upload`, `set_world_upload`, `present_frame`, `recreate`, drop | renderer, GPU |
| UI subsystem (`subsystems/ui`) | node arena with generations, commands, resources, focus and capture, last packet | tree calls, `tick`: messages, commands, layout, paint, packet | input, renderer, game |
| renderer (`subsystems/renderer.rs`, `renderer_3d.rs`) | extracted world, manifest, preparation, UI mirror; frame slots, command pool, surface; mesh and material tables | `tick`, encoding, life-cycle methods, table inserts and removals | ECS, UI, window, presentation engine |
| input, window (`subsystems/input.rs`, `window.rs`) | event queue, two snapshots, pending size | `tick` | operating system, UI, renderer |
| audio, physics, scripting, hello | their own | the `Subsystem` callbacks | kernel context |

What is hard here, and what the properties are for:

* **Concurrency** is confined to the pool, the two rings and asynchronous I/O.
  The pool uses one condition variable for two kinds of waiters and reads `stop`
  outside the mutex; the rings rely on acquire/release indices and a hand-written
  spinlock. The GPU is a further actor: it reads what was submitted until it
  signals a fence.
* **Failure**: jobs panic, threads fail to spawn, the queue is full in the middle
  of a wave, an allocation fails in the middle of an insert, an inbox is full,
  a log write stops early, the process dies between two steps of compaction, the
  network loses, repeats and reorders; any foreign call of the engine's
  constructor fails with what was made before it still to be released; a
  frame breaks off between the acquisition of its image and its presentation.
* **Ordering**: callbacks with respect to dependencies over several
  init/shutdown sessions, messages in an inbox, deltas of one key, destruction of
  driver objects by the order of struct fields, paint against hit-test order.
* **Staleness**: handles and candidate lists used after their slot was recycled,
  deferred despawns, acknowledgements of an earlier session; focus on a destroyed
  node, rectangles of the last frame, dirty ranges relative to a packet the renderer
  never saw.
* **Boundaries**: wrapping indices and generations, word boundaries of bit masks,
  queues at capacity.

`PROJECT.json` lists these as hazards, each at its line with the properties that
would catch it.

## 2. Modules

| module | models | composes |
|---|---|---|
| `ThreadPool` | pool, one action per step another thread can observe | |
| `ParallelWave` | `ParallelWaveExecutor::try_run` | `ThreadPool` |
| `BoundedFifo` | abstract: a bounded queue whose k-th element is k | |
| `SpscRing`, `MpscRing` | the rings of the bus | refine `BoundedFifo` |
| `MessageRings` | both rings side by side | `SpscRing`, `MpscRing` |
| `Schedule` | depth-first sort and waves | |
| `Entities`, `Bitset` | entity table and bit mask, as operators | |
| `EcsWorld` | world, storages, queries | `Entities`, `Bitset`, `Ordered` |
| `Kernel` | registry, init, frame loop, shutdown, bus, deferred commands | `Schedule`, `Entities` |
| `Ordered` | lists in increasing order, and what is left of a list when elements are dropped | |
| `WalRecords` | what a log record means | `Ordered` |
| `SyncWal` | the log file, replay, compaction | `WalRecords` |
| `Replicator` | two peers, network, log | `WalRecords`, `Ordered` |
| `GpuPolicy` | queue families, memory types, world packets: the choices both platforms share | |
| `VulkanCalls` | vocabulary: a binding as a sequence of steps | |
| `VulkanLinux`, `VulkanWindows` | `platform/*/vulkan.rs`, function by function | `VulkanCalls`, `GpuPolicy` |
| `PresentLinux`, `PresentWindows` | surface, swapchain, pipelines, `present_frame`, as programs over the bindings | `VulkanLinux`, `VulkanWindows` |
| `PresentEngine` | executes those programs with failures and a GPU | `PresentLinux`, `PresentWindows` |
| `UiTree`, `UiLayout`, `UiPaint` | node arena and commands; layout, hit test, routing; painting, batches, dirty ranges | each extends the one before |
| `RenderManifest` | extraction, manifest, preparation, UI draw commands and mirror | |
| `RenderResources` | frame slots, command pool, surface; mesh and material tables | |
| `UiFrame` | one frame through window, input, UI and renderer, with the bus between them | `UiPaint`, `RenderManifest`, `RenderResources` |
| `NatSets` | lemmas on sets of numbers: least and greatest elements, induction, solutions of recursive functions, division and remainder; the lists of `Ordered` | `Ordered` |
| `ThreadPoolProofs` | theorems about pool and executor | `ParallelWave` |
| `RingProofs` | theorems about the rings, and the refinement | `MessageRings`, `NatSets` |
| `ScheduleProofs` | theorems about the planner | `Schedule`, `NatSets` |
| `KernelProofs` | theorems about kernel, bus and deferred commands | `Kernel`, `ScheduleProofs` |
| `EcsWorldProofs` | theorems about the ECS | `EcsWorld`, `NatSets` |
| `ReplicatorProofs` | theorems about the replicator | `Replicator`, `NatSets` |
| `RendererProofs` | theorems about the renderer's frames and tables, and the choices of `GpuPolicy` | `UiFrame`, `GpuPolicy`, `NatSets` |
| `MC*` | instances for TLC | |

How state and actions correspond to the code:

* **ThreadPool.** `jobs` is a stack because the code pushes and pops a `Vec` at
  its end. A client's critical section is one step. A worker's is three (lock,
  look, park), because `stop` can be stored between its test (line 159) and the
  wait (162). `WorkerRun` has a `panicked` outcome; `catch_unwind` makes it the
  same as a return. `SpuriousWakeup` is what the standard library allows.
  `Drop` takes the pool exclusively, so it starts only when no call is in progress.
* **SpscRing.** An acquire load returns any value the other side has stored that
  is not older than the one seen before (`pview`, `cview`); that is the
  acquire/release guarantee and no more. Indices wrap at `Modulus`.
* **MpscRing.** Loads, slot access, index store and unlock are separate steps, so
  that a lock that did not exclude would show. A failed compare-exchange changes
  nothing and is not a step. This ring has no `Drop` of its own in the code:
  messages left inside are leaked, which the model does not describe.
* **Schedule.** The recursion of `visit` is an explicit stack, one step per turn
  of its loop. `access_waves` gives levels node by node (`levelled`), then pushes the
  nodes into their waves one by one (`grouped`).
* **Kernel.** One thread. A callback is any sequence of context calls (`publish`,
  `receive`, `defer`, direct world access) followed by a return. `init` runs the
  planner of `Schedule` step by step. A routing violation panics in a debug build
  (`crashed`) and is counted in a release build.
* **EcsWorld.** A component value is the owner it was inserted for, with an
  allocation count that, unlike the generation, does not wrap; aliasing is then
  visible as a value under the wrong owner. Masks are sequences of words, as in
  the code, so that masks of different lengths meet.
* **SyncWal.** A file is a sequence of cells and reads count cells, so a reader
  that lost its place reads across record boundaries. The checksum is
  collision-free. `rename` replaces its target in one step or fails. In a Windows
  build it may also find the target in its way; the log is then removed and the rename
  tried again, two steps with a crash or a second failure possible between them
  (`CompactRemove`, `CompactRenameAgain`, `CompactRenameAgainFails`).
* **Replicator.** `wal[p]` is what a replay of the log returns, which `SyncWal`
  describes in detail. A tag is valid exactly under the nonce it was made for.
  The session handshake that hands out nonces is outside the repository
  (`RenewSession`, external).

* **VulkanCalls and the platform modules.** A binding is a sequence of steps:
  argument checks, resolution of entry points, the calls, what is created, what is
  released by hand before an early return, and the wrapper whose `Drop` owns the
  result. The contents of create-info structures are left out, except the flags of a
  command pool. The two platforms are
  separate translations of separate files; their control flow is the same except for
  the surface and the library.
* **PresentEngine.** `todo` is what is left of the call under way, `locals` its
  variables with a `Drop`; a step that fails releases what the code releases, then
  the locals in reverse order. An entry point may be missing for a whole run, or any
  other call may fail. `misuse` collects broken rules of the API (an object released
  twice, before its children or under a submission; a write under a copy; a draw
  outside a pass). The driver and the GPU are external and do what the specification
  of Vulkan allows.
* **UiTree, UiLayout, UiPaint.** A tree is a value and an operation gives the tree it
  leaves. Lengths are integers, bytes are counted in units of 16. Allocation failure
  is not modelled here.
* **UiFrame.** Window, input, UI and renderer tick in the order their dependencies
  force; a message to a full inbox is lost, as `publish` loses it. Between frames the
  operating system queues events and the game calls the tree or sends messages. The
  outcome of `present_frame` is any of those `PresentEngine` produces.
* **RenderResources.** Every method may be called at any time; one that returns an
  error may have made some of its changes before.

## 3. Runs

Twelve runs; each answers one question.

| run | checks | instance |
|---|---|---|
| `wave_pool` | `PoolInv`: every job in one place, counter exact, mutex exclusive, no worker after the join; `WaitIdleSound`; `TrueMeansWaveDone`; `ExecutorEnds`: `try_run` returns, a refused wave drains, the joins of `Drop` end | 2 workers; one caller with waves of up to 3 jobs, or two callers; stack of 1; spawn may fail |
| `message_rings` | `RingsInv`: no data race, no overwrite, no uninitialised read, exclusive sections, FIFO values, `Drop` destroys what is live; refinement `RingsAreFifos`; `CallsReturn` | inbox: capacity 4, indices modulo 8, 18 pushes; outbox: 2 threads, capacity 2, indices modulo 4, 6 pushes |
| `schedule` | `SortInv`: colours and stack, topological order or a real cycle; `WavesAreExact`: safe and tight; `PlanningEnds` | every registry of up to 3 subsystems with up to 2 dependencies each, 3 kinds of access |
| `ecs_world` | `WorldInv`, `RecyclingIsSafe` (no aliasing, stale handles dead), `QueryVisitsOwners` | 3 slots, 2 component types, 4 spawns, generations modulo 2, words of 2 bits |
| `kernel` | `KernelInv`, `CallbacksInOrder`, `BusIsOrderly` (inbox order, undeclared sends policed), `PublishIsFinal` (no refused message is delivered later), `DespawnHitsTarget`, `CallsReturn` | four scenarios: life cycle with 5 subsystems and a cycle; messages in release and debug; structural commands |
| `wal` | `ReplayIsExact` (torn tail ignored, nothing invented), `CompactionIsTransparent` | both builds, numbers 1 to 3, 2 payloads, 15 cells, 1 torn write |
| `wal_torn` | **violation** of `CrashTolerant` | numbers 1 to 2, 14 cells, 1 torn write |
| `replicator` | `QueueInv` (no number twice, in order up to one crash, the log covers the queues), `AckedIsReached`, `DeliveredInOrder` (deltas in order, nothing twice) | two scenarios: deltas in both directions without failures; one direction with a crash, two sessions and a failing log write |
| `replicator_drain` | `QueuesDrain` | both directions, a failing log write, one retry |
| `present_engine` | `NothingLeaks`, `TeardownInOrder`, `RecordingIsValid`, `DrawsLatestPacket`, `ChoicesAreSupported`, `PresentReturns` | both platforms, 2 images, any one entry point missing or one call failing, 3 calls after `build`, one of them `recreate` |
| `swapchain_recreate` | **violation** of `SwapchainSurvivesRecreate` | no failure, one `recreate` |
| `ui_frame` | `TreeInv`, `FocusIsLive`, `LayoutForgetsPast`, `HitIsPainted`, `PacketIsDrawable`, `MirrorFollowsUi`, `EntitiesDrawnOnce`, `FrameObjectsAgree`, `TablesKeepApart` | nine scenarios of one to three frames, 4 nodes, 4 entities, generations to 2 and 3 |

Why the bounds are enough to be interesting:

* The pool's stack is smaller than the number of jobs, so submissions are refused;
  two workers let one run while the other parks, scans or finishes. With a stack
  of one and waves of up to three, `try_run` fails half way through a wave and the
  next wave shares the pool with the leftovers.
* Ring indices wrap more than once (18 pushes modulo 8; 6 pushes modulo 4), with
  the ring full and empty at every phase of the wrap.
* Three nodes with repeated dependencies, self-loops and all patterns of conflicts
  contain every shape the planner's branches tell apart.
* Four spawns over three slots give three entities alive with one slot recycled
  (a swap-remove in the middle of `dense`), or one slot over two turns of its
  generation; words of two bits put slot 3 in a second word.
* The kernel is initialised twice, so leftovers of the first session (inboxes,
  messages, deferred commands) meet the second.
* The log's file holds three packets or several small records behind one torn one, and
  `Platforms` has both builds, so every end of a compaction occurs.
* Two images are the least `configure_surface` asks for and enough for one frame to
  be recorded while another is in flight; with three calls a frame follows a failed
  one, or a recreation, and a packet is superseded before and after its transfer.
  Two faults at once would only add a failure to a path that is already unwinding.
* Four nodes at depth three allow every shape of reparenting up to a cycle, and with
  two generations a slot is destroyed and used again; three frames let a press, a
  destruction and a release, or three packets with one lost between them, follow each
  other. Four entities over two meshes and two materials overflow a world of three. A
  slot of a mesh or material table is freed up to four times (`MaxFrees`), more than the
  three values of its generation.
* A retry limit of one and a resend age of one make every packet reach resend and
  exhaustion; queues of two fill up.

`CHECK_DEADLOCK FALSE` is used where the system may really stop: a dropped pool
or ring, a finished plan, a kernel that panicked or used up its sessions, a UI scenario at
its bounds.
Symmetry is used only in runs without liveness properties.

### Fairness

* Pool and executor: weak fairness of the owner, strong fairness of each worker's
  and client's own steps. Threads are scheduled and closures terminate; strong
  fairness is the operating system's mutex handing itself to a thread that asks
  again and again. Nothing forces calls, drops or spurious wake-ups.
* `MessageRings`: strong fairness of each thread's steps. The spinlock does not queue;
  a spinning thread is assumed to win some compare-exchange.
* `Schedule`, `Kernel`: weak fairness of the planner's and the kernel's own steps.
  Callbacks make finitely many calls.
* `Replicator`: strong fairness of a pump that finds the link willing to take
  everything. The frame loop pumps every frame; nothing is assumed about delivery.
* `PresentEngine`: weak fairness of the engine's own steps (a call under way keeps
  running) and of the GPU (it finishes what was submitted). A wait on a fence or for
  an image is not a step until it can be answered.
* `UiFrame` states no fairness: its properties are invariants.

## 4. What the runs show

All the safety and liveness properties of the passing runs hold on their
instances. Two runs record places where the code does not do what the repository says:

1. **A torn record poisons the log** (`wal_torn`). `replay` ignores a torn tail, but
   neither `open` nor `append` removes it; the next record is written behind it and
   the following replay fails with `InvalidRecord`.
2. **`recreate` destroys the swapchain it has just made** (`swapchain_recreate`).
   `replacement` keeps the handle that was copied into `self` and is dropped at the
   end of the function, so its `Drop` destroys the new swapchain; the old one, retired
   by the creation of the new, is never destroyed, although the comment takes the
   driver to do that. The next frame acquires from a destroyed handle. The other
   properties of `present_engine` are stated around it: after a `recreate` the
   swapchain is exempt from `NothingLeaks` and `TeardownInOrder`.

Behaviours met while modelling that no property of this project demands otherwise;
the models include them and properties are stated around them:

* `try_new` can hang when a thread cannot be spawned: the error path stores `stop` and
  notifies without the mutex (thread_pool.rs:69), a worker between its test of `stop`
  (159) and its wait (162) misses both, and the join never ends. `Drop` takes the
  mutex before notifying and does not have the problem (`ExecutorEnds`).
* Two threads on one pool can lose a wake-up: the `notify_one` of a submission may
  wake another thread's `wait_idle` instead of the parked worker. Liveness is
  therefore claimed only for one caller, which is how the frame loop uses it.
* `publish` says that it returns `Err` "without dropping the message" (bus.rs:486-488);
  it does drop it, popped from the outbox and refused by the inbox (`LeftIn`). The test
  `bus_inbox_full_rejects_and_keeps_message` looks at the error only. `PublishIsFinal` states what follows: a sender that sees the
  error may send again without the message arriving twice, and must, if it is to arrive.
* "Register exactly one inbox per subsystem" (scheduler.rs:312) holds in the first session
  only: `init` after `shutdown` adds another set, routing uses the first ones, and the
  surplus belongs to nobody. `KernelInv` says both.
* Compaction on Windows can lose the log, although "a failed write does not corrupt the
  original log" (sync.rs:282-284): between `remove_file` and the second `rename`
  (sync.rs:311-312) the packets are in the temporary file only, which nothing ever reads.
  A crash or a failing rename there leaves an empty log, or none.
  `CompactionIsTransparent` excludes exactly this window. (A caller that still holds the
  packets could call `compact` again after the error; nothing in the repository does.)
* A handle becomes alive again after a full turn of its slot's generation;
  `RecyclingIsSafe` is exact about it.
* `Bitset::superset_of` answers false for a shorter mask even if the other's extra
  words are zero. Only tests call it.
* After a restart two deltas of a key may be pending and `enqueue_delta` replaces
  the older; `DeliveredInOrder` claims their order while nobody restarts.
* Numbers may be recovered out of order after a second crash: a packet of the first life
  carries an acknowledgement into the new session and drops from the log what is pending
  again (`try_acknowledge`); `enqueue_delta` then coalesces with a pending delta and logs
  its old number behind later ones; `with_wal` (481-495) rebuilds the queue in the order
  of the log, and the receiver drops the older number as a duplicate of the newer. TLC
  has a counterexample of 23 steps for the order after two crashes and two sessions; the
  inductive invariant showed where to look. `QueueInv` therefore claims the order
  up to one crash, and distinctness always.
* The log holds in-flight packets as well as pending ones, so `with_wal` may refuse
  a log the same configuration produced (`Recoverable`).
* `Drop` of a ring whose tail has wrapped below its head destroys nothing
  (`RingsInv` says so).

Presentation and bindings:

* Three entry points are resolved while something is held that the early return does
  not release: the memory properties (a buffer or depth image without memory),
  `vkDestroyInstance` (the instance), and the flush of mapped memory.
  `NothingLeaks` names what each of them leaves behind (`Strays`) and allows nothing
  else, in these runs or in others.
* `Drop` throws the error of `wait_idle` away (linux/present.rs:351-356,
  windows/present.rs:346-351), although the wait is there to "stop GPU use before field
  destructors release pipelines and targets". When `vkDeviceWaitIdle` is missing or fails,
  the fields are destroyed under a submission that may still run; `TeardownInOrder` allows
  that after such a wait (`Unwaited`) and never otherwise. After a lost device, the usual
  reason for the call to fail, nothing runs any more and no harm is done.
* The command pool is created with no flags (linux/vulkan.rs:3240, windows/vulkan.rs:3161),
  yet every frame resets its command buffer by itself (linux/present.rs:686,
  windows/present.rs:672), which Vulkan allows only for a pool with
  `VK_COMMAND_POOL_CREATE_RESET_COMMAND_BUFFER_BIT`. The model puts the broken rule on
  record for every frame and goes on as drivers do, with the buffer reset;
  `RecordingIsValid` says that this is the one rule frames break, and that they all do.
* The fence is reset before the submission. When the submission fails, the next
  `present_frame` waits for ever; an error between acquisition and presentation
  likewise leaves the image held and the semaphore signalled. `PresentReturns` holds
  for runs in which no frame broke off there (`lost`).
* `VK_SUBOPTIMAL_KHR` from the acquisition or the presentation is an error to the
  caller although the image was acquired or presented.
* A world packet once set can never be cleared, so later UI packets are refused.
* `discover_physical_devices` leaves the loader resolving through an instance it has
  destroyed; `enumerate_handles` cuts the second answer to the first count.
* `default_image_count` is meant to ask for ">= 3 when the driver allows it, else clamped"
  (linux/swapchain.rs:541-542, windows/swapchain.rs:550-551) but asks for the minimum plus
  one: two images on a surface whose minimum is one, also when it allows three or has no
  limit. `ChoicesAreSupported` states both sides: three where the minimum is two or more
  and the driver allows it, exactly two where the minimum is one.
* `configure_surface` insists on two images where a surface allows one, takes an
  extent of 0 by 0 as it is, and `default_image_count` asks for three images when the
  minimum is reported as 0, which Vulkan excludes; queue requests are not compared with a family's count; a
  graphics family without an explicit transfer bit is refused. `ChoicesAreSupported`
  states what holds besides.

UI and renderer:

* Dirty ranges are relative to the last packet painted, not the last one applied:
  after a lost packet or a frame skipped for an overflowing world the mirror is stale
  until the next complete packet. `MirrorFollowsUi` is exact about it.
* A text node narrower than one glyph fails the shaping, and with it the whole UI
  frame, although a comment in `paint.rs` says it does not.
* Children of a hidden node are painted but not hit; children outside a parent whose
  overflow is visible are hit but not painted; the z index orders hits and splits
  batches but does not order painting. `HitIsPainted` is stated inside the ancestors.
* Every node has a clip of its own, so batches never merge across nodes. Margins are
  taken from a node's size but not added to its sibling's offset, so siblings can overlap.
* A press and release within one frame are never seen; the release of any button ends
  the capture; `WindowResized` reaches the renderer only; the last size of a batch
  counts, and is ignored by the UI when it is empty.
* `reparent` checks the depth of the moved node, not of its subtree. `SetStyle` and
  `SetText` do not mark the tree dirty.
* A submission refused for an unsignalled semaphore leaves its command executable and
  its slot acquired, and the frame is over for good: every method refuses it afterwards,
  also when the semaphore has been signalled (`FrameObjectsAgree`). `SurfaceLifecycle::destroy` ignores a live swapchain.
  `MeshTable::remove` never gives bytes back. Generations go from their maximum to 1,
  so a handle kept for a full turn names another mesh (`TablesKeepApart` counts turns).
* `try_encode_into` says that errors leave the caller's storage untouched; a missing
  or an invalid geometry does not. `RendererSubsystem::init` after `shutdown` fails
  its debug assertion.

Every property has a mutant in `PROJECT.json`: an operator that changes one mapped
definition the way a plausible mistake would, under which TLC finds the property
violated.

## 5. What is proved

All theorems are checked by TLAPS and hold for every value of the constants that
meets the assumptions below, not only for the instances of the runs.

| theorem | says |
|---|---|
| `ThreadPoolProofs`: any workers, clients, jobs, stack capacity | |
| `PoolInvariant` | `PoolInv` always holds |
| `PendingCorrect` | `pending` is the number of queued jobs plus busy workers |
| `NoWorkerLeft` | once the pool is gone every worker has exited or was never spawned |
| `WaitIdleIsSound` | `wait_idle` answers true only when every accepted job has finished |
| `ThreadPoolProofs`, the executor: any callers and waves | |
| `WaveUsesPool` | every behaviour of the executor is one of the pool: `WaveSpec => Spec` |
| `PoolInvUnderWaves` | so `PoolInv` holds under the executor |
| `TrueIsSound` | `TrueMeansWaveDone`: `try_run` answers true only when the jobs the pool accepted of its wave have returned |
| `RingProofs`: any capacities and index widths they divide, any number of producers | |
| `RingsAreSafe` | `RingsInv` |
| `RingsImplementFifo` | both rings implement `BoundedFifo` |
| `ScheduleProofs`: any registry, any declared access | |
| `SortIsCorrect` | `SortInv`: the order is topological and complete, or the report is a cycle |
| `WavesAreCorrect` | `WavesAreExact`: waves are safe, in sorted order, and tight |
| `KernelProofs`: any scenarios, any number of sessions and frames | |
| `KernelFitsTogether` | `KernelInv`: callbacks at a place of the order, queues in bounds, an inbox for everyone, and in the first session no others |
| `CallbacksAreOrdered` | `CallbacksInOrder`: dependencies are up before, and down after, what needs them |
| `BusStaysOrderly` | `BusIsOrderly`: inboxes hold what is addressed to them in order, undeclared sends are policed |
| `PublishesAreFinal` | `PublishIsFinal`: an inbox changes by the message being published to it or by its owner only |
| `DespawnsAreExact` | `DespawnHitsTarget`: a deferred despawn kills its own target or nothing |
| `EcsWorldProofs`: any slots, component types, word width, generation modulus | |
| `WorldIsCoherent` | `WorldInv`: table, sparse sets and masks agree, also after an insert that failed late |
| `RecyclingIsSound` | `RecyclingIsSafe`: no aliasing, an old handle is dead except after whole turns |
| `QueriesAreSound` | `QueryVisitsOwners`: also on candidate lists older than despawns |
| `ReplicatorProofs`: any pairs of peers, queue limits, retries, crashes, sessions, failing log writes | |
| `ReplicatorInvariant` | the inductive invariant below |
| `QueuesAreSound` | `QueueInv`: bounds, distinct numbers, order up to one crash, the log covers the queues |
| `AcksAreReached` | `AckedIsReached`: what was dropped as acknowledged was received, or a later number was |
| `DeliveriesAreOrdered` | `DeliveredInOrder`: nothing twice in a session, deltas of a key in order before any crash |
| `RendererProofs`: any mesh sizes, capacities, generation limit | |
| `FrameObjectsStayTogether` | `FrameObjectsAgree`: fence, semaphore, slot and command buffer of a frame move together; a refused submission ends its frame |
| `TablesStayApart` | `TablesKeepApart`: live meshes share no byte, a removed handle is refused for a full turn |
| `QueueFamiliesAreSound` | for any list of families: a plan is missing exactly when a role is, each role gets the first able family, a dedicated one first, three queues are asked for |
| `WorldPacketsStayInBounds` | for packets of any size: what an accepted draw reads exists |

### Assumptions

Each is named, stands in the module that declares the constants, and is evaluated by
TLC in every run of that module.

* `ConstantsAssumption`: finitely many workers, at least one; a positive capacity; the
  two "nothing" values are not workers or jobs. `WaveAssumption`: callers are clients
  and waves are lists of jobs.
* `RingAssumption`, `InboxAssumption`: a capacity of at least 2 that divides the number
  of index values and is smaller (the code asks for a power of two, indices are
  `usize`); "uninitialised" is not a message.
* `RegistriesAssumption`: dependencies are indices of the registry, which is what
  `resolve_dependencies` hands to the planner.
* `KernelAssumption`: bounds are numbers, and a slot is allocated at most as often as
  its generation counter can tell apart (2^32 times in the code). `DespawnsAreExact`
  is false without the last part, and the ECS theorem says precisely how: after a full
  turn an old handle is alive again.
* `EntitiesAssumption`, `WordBitsAssumption`, `EcsAssumption`: positive modulus and word
  width; "no position" (`None` of an `Option<u32>` in the code) is not a position.
* `ResourcesAssumption`: generations start at 1, mesh sizes are numbers.
* `ReplicatorAssumption`: every peer has one other peer, whose peer it is; the queue
  limits and the resend interval are positive, as `try_new` and the pump need them.

### The arguments

None of the properties is inductive as it stands. What each proof adds:

* **Pool.** `pending = Len(jobs) + Cardinality(Busy)` needs the types; that `pending`
  stays a natural number when a worker finishes needs that very count (the worker is in
  `Busy`); that nobody runs a job twice needs that a job is in one place only, which
  needs that two clients never offer the same job; `WaitIdleSound` needs that an
  accepted, unfinished job is on the stack or in a worker's hands. `PoolInv` is the
  conjunction of these, with one lemma per conjunct and one step per action.
* **Executor.** A step of `ParallelWave` is a step of the pool or leaves it alone
  (`WaveStepIsPoolStep`). `CallerInv` then follows a caller through its call: the job it
  is submitting is the head of its list until the pool has accepted it, and between the
  answer of `wait_idle` and the return of `try_run` the wave's jobs stay finished,
  whatever the other callers add (`HistoryGrows`, `PoolMovesClients`).
* **Rings.** The indices are the counts of messages modulo the word (`head =
  received % Modulus`), and the slots from `received` to `sent` hold exactly the messages
  in between (`Holding`), shifted by the one put or taken before the index is stored.
  For the inbox each side's view lies between the other's past and present count
  (`ViewsInv`); that full and empty are told apart although indices wrap is the
  arithmetic of `NatSets` (two counts at most `Capacity` apart are equal when their
  remainders are). The refinement maps the queue to the messages from `received` to
  `sent`; the step of `BoundedFifo` is the store of the index, every other step is a
  stutter.
* **Planner.** `SortIInv`: the stack is a path of edges of GRAY nodes, what lies before a
  cursor is BLACK or the next on the path, BLACK nodes are those in the order, and the
  order is closed under dependencies. A cycle report is a piece of that path.
  `LevelIInv` says that levels are above, and right above one of, the earlier nodes they
  are tied to; `WaveIInv` that each wave holds what was pushed, of its level, in sorted
  order. That no wave is empty follows by descent along the ties; that access waves
  only delay `DependencyLevels` by induction over the order.
* **Kernel.** `GraphInv` is the planner's invariant together with "the plan's
  dependencies are those of the registry"; `FlowInv` says which part of the order is up
  in each state of the life cycle; `BusInv` bounds and orders the inboxes (those of
  earlier sessions included) and keeps the outbox empty between calls, so that what a
  publish pops is its own message and a flush finds nothing (`PublishIsFinal`);
  `FirstInboxes` counts the inboxes of the first session, and a finished plan orders
  every node (`OrderFull`), so there are as many as subsystems; `StructureInv` says that a slot's generation is its
  number of allocations less one, that every issued handle is one of these, and that the
  deferred commands are about issued handles. `Applied`, recursive over the
  commands, is handled through its defining equation (`RecursionHasSolution`) and
  induction over the set of positions where the claim fails (`SetInduction`).
* **ECS.** In four layers: a bit mask of words represents a set (`SetBitMarks`,
  `ClearBitMarks`, `IntersectionMarks`, `WalkMeetsBits`, over division and
  remainder); a storage is a bijection between owners and dense positions that insertion
  and swap-remove keep (`InsertedOK`, `RemovedOK`, `PreparedOK` for an insertion that
  fails late); the table's free list is the complement of the living (`CreatedOK`,
  `DestroyedOK`); and `WorldIInv` ties them: the generation is `(incarnation - 1) %
  Generations`, values belong to the present incarnation, storages hold living slots only.

* **Replicator.** The invariant has three strengths. *Always*, through any crashes: the
  numbers in queue and log are distinct and below the next one to be given out, what is in
  flight was sent (`Numbered`), a payload goes out under one number only (`PayloadsOnce`),
  and what a session delivered was sent and has increasing numbers up to `last_received`
  (`Deliveries`); so nothing is delivered twice. *Up to one crash* (`Ordered1`): the queue
  is in order, and so is the log of a peer that is down, because a log written in one life
  is. *Before any crash* (`FirstLife`): the log covers the queues; every number sent,
  received by the peer or acknowledged by it lies before everything still pending
  (`Passed`), so an acknowledgement never drops from the log what was not sent;
  the `ack` of a packet is at most what its sender has received in the session; a key
  has one pending delta, and of two deltas of a key, pending or sent, the one with the
  larger number has the larger payload. The last part survives coalescing, which gives a new
  payload to an old number, because the pending delta is behind all that were sent. One
  lemma per action; queues filtered by an acknowledgement or after the last retry are
  described by the positions they keep (`Kept`, `KeptFacts`).
* **Renderer.** A step of `UiFrame` is a step of `RenderResources` or leaves its objects
  alone (`NextMoves`). The frame's property is inductive together with the values its
  fields take. For the tables `TableOK` says that a slot's generation is the number of
  times it was freed, modulo the limit, plus one; `RangesOK` that every live mesh lies
  below the end of the data, where the next one goes; `Since` that a removed handle
  carries the generation its slot had then. Two counts less than a turn apart have
  different remainders (`ModWindow` of `NatSets`), which is why an old handle is refused.

Induction is done on sets of numbers (`NatSets`: a non-empty set of naturals has a
least element), because theorems that take a predicate as parameter cannot be
instantiated by the installed provers. The inductive invariants were checked with TLC
on the instances of the runs before they were proved.

### Only model-checked

* All liveness (`ExecutorEnds`, both `CallsReturn`, `PlanningEnds`, `QueuesDrain`,
  `PresentReturns`): fairness is out of the prover's reach.
* The log: `ReplayIsExact` and `CompactionIsTransparent` are about the result of a
  recursive parser over the file, an induction over data.
* `PresentEngine` and its bindings: apart from the choices of queue families and of world
  packets, their programs are finite and carry no parameter worth generalising, so TLC's
  enumeration of failures is already complete for a call.
* The UI tree, layout, paint, mirror and manifest (`TreeInv`, `FocusIsLive`,
  `LayoutForgetsPast`, `HitIsPainted`, `PacketIsDrawable`, `MirrorFollowsUi`,
  `EntitiesDrawnOnce`): each is about the result of a recursive walk or a fold over a tree
  or a list (`preorder`, `destroy` frees a subtree, `layout`, `build_with_resources`),
  which is again an induction over data. `FocusIsLive` too: that a destroyed handle stays
  dead needs to know which slots `destroy` frees.

## 6. What is not modelled

* Not yet (see the plan): memory pool and arena, tracer, asynchronous I/O. They share
  no state with what is modelled.
* Left out for good: the contents of create-info structures (but for a command pool's flags), shader bytes, matrix and
  camera arithmetic, packet byte layout and the HMAC computation, system-call
  wrappers, the native event loops (an arbitrary batch of events), the separate no_std
  build, tools and examples.
* In UI and renderer: diagnostics, DPI scale, contents of keys and texts, opacity,
  gradients, the glyph atlas, eviction of textures and fonts, allocation failure,
  values that are not finite.
* Inside the modelled parts: the frame limiter, tracing, the arena rewind, panics in
  callbacks other than the routing panic, statistics, wrap-around of 64-bit message
  and packet numbers, `attach_wal` on a replicator already in use, and the
  unauthenticated `receive` as an entry point of its own.

Exposures met while reading that no property covers: `attach_wal` on a replicator that
has already numbered packets can queue two with one number (`sync.rs:496`); a recovered
packet carries the acknowledgement of the session it was written in (`sync.rs:722`); two
asynchronous operations with one `user_data` release the wrong buffer
(`io_uring.rs:335`); `append` never counts against `max_records`, nothing calls
`compact`, and a restart counts in-flight packets against `max_pending`
(`sync.rs:262`, `484`).

## 7. Plan

Done, in this order: pool and executor; rings with their abstract queue; planner;
ECS; kernel; log; replicator; proofs for the pool; bindings and presentation engine;
UI, input, window and renderer; proofs for executor, rings, planner, kernel, ECS and
replicator, and the renderer's objects.

Next modules, most important first:

1. `AsyncIo` (`platform/linux/io_uring.rs`, then `iocp.rs`): ownership of a buffer
   from submission to completion, duplicate `user_data`, queue at its limit,
   shutdown with operations outstanding; an abstract specification "every submitted
   buffer is returned exactly once".
2. `MemPool` and `Arena` (`kernel/mem`): generational slots, alignment and overflow
   of the bump pointer, rewind against live borrows.
3. Extensions of `Replicator`: `attach_wal` in use, acknowledgements across sessions;
   `SyncWal` as a refinement of a list of records.
4. `FrameTracer`: the sample ring at its limit.

Proved: pool, executor, rings with their refinement, planner, kernel, ECS, replicator,
the renderer's frames and tables, the choices of `GpuPolicy`. A theorem worth proving next: `TreeInv` of the UI
tree, with the subtree written as a set of nodes below a node instead of the recursive
list, and `FocusIsLive` from it.
