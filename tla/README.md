# TLA+ specifications of vulkan-cocoa-core

vulkan-cocoa-core replaces Apple's window server by a translation layer:
Cocoa, CoreAnimation, Metal and OpenGL calls of an application arrive in Rust
shims, frames are drawn with Vulkan, and C helpers carry surfaces, messages and
timers between processes and threads. This directory holds a specification of
the parts in which processes and threads meet, the TLC configurations that check
them and TLAPS proofs: about the frame slot table, the protocol everything else
hands its pixels through, the compositor host, the frames in flight of the render
context, the event loop's timers, shared surfaces and their name, windows and what
the compositor shows of them, the choice of the device, the handles and memory of
GL buffers and GPU images, and the AIR parser and the bindings it leads to.

## The system

| Part | State it keeps | Operations | What makes it hard |
| --- | --- | --- | --- |
| Frame slots, `native/shm_sync.c` | a table of at most 8 slots in shared memory: state, generation, metadata words, one write cursor | acquire, publish, wait/acquire read, release, slot info | lock-free, shared by processes that may die, metadata stored after the transition that makes it visible |
| Client bridge, `native/client_bridge.c` | one connection record per process | connect, send a surface, disconnect | sends without timeout; a port name used after the lock that protected it |
| Compositor host, `native/compositor_host.c`, `bridge/compositor.rs` | client table (64), frame ring (256), port rights, service thread | three message handlers, pop, release, start, stop, destroy | rights travel with messages; critical sections end before the callbacks they announce; tables that fill |
| Render context, `vulkan_backend/swapchain.rs` and `state_machine.rs`, `frameworks/quartz_core.rs` | frames in flight, fences and semaphores, swapchain and what is built from it, one global mutex | `nextDrawable`, `present`, `setDrawableSize:`, replacing the context | a device that runs behind; rebuilds that fail halfway; blocking calls with the mutex held |
| Event loop, `native/kqueue_event_loop.c` | timer table (32), kernel queue, loop thread | add and remove timer, dispatch, start, stop; descriptors, Mach messages | two steps per call, table and kernel; callbacks that call back in |
| Shared surfaces, `native/iosurface_shm_bridge.c` | named shared memory objects with a header, a table (256) per process | create, open, lock, unlock, destroy | names outlive crashes and are unlinked by name |
| Window classes, `bridge/swizzle.rs`, `frameworks/appkit.rs` | window state by address, monitors | NSWindow, NSView, NSScreen methods | state copied out of a lock and used after it; delegates that call back in; addresses used again |
| Device selection, `vulkan_backend/mod.rs`, `frameworks/metal_sys.rs` | the one shared device | scoring, queue families, creation, `set_global_shared_device` | choice among candidates; failure after creation |
| GL buffers, `frameworks/opengl_sys.rs` | one context: names, bindings, Vulkan memory | six GL calls | failure between destroy and create; a context made without synchronisation; names that wrap |
| GPU images, `vulkan_backend/resource.rs` | per image: handles and who owns the memory | three constructors, destroy | several objects made in turn, each of which may fail |
| AIR translation, `shader_jit/` | a bit reader, block nesting, abbreviations, a binding counter | parse, transform | bounds and alignment arithmetic; a counter that outlives a file |

How they interact. A client process draws in a surface (shared surfaces), claims
and publishes a frame slot, and sends the surface's port to the host (client
bridge, over a kernel port). The host queues the frame and calls back
(`QmvServer`); a consumer reads frames from the slots or the queue. Inside one
process the window classes hand layers to the render context, whose layer
methods run under one global mutex while the Vulkan device works behind them.
That device is chosen and built once and made global; GL buffers and GPU images
are made with it. Timers and input run on the event loop's thread.

The remaining files are listed under [Not modelled](#not-modelled).

### What correctness means, part by part

* **Frame slots.** No two processes are inside one slot; a reader never sees a
  torn frame; what is published is counted, described and, in time, read.
* **Client bridge and host.** Every port right is in one place and is given back
  once; the host answers to the connection that is current; the application's
  view of the clients is the table's; a client's frames arrive in order;
  stopping ends and no sender waits for ever on a host that serves.
* **Render context.** Frame resources are reused only when the device is done
  with them; nothing is freed under the device; presented images belong to the
  current swapchain; the global mutex is given back.
* **Event loop.** Table and kernel agree on which timers exist; a removed timer
  is not called; a fired one is; stopping ends.
* **Shared surfaces.** The table lists exactly the surfaces that exist; the name
  stands for its owner's object and for nothing else.
* **Window classes.** A window that becomes key is announced once; compositor and
  table agree on its size; a closed window leaves nothing behind.
* **Device selection.** The best usable device is built, on the right queues, and
  none only if there is none.
* **GL buffers and GPU images.** Every handle has one owner and is destroyed once;
  memory suits what is bound to it.
* **AIR translation.** What was written is what is parsed; what is missing is
  reported; no two argument buffers share a binding.

## Modules

| Module | Stands for | Depends on |
| --- | --- | --- |
| `FrameExchange` | abstract: boxes of frames, each taken by one reader | |
| `ShmSync` | `shm_sync.c` | `FrameExchange` (refined) |
| `ShmSyncProofs` | theorems about `ShmSync` | `ShmSync`, TLAPS |
| `MachPort` | the kernel's bounded service port | |
| `DropOldestQueue` | abstract: a FIFO that discards its oldest item when full | |
| `ClientBridge` | `client_bridge.c` | `MachPort` |
| `CompositorHost` | `compositor_host.c` | `MachPort` |
| `Compositor` | host and clients composed, and their properties | both, `DropOldestQueue` (refined) |
| `CompositorProofs` | theorems about `Compositor` | `Compositor`, TLAPS |
| `RenderContext` | `swapchain.rs`, `state_machine.rs`, `quartz_core.rs` | |
| `RenderProofs` | theorems about `RenderContext` | `RenderContext`, TLAPS |
| `KqueueLoop` | the timers of `kqueue_event_loop.c` | |
| `KqueueProofs` | theorems about `KqueueLoop` | `KqueueLoop`, TLAPS |
| `SurfaceRegistry` | `iosurface_shm_bridge.c` | |
| `SurfaceProofs` | theorems about `SurfaceRegistry` | `SurfaceRegistry`, TLAPS |
| `WindowState` | the window methods of `swizzle.rs`, the table of `appkit.rs` | |
| `WindowProofs` | theorems about `WindowState` | `WindowState`, TLAPS |
| `DeviceSelection` | the choices of `vulkan_backend/mod.rs` | |
| `DeviceMemory` | the device's memory types and the two searches among them | |
| `GlBuffers` | `opengl_sys.rs` | `DeviceMemory` |
| `GpuImages` | `resource.rs` | `DeviceMemory` |
| `Graphics` | one process: selection, buffers and images composed | the four above |
| `GraphicsProofs` | theorems about `Graphics` | `Graphics`, TLAPS |
| `AirParser` | `air_parser.rs` | |
| `ShaderJit` | `transforms.rs`, `shader_jit/mod.rs` | `AirParser` |
| `ShaderJitProofs` | theorems about `ShaderJit` and `AirParser` | `ShaderJit`, TLAPS |
| `MC...` | instances for TLC | the module named |

Operators marked `mutant` are plausible bugs, kept beside the definition they
alter; nothing in a specification uses them. `PROJECT.json` pairs each checked
property with the one that violates it.

### ShmSync

A step is one access to shared memory. Ownership is not stored in the region: it
is where a process is between two calls (`wpc`, `rpc`). `acquire_write_slot` is
`AcquireWriteSlot`, then for each attempt `BumpCursor` (the fetch-and-add) and
`ClaimFree` or `ClaimTaken` (the compare-and-swap). `publish_slot` is
`PublishSlot`, one `StoreField` for each metadata word in any order, since they
are plain stores between two atomics, and `BumpGeneration`. `wait_for_ready` is
`WaitForReady`, a scan of `TakeReady` and `SkipSlot`, `PollAgain` and `TimeOut`;
with no poll left it is `acquire_read_slot`. Drawing, `BeginDrawing` and
`EndDrawing`, is outside the file: it gives the properties pixels to speak of.
`Crash` stops a process for ever and leaves the region as it is. Counters wrap at
`CursorMod` and `GenMod` (2^32 and 2^64 in the code).

`tried` and `published` are history variables and nothing reads them.

### MachPort, ClientBridge, CompositorHost, Compositor

The service port is a bounded FIFO. A message stands for the right it carries: a
HELLO for the reply port of one connection, a FRAME for one surface.
`rights` is the set of rights the host's task holds; each `mach_port_deallocate`
removes one. A client has a thread that connects and disconnects, under
`conn->lock` through the send, and one that submits: `CheckConnection` copies the
port under the lock, `BeginSend`, `FinishSend` and `FailSend` use the copy. A
connect or disconnect that waits for room holds the lock all the time, so it is
one step, taken when the port accepts the message. `RestartClient` is a crash: no
GOODBYE is sent and the same token connects again.

The host's service thread is a program counter. Each critical section of
`host->lock` is one action and each callback another, so that consumers, other
messages' senders and the owner interleave between them. The client table is a
function from clients to reply rights; which record a client uses cannot be
observed. The ring is modelled with its head, tail and count, because the overflow
path moves all three, and is shown to be a `DropOldestQueue`.

### RenderContext

`StateMachine` chooses the file. `quartz_core.rs` drives `swapchain.rs`; nothing
drives `state_machine.rs`, which has the same interface and is checked under the
same calls. A layer method that cannot block is one action. `nextDrawable` is
`NextDrawableWaits`, `FenceSignaled` and one of the `Acquire...` actions, since it
blocks on the frame's fence and in the acquire. `gpu` is the device's queue,
`ready` the image_available semaphores, `fence` the in_flight fences. A rebuild
(`Build`) succeeds with any image count, fails before the new swapchain exists,
or fails after. A panic, the index into command buffers that a failed rebuild left
empty, poisons the mutex (or ends a process built with `panic = "abort"`). The
extents, formats and render passes are left out: no property depends on them.

The device and the presentation engine are the environment: `GpuFinishes` runs
submissions in order and only when the semaphore they wait for is signaled.
Rendering before the present, which the layer does not do, is not modelled.

### KqueueLoop

`add_timer` reserves a slot under the lock (`ReserveSlot`), then registers with
the kernel (`ArmTimer`, or `ArmFails` and `UndoReserve`). `remove_timer` deletes
the kernel's timer (`DeleteKevent`), then clears the slot (`ClearSlot`). The loop
thread fetches a batch (`KeventReturns`), looks each event up (`Dispatch`) and
calls back outside the lock; a callback may add and remove timers (`Loop` is one
of the callers). Slots are reused; ids are not. `kevent64` failures of the fetch
end a `run_once` that a later one repeats and are left out, as are the descriptors
and Mach messages, which have no table.

The source defines `NOTE_MSECONDS` as 1 where the headers do not; on Darwin that
value means seconds. Durations are not modelled, so nothing here depends on it.

### SurfaceRegistry

Each system call of create, open and destroy is a step, each critical section of
the table another. One name is enough, since names do not interact. Struct
addresses are reused after a free, as `calloc` may. A process may crash between
any two steps: its memory and table go, the name and the object stay.
The header's progress (`none`, `zero`, `magic`, `whole`) is kept because the probe
reads it. `read` of a POSIX shared memory object, which Linux allows and Darwin
does not, is taken to work.

### WindowState

The table's mutex is held for one closure at a time, so each closure is a step and
each message to the compositor or a delegate another. A method that has messages to
send leaves them as frames on its thread's stack. A delegate runs on the same
thread, in a frame of its own (`SendToDelegate`, `DelegateReturns`), and may call any
method of any window, which is how a window is closed from within its own resize.
Of `WindowState` the size, the key flag and the delegate are kept; `Touch` stands for
the methods that only store or read the rest, because `with_window_state` makes an
entry wherever it finds none. `Release` is the end of a closed window, whose address
the next one may get. `decided` and `mixed` are history variables.

### DeviceSelection, DeviceMemory, GlBuffers, GpuImages, Graphics

An *offer* is what the Vulkan instance reports: devices in their order and whether a
surface is given. `SelectDevice` is `build_shared_device` up to the logical device,
`PoolFails` its last failure, `SetGlobalSharedDevice` the only write of
`G_SHARED_DEVICE`. The loops of `pick_queue_families`, `select_physical_device` and
the two searches for a memory type are folds and minima, the features' part of a
score a sum over a set; `SelectionIsBest` and `MemorySuits` say what they should find
without looping. `OffersAssumption` is what Vulkan promises of an offer: types and
features it knows, memory types that exist, and for every buffer one that is coherent
and visible to the host.

A GL call holds the context's mutex from lookup to end and is one step.
`get_context` is two, `FindNoContext` and `StoreContext`, because nothing protects
`GL_CONTEXT`. A Vulkan buffer and its memory are one handle and `live` is the
device's view of it. An `unwrap` that fails ends the process (`aborted`), since a
panic cannot leave an `extern "C"` function. Both builds of `next_id += 1` are there:
`GenBuffers` wraps, `GenOverflows` ends the process.

A `GpuImage` is the set of its handles, `parts` what the device made for it. The
failures of a constructor are two disjuncts, by what they leave behind (`lost`).
`import_from_mach_port` exists on Darwin only and has no memory of its own.

### AirParser, ShaderJit

The bits are real: the hazards of this code are widths, alignment and the end of the
data. A read returns value, position and error, and a read after an error changes
nothing, as `?` does. A loop that reads is a recursive function of the turn. The
recursion of `parse_block` is a stack and each turn of its loop, or of `parse`'s, one
action. The tree of blocks is the sequence in which they begin, each with its depth; a
frame on the stack knows its block by the place in that sequence. `panic` is a
`bits_remaining` with the position behind the end. `ShaderJit` compiles several files
with one `binding_counter`. A text is one byte: properties tell names apart and ask
which contain which tag, no more. The transformer's walk is the order of the places of
records (`Precedes`), so a record's binding is the counter and the number of named
records before it. `MCShaderJit` holds an independent writer of bit streams; `Inputs`
are the files it writes and the blocks it meant.

## Runs

| Run | Question | Instance |
| --- | --- | --- |
| `shm_exchange` | Is the slot table an exchange of whole frames under crashes? | 2 writers, 2 readers, all may crash, 2 slots, 2 frames |
| `shm_metadata` | When is slot info right, and is "full" true? | 1 writer, 2 readers, 3 metadata words, a cursor that wraps |
| `shm_progress` | Is anything lost or left? | 2 writers, 2 readers, 1 crash, fair |
| `compositor_ipc` | Do rights, reply ports and frames survive every interleaving? | 2 clients, 2 connections and 2 surfaces each, port of 2, ring of 2, 1 consumer |
| `compositor_server` | Does QmvServer's host say who its clients are, stop, and let clients go on? | 2 clients for a table of 1, port of 1, ring of 1, no consumer, fair |
| `render_vsync` | Is `state_machine.rs` sound for a well-behaved application? | 3 frames, 2 or 3 images, one drawable at a time, fair |
| `render_polling` | When can `swapchain.rs` keep the global mutex? | 2 frames, 2 or 3 images, 2 drawables, losses and failed submits, fair |
| `loop_timers` | Do table and kernel agree, and is every event delivered or cancelled? | 2 threads and the callbacks, 2 slots, 4 ids, batches of 1, fair |
| `surface_names` | Do the table and the name follow the surfaces? | 3 threads of 2 processes, 1 table slot, 2 addresses, 2 objects |
| `graphics_device` | Is the right device built, and does every handle made with it keep one owner? | about 800 offers; 2 threads, 4 names, 2 buffers, 1 image, 3 kinds of memory |
| `shader_jit` | Is a file parsed as written, and what happens at its end? | 5 streams, whole, cut at every byte and in 6 wrappers; 2 files in a row |
| `windows` | What do delegate, compositor and table know of a window? | 2 threads, 2 windows, one of them shared, 2 sizes, calls nested 3 deep |

All of them pass. Deadlock is checked in `shm_progress` and `loop_timers`. In the
other runs the system may rightly stop: every process has crashed, the host is
destroyed and its clients have used up their bounds, the context is poisoned, the
objects are used up, no device could be built, the files are compiled.

**Bounds.** Each table, ring, port and batch is small enough to fill, overflow and
wrap in a run, and there are more clients, timers or surfaces than room. Two
processes on each side give every race between equals, and between those in
different steps of one call. `MaxConnects`, `MaxFrames`, `MaxId`, `MaxObjects`,
`MaxQueued`, `MaxHeld`, `MaxCompiles`, `MaxGen` and `MaxDepth` bound counters the code leaves unbounded; each allows one
more round than a fault needs (a second connection, a slot's second id, the object
that takes a name over). `IdMod` (2^32 in the code) is 4, so that names run out and wrap. A stack of three
frames holds a method, the delegate it calls and a call of the delegate's own.
The offers have every list of up to three queue families from six kinds and
every pair of devices among the plainest and the richest of each type, so that each
rule of the score decides a case. Symmetry is used only in runs without liveness. `GenMod` is 1
where the generation is not the question and 2 where it is.

**What is asked conditionally, and why.**

* `MetadataSettled` is asked of one publisher whose `publish_slot` has returned.
  Between the READY transition and the stores a reader gets the previous frame's
  words, and with two publishers the slower one can overwrite later words.
* `FullTableSeen` is asked of one writer and of a slot count that divides the
  cursor's modulus: two writers share one cursor and skip each other's slots, and at
  2^32 a table of 3, 5, 6 or 7 slots is visited unevenly.
* `CallbackPortLive` is about a host without consumers. With one, the frame can be
  popped and its port released before the callback has looked at its copy.
* `ReplyRightCurrent` needs room for every client: a refused client is never told.
* `DrawablesPresentable`, `FenceGuardsReuse`, `SubmissionsCanRun` and
  `PanicNeedsFailedBuild` are checked of
  `state_machine.rs`. `swapchain.rs` frees command buffers in flight and returns an
  index of the old swapchain after a suboptimal acquire; these two differences are
  the mutants that break the properties. A suboptimal acquire of `swapchain.rs` also
  returns with the fence signaled, and its submission then names a signaled fence.
* `StuckOnlyIfStrayed` and `LockReleased` except an application that has strayed
  (lost a drawable, asked for a second one, submitted on a signaled fence): the wait
  on a reset fence then never ends and the mutex stays taken. `LockReleased` also
  excepts a swapchain all of whose images are acquired, which suboptimal acquires
  followed by failed rebuilds can bring about.

* `HandlesAccounted` is not claimed of GL buffers once two threads have raced through
  `get_context` or names have wrapped around (`reused`): the context's handles, or
  those of the name given out twice, are then lost. Of image constructors that fail it
  bounds what is lost: the image always, the memory after it, an imported descriptor
  with the memory although the caller sees only an error.
* `PanicNeedsPartialWord` says when the parser may run off its data: never in a body of
  whole words.
* `CompositorCurrent`, `ClosedForgotten` and the second half of `KeyAnnouncedOnce` are
  asked of windows that no two threads have been in at once (`mixed`). With two, a
  size or a `window_shown` can reach the compositor after `window_closed`.

**What the runs do not say.** `TypeOK` is listed in a run where a plausible bug of the code
would break it; that of `RenderContext`, `KqueueLoop`, `SurfaceRegistry`,
`WindowState` and `Graphics` is there to be read and to be added to a run. `SelectionIsBest` speaks of heaps of up to 96 GiB: the score adds a
point for every 64 MiB, so that an integrated GPU with terabytes of its own would
outscore a discrete one. The fallback of `glBufferData` to memory type 0 cannot be reached: Vulkan
gives every buffer a coherent host-visible type. `compile_air_to_spirv` returns the
words of its input, since `transformed_spirv_patches` is never filled.

**Assumptions about callers.** The shared device is made global once; the GpuImage
constructors get that device; windows are closed before they are released. A name has one owner at a time, except after a crash;
a surface is destroyed by nobody while another thread works on it; the owner of a
host or loop is one thread other than the one it stops, and nobody uses either
after destroying it; slots are published and released by those who acquired them;
`run_once` is called by the service threads only. `pthread_join` of a thread whose
creation failed is undefined; the models let it return.

**Fairness.** Each fair specification assumes what a scheduler gives. `ShmSync`: a
live process takes its next step, a reader keeps asking, a writer need not.
`Compositor`: the service thread runs, its callbacks return, a join returns when the
thread is gone; strong fairness of `FinishSend` says the kernel lets the senders
blocked on one port through in turn. `RenderContext`: the device finishes what it
can run, a thread whose fence is signaled continues, and an acquire that is again
and again possible gives an image at last (strong fairness of `AcquireOptimal`: the
presentation engine does not withhold its images for ever). `KqueueLoop`: the loop's
thread runs; strong fairness of `CallbackReturns` says a callback returns although
it may make calls of its own on the way.

## Proofs

Each theorem holds for every value of the constants that satisfies the assumptions
the module states of them.

| Module | Theorem | States | For any |
| --- | --- | --- | --- |
| `ShmSyncProofs` | `TypeCorrect` | `Spec => []TypeOK` | slots, writers, readers, frames, metadata words, crashes, widths of cursor and generation |
| | `Ownership` | `Spec => []SlotOwnership` | |
| | `ReadersSeeWholeFrames` | `Spec => []WholeFrames` | |
| | `ImplementsExchange` | `Spec => ExchangeSpec` | |
| | `CountsPublications` | `Spec => []GenerationCounts` | |
| | `SettledMetadata` | `Spec => []MetadataSettled` | the same, and one publisher |
| | `FullIsSeen` | `Spec => []FullTableSeen` | one publisher, slots that divide `CursorMod` |
| `CompositorProofs` | `TypeCorrect` | `Spec => []TypeOK` | clients, consumers, sizes of port, ring and table |
| | `CallbacksMatch` | `Spec => []NotificationsMatch` | |
| | `ImplementsQueue` | `Spec => QueueSpec` | |
| | `InOrder` | `Spec => []FramesInOrder` | |
| | `NothingLeaks` | `Spec => []RightsAccounted` | |
| | `RepliesCurrent` | `Spec => []ReplyRightCurrent` | |
| | `PortLive` | `Spec => []CallbackPortLive` | the same, without consumers |
| `RenderProofs` | `FencesGuard` | `Spec => []FenceGuardsReuse` | frames in flight, image counts, work queued, with `OneDrawable` |
| | `WorkCanRun` | `Spec => []SubmissionsCanRun` | |
| | `CanPresent` | `Spec => []DrawablesPresentable` | |
| | `PanicsExplained` | `Spec => []PanicNeedsFailedBuild` | |
| | `StuckExplained` | `Spec => []StuckOnlyIfStrayed` | the same of both files and any application |
| `KqueueProofs` | `SlotsMatch` | `Spec => []SlotsMatchKernel` | threads, slots, timers, batch size |
| | `LookupNotLate` | `Spec => NoLateLookup` | |
| `SurfaceProofs` | `TablesTrack` | `Spec => []TableTracksSurfaces` | threads, processes, table size, addresses, objects |
| | `NameFollows` | `Spec => []NameFollowsOwner` | |
| `WindowProofs` | `KeyAnnounced` | `Spec => []KeyAnnouncedOnce` | threads, windows, sizes, depth of nested calls |
| | `ViewCurrent` | `Spec => []CompositorCurrent` | |
| | `ClosedLeavesNothing` | `Spec => []ClosedForgotten` | |
| `GraphicsProofs` | `Accounted` | `Spec => []HandlesAccounted` | offers, threads, buffers, images, memory types, width of names |
| | `Suited` | `Spec => []MemorySuits` | |
| | `Selected` | `Spec => []SelectionIsBest` | the same, with `Ordinary` |
| `ShaderJitProofs` | `ShaderInvariant` | `Spec => []IInv` | files, names, tags |
| | `WholeWordsNeverPanic` | `Spec => []PanicNeedsPartialWord` | |
| | `ParsedBindingsDistinct` | `Spec => []BindingsOf(blocks)` | |
| | `WrittenBindingsDistinct` | `Spec /\ []FaithfulParse => []BindingsDistinct` | |
| | `BlocksNest` | `Spec => []BlocksNested` | |

**ShmSync.** The assumptions: writers and readers are different processes, there is
at least one slot, `Torn` and `Empty` are not frames. `MayCrash` is any set of the
processes. Neither ownership nor wholeness is inductive alone. A writer's
publication keeps `WholeFrames` only if what it drew is still in its slot
(`DrawnFrames`), that only if no one else draws there (`SlotOwnership`), and the
steps of a call keep their types only if its loop counter is in range
(`LocalsOK`). `ExchangeInv`, the conjunction of the four and `TypeOK`, is inductive:
one lemma per group of actions shows that a writer's, a reader's and a crash's step
preserve it. The refinement reads a box as the pixels of a READY slot and a hand as
the pixels of the slot a reader holds. `PublishSlot` is then `Put`, `TakeReady` is
`Take`, `ReleaseReadSlot` is `GiveBack`, and every other step is a stutter: drawing
touches only WRITING slots, which are in no box and no hand.

Three more invariants rest on these. `GenerationCounts` becomes inductive once the
publishers inside `publish_slot` are finitely many, which they always are (`CountInv`):
each owes its slot one increment, and increments modulo `GenMod` commute.
`SettledMetadata` and `FullIsSeen` take one publisher (`OnePublisher`), as the
properties do. `MetaInv` says of a publication under way that the words not yet stored
are exactly `todo`. `RoundInv` remembers the slot at which an acquire began: the n-th
attempt looks at the n-th slot after it, and the cursor is one ahead, also when it wraps,
because `SlotCount` divides `CursorMod` (`EvenRounds`). The module begins with what that
needs of `%`: a round reaches every cell, each once.

**Compositor.** The assumptions are those of `MachPort` and `CompositorHost`: sizes are at
least one, `NoMsg` is no message, clients and consumers are finitely many (of infinitely
many rights nothing could be counted). What a consumer is given or the service thread has in
hand is a frame only if the ring's three counters agree and what they enclose are frames
(`QueueInv`), and a frame being sent has been counted (`ClientsInv`). What the application
was told differs from the client table exactly while a callback is due (`NotifyInv`). That
would break if the owner could start a second service thread, so `ThreadInv` follows the
thread through stop and destroy. The refinement reads the queue as the ring cells that head
and count enclose. On a full ring a push moves head and tail past the cell
it overwrites, as `Push` drops its oldest item; pop is `Pop`, destroy is `Discard`, and no
other step touches the ring.

The other four theorems follow messages from the client that sends them to the consumer that
releases them. `WayInv` says what each message on the way is older than: the frames
queued are older than the one being handled, that than those in the port, and what is
in hands is older than all of its client. A client's last frame still waiting for room
has not been sent, so the bound is `LastSent` and not the client's count. `FramesInOrder`
is part of this. `RightsInv` says that the host's rights are those of the four places;
that they are as many as the places hold, and none is twice, is again `WayInv`, by which
no two messages on the way are alike. For `ReplyRightCurrent`, `CurrentInv` says where
the latest hello of a connected client is: last of its messages in the port, or being
handled, or in the table with no goodbye after it; it is never refused when the table
has room for all. For `CallbackPortLive`, `LiveInv` says that a frame whose callback
runs is still in the queue, as nobody but a consumer or a later push removes one.

**RenderContext.** `OneDrawable` says which file and which application: `state_machine.rs`,
and one that presents each drawable before it asks for the next. Without it the
properties are false, as the run's mutants and the conditions above show. The invariant
follows the one drawable. `HeldInv`: the acquire reset the fence and signaled the semaphore
of the current frame, whose drawable is held between calls only. `GpuInv`: a submission's
fence is its own and unsignaled until the device is done, so the next acquire on that
frame waits, and a rebuild, which waits for the device first, finds nothing to free under it.

`StuckExplained` needs no condition and covers `swapchain.rs`. Until the application
strays, every fence a wait could block on has someone to signal it (`StuckInv`): a reset
fence belongs to the drawable held, which will be submitted with it (`ResetHeld`), and a
submitted one to exactly one submission, whose semaphore and those of the submissions
before it are signaled (`Flight`). Staleness of the drawable and rebuilds do not matter to
it, so it holds of `swapchain.rs` too, whose differences break the other properties.

**KqueueLoop.** The assumptions: the loop's thread is none of the users, and there
is room for a slot, an event and an id. `SlotsMatchKernel` says nothing of a call
that is half done, so it does not survive the second half. `LoopInv` adds where the
threads are (`CallsInv`): an `add_timer` between its steps has its slot to itself and
nobody knows its id; a `remove_timer` between its steps has been to the kernel, so
the slot it clears is one the kernel no longer fires for. Both rest on ids being
given out once (`IdsInv`), the reason why a slot can be reused and an id cannot.
`RemovedInv`, no removed timer is in the table, gives `NoLateLookup`: the lookup is
the only way to a callback. Three lemmas say what withdrawing, appending and
fetching do to the queue of events.

**SurfaceRegistry.** The assumptions: every thread has a process, the table has a slot,
and NULL is no address. Both properties speak of surfaces no call works on, so the
invariant adds the ones in a call. `Fits` is what each step of create, open and destroy
has made of its struct while the name stands for something: a creator past `shm_open`
owns what the name opens, a destroy past its unlink owns a name that is gone.
`ApartInv`, no two calls of a process have one struct, keeps the rest of a process's
calls where they were. `OwnerInv`, the owner of the name is one, is why the unlink of a
failed create or of a destroy hits its own name; it rests on the callers' rule that one
owner uses a name at a time, a guard of the model. `ListedInv` is `TableTracksSurfaces`
with the calls added. A crash leaves the name to `orphaned`, from which the next create
takes it.

**WindowState.** The assumptions: sizes are positive, and each window is used by some of the
threads. The invariant speaks of one window and of what stands about it on the stacks
(`On`), since a step is about one window. The three properties speak of quiet windows or
of the top of a stack; `CallsInv` says the same of the middle of a call: of a window that one thread at a time uses, every message still to
be sent says what the table says now (`SentInv`), and if none is for the compositor its
view is right already (`ViewInv`). A delegate is the difficulty: it calls methods of its
own window while its caller has more to send. It may, as a caller has then sent
everything for the compositor: the order of frames on a stack (`Tidy`).

**Graphics.** The assumptions are those of `GlBuffers` and `OffersAssumption`.
`HandlesAccounted` is inductive for the images once it is known that memory is owned and comes with an image (`ImageInv`), since `destroy` goes by the
ownership flag. For the buffers it speaks only of a process that has neither ended
nor lost names; no step leads back to that state, so what is missing is only that
without a context there are no names (`GlInv`).

`MemorySuits` needs that the global device is one of those offered and that the searches
find something: `MemoryInv` is inductive with `ChoiceInv`. For images the search may fail,
and the constructor then fails; for buffers it cannot, by Vulkan's promise.

`SelectionIsBest` is the one theorem about loops over data. A property of every round of a
loop is proved by looking at the least round for which it fails: sets of numbers have
a least member (`Least`), and that lemma needs no operator parameter. `LoopExists` shows that the
recursion which a fold stands for has a solution and `LoopSteps` that it takes the loop's
steps one at a time. From the steps follow what each loop finds: `DedicatedIsFirst`,
`GraphicsIsFirst`, and `DeviceIsBest`, the last of those with the highest score, as
`max_by_key` has it. `FeaturesAdd` and `ScoreBounds` bound the score, and `KindDecides` then says
when the kind of a GPU decides: `Ordinary`, memory of its own of at most 96 GiB and images of at
most 32768, or less of one and more of the other. Without it that one conjunct is false, as
a score counts memory without limit; the rest needs only `OffersAssumption`.

**AirParser, ShaderJit.** The assumption: a file is a sequence of bits, with a size if
it is in a wrapper. Nothing is assumed of the bits, so the theorems hold of every
damaged file. A loop that reads is a recursive function, and a definition in `LET` has a
value only if the recursion has a solution: `LoopExists` shows that, by the least number
argument again, and `LoopType` that what every turn keeps holds of the last. One lemma
per kind of read follows, and each says the same (`Res`): a value of the right kind, a
position no further than the word the body ends in, and an error that is `panic` only if
that word is not whole. `ParserOK` carries this through the steps. `align32` is why the
position may pass the end at all and why it cannot in whole words, which is
`PanicNeedsPartialWord`. `JitOK` says that all bindings given are below the counter, so
that those of the next file, `counter` plus the rank of a named record (`EarlierIs`,
`BindingsAre`), are new; a file that fails leaves map and counter alone. What the
buffers of a file are is what was parsed: `BindingsOf(blocks)` holds of any file, and is
`BindingsDistinct` where the parse is faithful. `BlocksNested` says that the flat
sequence of blocks is what `parse_block` builds.

**Only model-checked.** Liveness under fairness, which is beyond the prover:
`LowestSlotServed`, `DrainedWhenQuiet`, `SendersUnblock`, `LockReleased`,
`FiredIsDelivered` and `StopReturns` of host and loop. `FaithfulParse`: it compares the
parser with a writer, which only the instance has, and a proof would be an induction
over the files that writer can write; `WrittenBindingsDistinct` takes it as a
hypothesis, which the run shows to hold of the instance. `TypeOK` of the other modules:
their invariants contain types where a proof needs them. Of `swapchain.rs` nothing but
`StuckOnlyIfStrayed` is proved, and the properties of the four theorems with
`OneDrawable` are not claimed.

## Not modelled

* **Monitors and NSScreen** (`appkit.rs`, `swizzle.rs`): a list replaced and copied
  under its own mutex. A screen is an index into it, with a default frame once the list
  has become shorter.
* **Installing classes and methods** (`swizzle.rs`): done once at start, by one thread.
* **Views**: they share the window's table by address and are never removed from it. A
  view's life has no end in this code, so nothing can be asked of it.
* **`qmv_surface_lock`, `unlock` and the frame counter** (`iosurface_shm_bridge.c`): the
  lock sets a bit without looking at its old value and excludes nobody.
* **Creating and opening the slot region** (`shm_sync.c`): its hazard is that of the
  surface header, magic before size, which `SurfaceRegistry` has.
* **Descriptors and Mach messages of the event loop**: no table.
* **The selector cache** (`objc_runtime_bridge.c`): append-only under a mutex, capped at
  128. A second store of a selector is kept and never found.
* **Frame resolution, input events, instance and surface helpers, display and GPU
  enumeration in Swift, developer tools, module roots**: stateless translations, queries
  and scripts.

## Plan

In the order of what the system depends on most; all but the ninth are here.

1. `ShmSync`, `FrameExchange`, with proofs.
2. `MachPort`, `ClientBridge`, `CompositorHost`, `Compositor`, `DropOldestQueue`.
3. `RenderContext`.
4. `KqueueLoop` (timers).
5. `SurfaceRegistry` (create, open, destroy).
6. `WindowState`.
7. `DeviceSelection`, `DeviceMemory`, `GlBuffers`, `GpuImages`, `Graphics`.
8. `AirParser`, `ShaderJit`.
9. Surface lock and frame counter, added to `SurfaceRegistry`; creating and opening
   the slot region, added to `ShmSync`.
10. Proofs: here are all invariants of the runs but `FaithfulParse`, two refinements and
    the action property `NoLateLookup`.
