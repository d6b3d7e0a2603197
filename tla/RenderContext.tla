--------------------------- MODULE RenderContext ----------------------------
(***************************************************************************)
(* vulkan_backend/swapchain.rs and its older twin state_machine.rs: the    *)
(* per-window WindowRenderContext, driven through the CAMetalLayer calls   *)
(* of frameworks/quartz_core.rs, which run it under one global mutex.      *)
(* StateMachine selects the file: the two differ in what an acquire does   *)
(* and in whether the old resources are destroyed behind device_wait_idle. *)
(*                                                                         *)
(* A call that never blocks is one step, since it holds the mutex          *)
(* throughout; nextDrawable blocks twice inside tick, on the frame's fence *)
(* and in the acquire, and is three steps.  The device runs submissions in *)
(* order.  An image is its index; a drawable remembers whether it was      *)
(* acquired from the swapchain that is current now.  A panic poisons the   *)
(* mutex, or ends a process built with panic = "abort": either way it is   *)
(* the last thing the layer does.                                          *)
(***************************************************************************)
EXTENDS Integers, Sequences, SequencesExt

CONSTANTS StateMachine,  \* TRUE: state_machine.rs, FALSE: swapchain.rs
          FrameCount,    \* MAX_FRAMES_IN_FLIGHT, 3
          ImageCounts,   \* the image counts a surface may give a swapchain
          MaxHeld,       \* bound: drawables the application holds at once
          MaxQueued,     \* bound: submissions the device has not finished
          MayStray       \* TRUE: drawables may be lost, submits may fail

ASSUME RenderAssumption ==
  /\ StateMachine \in BOOLEAN /\ MayStray \in BOOLEAN
  /\ FrameCount \in Nat \ {0, 1}
  /\ ImageCounts \subseteq Nat \ {0} /\ ImageCounts # {}
  /\ MaxHeld \in Nat \ {0} /\ MaxQueued \in Nat \ {0}

VARIABLES
  at,            \* RUST_RENDER_CONTEXT: no context, free, poisoned, or the
                 \* place where nextDrawable blocks while holding the mutex
  pending,       \* pending_resize.flag
  renderState,   \* self.state
  currentFrame,  \* self.current_frame
  fence,         \* fence[f]: in_flight of frame f; "reset" is unsignaled with
                 \* no submission that would signal it
  ready,         \* ready[f]: image_available of frame f is signaled
  swapchain,     \* how many images self.swapchain has
  images,        \* how many command buffers and framebuffers exist
  acquired,      \* images of self.swapchain acquired and not presented
  drawables,     \* CAMetalDrawables the application holds
  gpu,           \* submissions the device has not finished, oldest first
  strayed        \* history: a drawable was lost, a submit failed, or a
                 \* drawable was requested while another was held, or work
                 \* was submitted with a fence still signaled

contextVars == <<pending, renderState, currentFrame, swapchain, images, acquired>>
vars == <<at, contextVars, fence, ready, drawables, gpu, strayed>>

Frames           == 0 .. FrameCount - 1
NextOf(f)        == (f + 1) % FrameCount
MaxImages        == Max(ImageCounts)
Drawables        == [image : 0 .. MaxImages - 1, fresh : BOOLEAN]
Submissions      == [frame : Frames, freed : BOOLEAN]

TypeOK ==
  /\ at \in {"none", "free", "waiting", "acquiring", "poisoned"}
  /\ pending \in BOOLEAN
  /\ renderState \in {"Uninitialized", "Ready", "Recreating"}
  /\ currentFrame \in Frames
  /\ fence \in [Frames -> {"signaled", "reset", "submitted"}]
  /\ ready \in [Frames -> BOOLEAN]
  /\ swapchain \in ImageCounts \cup {0}
  /\ images \in {0, swapchain}
  /\ acquired \subseteq 0 .. swapchain - 1
  /\ drawables \in Seq(Drawables) /\ Len(drawables) <= MaxHeld
  /\ gpu \in Seq(Submissions) /\ Len(gpu) <= MaxQueued
  /\ strayed \in BOOLEAN

Init ==
  /\ at = "none"
  /\ pending = FALSE
  /\ renderState = "Uninitialized"
  /\ currentFrame = 0
  /\ fence = [f \in Frames |-> "signaled"]
  /\ ready = [f \in Frames |-> FALSE]
  /\ swapchain = 0 /\ images = 0 /\ acquired = {}
  /\ drawables = <<>>
  /\ gpu = <<>>
  /\ strayed = FALSE

------------------------------------------------------------------------------
(* build_swapchain and destroy_swapchain_resources.                         *)

Stale(held) == [k \in DOMAIN held |-> [held[k] EXCEPT !.fresh = FALSE]]

\* device_wait_idle returns once every queued submission of q has run.
WaitIdle(q, sem, fen) ==
  LET queued == {q[i].frame : i \in DOMAIN q}
  IN /\ \A f \in queued : sem[f]
     /\ gpu' = <<>>
     /\ ready' = [f \in Frames |-> sem[f] /\ f \notin queued]
     /\ fence' = [f \in Frames |-> IF f \in queued THEN "signaled" ELSE fen[f]]

\* state_machine.rs waits for the device first; swapchain.rs frees the command
\* buffers at once, those of queued submissions included.
DestroyWithoutWaiting(q, sem, fen) ==
  /\ gpu' = [i \in DOMAIN q |-> [q[i] EXCEPT !.freed = TRUE]]
  /\ ready' = sem
  /\ fence' = fen

DestroyResources(q, sem, fen) ==
  IF StateMachine THEN WaitIdle(q, sem, fen) ELSE DestroyWithoutWaiting(q, sem, fen)

\* A build that returns Ok: a new swapchain of n images and all that goes with
\* it; drawables acquired earlier belong to a swapchain that is gone.
BuildOk(n, held) ==
  /\ swapchain' = n /\ images' = n /\ acquired' = {}
  /\ drawables' = Stale(held)

\* A build that returns Err has already destroyed the old resources; it keeps
\* the old swapchain if it fails before create_swapchain returns.
BuildErr(held, acq) ==
  /\ images' = 0
  /\ \/ swapchain' = swapchain /\ acquired' = acq /\ drawables' = held
     \/ swapchain' \in ImageCounts /\ acquired' = {} /\ drawables' = Stale(held)

Build(held, acq) == (\E n \in ImageCounts : BuildOk(n, held)) \/ BuildErr(held, acq)

\* A rebuild inside tick, which leaves the state Recreating when it fails.
TickRebuilds(sem) ==
  /\ DestroyResources(gpu, sem, fence)
  /\ Build(drawables, acquired)
  /\ renderState' = IF images' > 0 THEN "Ready" ELSE "Recreating"

------------------------------------------------------------------------------
(* The layer's methods, each under the global mutex.                        *)

\* mutant: forgets VK_FENCE_CREATE_SIGNALED
UnsignaledFences == [f \in Frames |-> "reset"]

NewFences == [f \in Frames |-> "signaled"]

\* Dropping a context waits for the device to run what is queued.
DropContext ==
  /\ \A i \in DOMAIN gpu : ready[gpu[i].frame]
  /\ gpu' = <<>>

\* set_global_render_context with a context that new could build: a context it
\* replaces is dropped.  The new one has its own frames, with signaled fences.
SetContext ==
  /\ at \in {"none", "free"}
  /\ MayStray \/ drawables = <<>>
  /\ strayed' = (strayed \/ drawables # <<>>)
  /\ DropContext
  /\ fence' = NewFences
  /\ ready' = [f \in Frames |-> FALSE]
  /\ \E n \in ImageCounts : BuildOk(n, drawables)
  /\ renderState' = "Ready"
  /\ currentFrame' = 0
  /\ pending' = FALSE
  /\ at' = "free"

\* setDrawableSize: -> request_resize.
SetDrawableSize ==
  /\ at = "free"
  /\ pending' = TRUE
  /\ UNCHANGED <<at, renderState, currentFrame, swapchain, images, acquired,
                 fence, ready, drawables, gpu, strayed>>

Asks == Len(drawables) < MaxHeld /\ strayed' = (strayed \/ drawables # <<>>)

\* nextDrawable, tick takes a pending resize: it rebuilds and returns Recreated,
\* which the layer turns into nil.
NextDrawableRecreates ==
  /\ at = "free" /\ pending
  /\ Asks
  /\ pending' = FALSE
  /\ TickRebuilds(ready)
  /\ UNCHANGED <<at, currentFrame>>

\* nextDrawable, no resize pending: wait_for_fences on the current frame.
NextDrawableWaits ==
  /\ at = "free" /\ ~pending
  /\ Asks
  /\ at' = "waiting"
  /\ UNCHANGED <<contextVars, fence, ready, drawables, gpu>>

\* mutant: goes on when the wait times out
FenceUnawaited ==
  /\ at = "waiting"
  /\ at' = "acquiring"
  /\ UNCHANGED <<contextVars, fence, ready, drawables, gpu, strayed>>

\* mutant: resets the fence before the acquire
ResetBeforeAcquire ==
  /\ at = "waiting"
  /\ fence[currentFrame] = "signaled"
  /\ fence' = [fence EXCEPT ![currentFrame] = "reset"]
  /\ at' = "acquiring"
  /\ UNCHANGED <<contextVars, ready, drawables, gpu, strayed>>

FenceSignaled ==
  /\ at = "waiting"
  /\ fence[currentFrame] = "signaled"
  /\ at' = "acquiring"
  /\ UNCHANGED <<contextVars, fence, ready, drawables, gpu, strayed>>

\* The semaphore an acquire of the current frame signals.
Signal(f) == [ready EXCEPT ![f] = TRUE]

\* acquire_next_image gives image i: the fence is reset, and the layer wraps the
\* image in a drawable.  After a failed rebuild there is no command buffer to
\* index and tick panics, poisoning the mutex.  The reset or the allocation of
\* the drawable may fail, and the acquired image is then lost.
AcquireOptimal ==
  /\ at = "acquiring"
  /\ \E i \in 0 .. swapchain - 1 \ acquired, reset \in BOOLEAN :
       /\ acquired' = acquired \cup {i}
       /\ fence' = IF reset THEN [fence EXCEPT ![currentFrame] = "reset"] ELSE fence
       /\ \/ /\ reset /\ i < images
             /\ drawables' = Append(drawables, [image |-> i, fresh |-> TRUE])
             /\ at' = "free"
             /\ UNCHANGED strayed
          \/ /\ MayStray /\ (reset => i < images)
             /\ strayed' = TRUE
             /\ at' = "free"
             /\ UNCHANGED drawables
          \/ /\ reset /\ i >= images
             /\ at' = "poisoned"
             /\ UNCHANGED <<drawables, strayed>>
  /\ ready' = Signal(currentFrame)
  /\ UNCHANGED <<pending, renderState, currentFrame, swapchain, images, gpu>>

\* swapchain.rs, a suboptimal acquire: the swapchain is rebuilt and the index
\* acquired from the old one is returned, without resetting the fence.
SuboptimalAcquired ==
  /\ at = "acquiring"
  /\ \E i \in 0 .. swapchain - 1 \ acquired :
       \/ \E n \in ImageCounts :
            /\ i < n
            /\ BuildOk(n, Append(drawables, [image |-> i, fresh |-> FALSE]))
            /\ renderState' = "Ready"
            /\ at' = "free"
       \/ \E n \in ImageCounts :
            /\ i >= n
            /\ BuildOk(n, drawables)
            /\ renderState' = "Ready"
            /\ at' = "poisoned"
       \/ /\ BuildErr(drawables, acquired \cup {i})
          /\ renderState' = "Recreating"
          /\ at' = "free"
  /\ DestroyResources(gpu, Signal(currentFrame), fence)
  /\ UNCHANGED <<pending, currentFrame, strayed>>

\* state_machine.rs, a suboptimal acquire: the swapchain is rebuilt and the
\* acquired image forgotten; image_available stays signaled.
SuboptimalRecreated ==
  /\ at = "acquiring"
  /\ \E i \in 0 .. swapchain - 1 \ acquired :
       /\ DestroyResources(gpu, Signal(currentFrame), fence)
       /\ Build(drawables, acquired \cup {i})
  /\ renderState' = IF images' > 0 THEN "Ready" ELSE "Recreating"
  /\ at' = "free"
  /\ UNCHANGED <<pending, currentFrame, strayed>>

AcquireSuboptimal == IF StateMachine THEN SuboptimalRecreated ELSE SuboptimalAcquired

\* swapchain.rs acquires with a zero timeout.  With no image ready it moves on to
\* the next frame if that frame's fence is signaled, and starts over.
AcquireNotReady ==
  /\ ~StateMachine
  /\ at = "acquiring"
  /\ IF fence[NextOf(currentFrame)] = "signaled"
     THEN currentFrame' = NextOf(currentFrame) /\ at' = "waiting"
     ELSE UNCHANGED currentFrame /\ at' = "free"
  /\ UNCHANGED <<pending, renderState, swapchain, images, acquired,
                 fence, ready, drawables, gpu, strayed>>

AcquireOutOfDate ==
  /\ at = "acquiring"
  /\ TickRebuilds(ready)
  /\ at' = "free"
  /\ UNCHANGED <<pending, currentFrame, strayed>>

\* wait_for_fences or acquire_next_image returns another error, a lost device.
TickFails ==
  /\ at \in {"waiting", "acquiring"}
  /\ at' = "free"
  /\ UNCHANGED <<contextVars, fence, ready, drawables, gpu, strayed>>

\* The fence after a submission that names it.  Submitting with a signaled fence
\* is invalid use, after which it may read either way.
Submitted(f) == IF fence[f] = "signaled" THEN {"signaled", "submitted"} ELSE {"submitted"}

\* present -> submit_and_present; its result is ignored and the drawable is spent.
PresentPanics(k) ==
  /\ at = "free"
  /\ drawables[k].image >= images
  /\ drawables' = RemoveAt(drawables, k)
  /\ at' = "poisoned"
  /\ UNCHANGED <<contextVars, fence, ready, gpu, strayed>>

SubmitFails(k) ==
  /\ at = "free" /\ MayStray
  /\ drawables[k].image < images
  /\ drawables' = RemoveAt(drawables, k)
  /\ strayed' = TRUE
  /\ UNCHANGED <<at, contextVars, fence, ready, gpu>>

\* queue_submit succeeds; queue_present either takes the image or finds the
\* swapchain out of date, and then the swapchain is rebuilt.
SubmitAs(k, f) ==
  LET q    == Append(gpu, [frame |-> f, freed |-> FALSE])
      rest == RemoveAt(drawables, k)
      acq  == acquired \ {drawables[k].image}
  IN /\ at = "free"
     /\ drawables[k].image < images
     /\ Len(gpu) < MaxQueued
     /\ currentFrame' = NextOf(currentFrame)
     /\ \E s \in Submitted(f) :
          LET fen == [fence EXCEPT ![f] = s]
          IN \/ /\ gpu' = q /\ fence' = fen
                /\ drawables' = rest /\ acquired' = acq
                /\ UNCHANGED <<ready, swapchain, images>>
             \/ /\ DestroyResources(q, ready, fen)
                /\ Build(rest, acq)
     /\ strayed' = (strayed \/ fence[f] = "signaled")
     /\ UNCHANGED <<at, pending, renderState>>

\* mutant: advances current_frame too early
SubmitAsNextFrame(k) == SubmitAs(k, NextOf(currentFrame))

SubmitAndPresent(k) == SubmitAs(k, currentFrame)

\* The application releases a drawable it never presents.
ReleaseDrawable(k) ==
  /\ MayStray
  /\ drawables' = RemoveAt(drawables, k)
  /\ strayed' = TRUE
  /\ UNCHANGED <<at, contextVars, fence, ready, gpu>>

\* The device finishes its oldest submission, which waits for the semaphore of
\* its frame, and signals that frame's fence.
GpuFinishes ==
  /\ gpu # <<>>
  /\ LET f == Head(gpu).frame
     IN /\ ready[f]
        /\ ready' = [ready EXCEPT ![f] = FALSE]
        /\ fence' = [fence EXCEPT ![f] = "signaled"]
  /\ gpu' = Tail(gpu)
  /\ UNCHANGED <<at, contextVars, drawables, strayed>>

Step ==
  \/ SetContext
  \/ SetDrawableSize
  \/ NextDrawableRecreates
  \/ NextDrawableWaits
  \/ FenceSignaled
  \/ AcquireOptimal
  \/ AcquireSuboptimal
  \/ AcquireNotReady
  \/ AcquireOutOfDate
  \/ TickFails
  \/ \E k \in DOMAIN drawables : PresentPanics(k)
  \/ \E k \in DOMAIN drawables : SubmitFails(k)
  \/ \E k \in DOMAIN drawables : SubmitAndPresent(k)
  \/ \E k \in DOMAIN drawables : ReleaseDrawable(k)
  \/ GpuFinishes

Spec == Init /\ [][Step]_vars

\* The device finishes what it can run, the thread in tick runs when its fence is
\* signaled, and the presentation engine does not withhold its images for ever.
Fairness == WF_vars(GpuFinishes) /\ WF_vars(FenceSignaled) /\ SF_vars(AcquireOptimal)

FairSpec == Spec /\ Fairness

------------------------------------------------------------------------------
(* Properties.                                                              *)

\* The fence of a frame stays unsignaled from the submission of its work until
\* the device is done with it, and a frame has one submission in flight: waiting
\* for the fence makes it safe to reuse the frame's semaphores.
FenceGuardsReuse ==
  /\ \A i \in DOMAIN gpu : fence[gpu[i].frame] = "submitted"
  /\ \A i, j \in DOMAIN gpu : gpu[i].frame = gpu[j].frame => i = j

\* The device can run whatever is queued: no rebuild has freed its command buffers,
\* and an acquire has signaled the semaphore it waits for.
SubmissionsCanRun == \A i \in DOMAIN gpu : ~gpu[i].freed /\ ready[gpu[i].frame]

\* Presenting is always of an image acquired from the current swapchain, on the
\* frame whose semaphore that acquire signaled.
DrawablesPresentable ==
  \A k \in DOMAIN drawables :
    /\ drawables[k].fresh /\ drawables[k].image \in acquired
    /\ ready[currentFrame]

\* The mutex is only ever poisoned by a call that found the resources gone
\* after a failed rebuild.
PanicNeedsFailedBuild == at = "poisoned" => images = 0

\* nextDrawable blocks for ever on a fence nobody will signal only if the
\* application held two drawables, one was lost between acquire and submit, or
\* the drawable of a suboptimal acquire was submitted with its fence signaled.
StuckOnlyIfStrayed ==
  (at = "waiting" /\ ~strayed) =>
     \/ fence[currentFrame] = "signaled"
     \/ \E i \in DOMAIN gpu :
          /\ gpu[i].frame = currentFrame
          /\ \A j \in 1 .. i : ready[gpu[j].frame]

\* A nextDrawable that waits for the device or for an image lets go of the
\* global mutex, which setDrawableSize: and present need, unless suboptimal
\* acquires followed by failed rebuilds have used up the old swapchain's images,
\* or the application has strayed.
LockReleased ==
  (at \in {"waiting", "acquiring"} /\ acquired # 0 .. swapchain - 1)
     ~> (at \in {"free", "poisoned"} \/ strayed)
==============================================================================
