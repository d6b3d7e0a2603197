---------------------------- MODULE RenderProofs -----------------------------
(***************************************************************************)
(* Theorems about RenderContext, for any number of frames in flight, any   *)
(* image counts of the surface and any length of the device's queue.       *)
(*                                                                         *)
(* The first four are about state_machine.rs driven by an application that *)
(* presents each drawable before it asks for the next.  Their invariant    *)
(* follows the one drawable: from the acquire that reset its frame's fence *)
(* (HeldInv) to the submission that waits for that frame's semaphore       *)
(* (GpuInv).                                                               *)
(*                                                                         *)
(* The last, StuckExplained, is about both files and any application.  It  *)
(* follows every fence that a wait could block on: a reset one belongs to  *)
(* the drawable it was acquired with (ResetHeld), a submitted one to a     *)
(* submission the device can run (Flight), until the application strays.   *)
(***************************************************************************)
EXTENDS RenderContext, TLAPS

\* The file and the application the theorems are about.
OneDrawable == StateMachine /\ ~MayStray /\ MaxHeld = 1

Handed == [image : Nat, fresh : BOOLEAN]
Fences == {"signaled", "reset", "submitted"}

TypesInv ==
  /\ at \in {"none", "free", "waiting", "acquiring", "poisoned"}
  /\ currentFrame \in Frames
  /\ fence \in [Frames -> Fences]
  /\ ready \in [Frames -> BOOLEAN]
  /\ swapchain \in Nat /\ images \in {0, swapchain}
  /\ gpu \in Seq(Submissions)
  /\ drawables \in Seq(Handed)
  /\ ~strayed

\* A drawable is held between calls only, on a frame that is not in flight.
HeldInv ==
  /\ Len(drawables) <= 1
  /\ at \in {"waiting", "acquiring"} => drawables = <<>>
  /\ at = "acquiring" => fence[currentFrame] = "signaled"
  /\ drawables # <<>> =>
       /\ drawables[1].fresh
       /\ drawables[1].image \in acquired /\ drawables[1].image < images
       /\ ready[currentFrame] /\ fence[currentFrame] = "reset"

GpuInv ==
  /\ \A i \in DOMAIN gpu :
       ~gpu[i].freed /\ ready[gpu[i].frame] /\ fence[gpu[i].frame] = "submitted"
  /\ \A i, j \in DOMAIN gpu : gpu[i].frame = gpu[j].frame => i = j

RenderInv == TypesInv /\ HeldInv /\ GpuInv /\ PanicNeedsFailedBuild
-----------------------------------------------------------------------------
(* Frames, drawables and rebuilds.                                          *)

LEMMA NextFrame ==
  ASSUME NEW f \in Frames
  PROVE  NextOf(f) \in Frames
<1>1. f + 1 \in Int /\ FrameCount \in Nat \ {0}
  BY RenderAssumption DEF Frames
<1>2. PICK n \in Int : n = f + 1
  BY <1>1
<1>3. n % FrameCount \in 0 .. FrameCount - 1
  BY <1>1, <1>2
<1>4. NextOf(f) = n % FrameCount
  BY <1>2, Zenon DEF NextOf
<1> QED BY <1>3, <1>4, Zenon DEF Frames

LEMMA StaleEmpty == Stale(<<>>) = <<>>
<1>1. DOMAIN <<>> = 1 .. 0
  OBVIOUS
<1>2. Stale(<<>>) = [k \in 1 .. 0 |-> [<<>>[k] EXCEPT !.fresh = FALSE]]
  BY <1>1, Zenon DEF Stale
<1> QED BY <1>2

\* The only drawable is gone when it has been presented.
LEMMA LastSpent ==
  ASSUME RenderInv, NEW k \in DOMAIN drawables
  PROVE  k = 1 /\ drawables # <<>> /\ RemoveAt(drawables, k) = <<>>
<1>1. /\ drawables \in Seq(Handed) /\ Len(drawables) <= 1
      /\ DOMAIN drawables = 1 .. Len(drawables) /\ Len(drawables) \in Nat
  BY DEF RenderInv, TypesInv, HeldInv
<1>2. k = 1 /\ Len(drawables) = 1 /\ drawables # <<>>
  BY <1>1
<1>3. RemoveAt(drawables, k) = SubSeq(drawables, 1, 0) \o SubSeq(drawables, 2, 1)
  BY <1>2 DEF RemoveAt
<1>4. SubSeq(drawables, 1, 0) = <<>> /\ SubSeq(drawables, 2, 1) = <<>>
  BY <1>1, <1>2
<1> QED BY <1>2, <1>3, <1>4

\* What is in flight.
LEMMA InFlight ==
  ASSUME RenderInv, NEW i \in DOMAIN gpu
  PROVE  /\ gpu[i] \in Submissions /\ gpu[i].frame \in Frames
         /\ ~gpu[i].freed /\ ready[gpu[i].frame] /\ fence[gpu[i].frame] = "submitted"
<1>1. gpu[i] \in Submissions
  BY DEF RenderInv, TypesInv
<1>2. gpu[i].frame \in Frames
  BY <1>1 DEF Submissions
<1> QED BY <1>1, <1>2 DEF RenderInv, GpuInv

\* A build without a drawable in anyone's hands, whether it fails or not.
LEMMA BuildKeeps ==
  ASSUME RenderInv, NEW acq, Build(<<>>, acq)
  PROVE  drawables' = <<>> /\ swapchain' \in Nat /\ images' \in {0, swapchain'}
BY StaleEmpty, RenderAssumption DEF RenderInv, TypesInv, Build, BuildOk, BuildErr

LEMMA IdleKeeps ==
  ASSUME NEW q, NEW sem, NEW fen \in [Frames -> Fences], WaitIdle(q, sem, fen),
         sem \in [Frames -> BOOLEAN]
  PROVE  gpu' = <<>> /\ ready' \in [Frames -> BOOLEAN] /\ fence' \in [Frames -> Fences]
BY DEF WaitIdle, Fences

\* A rebuild ends with the device idle and nothing held.
LEMMA RebuildKeeps ==
  ASSUME OneDrawable, RenderInv,
         NEW q, NEW sem \in [Frames -> BOOLEAN], NEW fen \in [Frames -> Fences], NEW acq,
         DestroyResources(q, sem, fen), Build(<<>>, acq),
         at' = "free", currentFrame' \in Frames, ~strayed'
  PROVE  RenderInv'
<1>1. gpu' = <<>> /\ ready' \in [Frames -> BOOLEAN] /\ fence' \in [Frames -> Fences]
  BY IdleKeeps DEF OneDrawable, DestroyResources
<1>2. drawables' = <<>> /\ swapchain' \in Nat /\ images' \in {0, swapchain'}
  BY BuildKeeps
<1>3. TypesInv'
  BY <1>1, <1>2 DEF TypesInv
<1>4. HeldInv'
  BY <1>2 DEF HeldInv
<1>5. GpuInv'
  BY <1>1 DEF GpuInv
<1>6. PanicNeedsFailedBuild'
  BY DEF PanicNeedsFailedBuild
<1> QED BY <1>3, <1>4, <1>5, <1>6 DEF RenderInv
-----------------------------------------------------------------------------
(* One lemma per action.                                                    *)

LEMMA SetContextKeeps ==
  ASSUME OneDrawable, RenderInv, SetContext
  PROVE  RenderInv'
<1>1. /\ drawables = <<>> /\ gpu' = <<>> /\ at' = "free" /\ currentFrame' = 0
      /\ fence' = [f \in Frames |-> "signaled"] /\ ready' = [f \in Frames |-> FALSE]
      /\ strayed' = (strayed \/ drawables # <<>>)
      /\ Build(<<>>, {})
  BY DEF OneDrawable, SetContext, DropContext, NewFences, Build
<1>2. drawables' = <<>> /\ swapchain' \in Nat /\ images' \in {0, swapchain'}
  BY <1>1, BuildKeeps
<1>3. TypesInv'
  <2>1. currentFrame' \in Frames
    BY <1>1, RenderAssumption DEF Frames
  <2>2. fence' \in [Frames -> Fences] /\ ready' \in [Frames -> BOOLEAN]
    BY <1>1 DEF Fences
  <2>3. ~strayed'
    BY <1>1 DEF RenderInv, TypesInv
  <2> QED BY <1>1, <1>2, <2>1, <2>2, <2>3 DEF TypesInv
<1>4. HeldInv' /\ GpuInv' /\ PanicNeedsFailedBuild'
  BY <1>1, <1>2 DEF HeldInv, GpuInv, PanicNeedsFailedBuild
<1> QED BY <1>3, <1>4 DEF RenderInv

\* Calls that ask for a drawable hold none.
LEMMA NoneHeld ==
  ASSUME OneDrawable, RenderInv, Asks
  PROVE  drawables = <<>> /\ ~strayed'
<1>1. drawables \in Seq(Handed) /\ Len(drawables) < 1
  BY DEF OneDrawable, RenderInv, TypesInv, Asks
<1>2. drawables = <<>>
  BY <1>1
<1> QED BY <1>2 DEF Asks, RenderInv, TypesInv

LEMMA RecreatesKeeps ==
  ASSUME OneDrawable, RenderInv,
         NextDrawableRecreates \/ AcquireOutOfDate \/ AcquireSuboptimal
  PROVE  RenderInv'
<1>1. drawables = <<>> /\ ~strayed' /\ currentFrame' \in Frames /\ at' = "free"
  BY NoneHeld DEF NextDrawableRecreates, AcquireOutOfDate, AcquireSuboptimal,
     SuboptimalRecreated, RenderInv, TypesInv, HeldInv, OneDrawable
<1>2. /\ ready \in [Frames -> BOOLEAN] /\ fence \in [Frames -> Fences]
      /\ Signal(currentFrame) \in [Frames -> BOOLEAN]
  BY DEF RenderInv, TypesInv, Signal
<1>3. \E sem \in [Frames -> BOOLEAN], acq \in {acquired} \cup {acquired \cup {i} : i \in 0 .. swapchain - 1} :
        DestroyResources(gpu, sem, fence) /\ Build(drawables, acq)
  <2>1. CASE NextDrawableRecreates \/ AcquireOutOfDate
    BY <1>2, <2>1 DEF NextDrawableRecreates, AcquireOutOfDate, TickRebuilds
  <2>2. CASE AcquireSuboptimal
    <3>1. PICK i \in 0 .. swapchain - 1 \ acquired :
            /\ DestroyResources(gpu, Signal(currentFrame), fence)
            /\ Build(drawables, acquired \cup {i})
      BY <2>2 DEF AcquireSuboptimal, SuboptimalRecreated, OneDrawable
    <3> QED BY <1>2, <3>1
  <2> QED BY <2>1, <2>2
<1> QED BY <1>1, <1>2, <1>3, RebuildKeeps

\* Steps that leave frames, swapchain, drawables and the device alone.
LEMMA WaitingKeeps ==
  ASSUME OneDrawable, RenderInv,
         SetDrawableSize \/ NextDrawableWaits \/ FenceSignaled \/ AcquireNotReady \/ TickFails
  PROVE  RenderInv'
<1>1. /\ UNCHANGED <<currentFrame, swapchain, images, acquired, fence, ready, drawables, gpu>>
      /\ at' \in {"free", "waiting", "acquiring"}
      /\ at' \in {"waiting", "acquiring"} => drawables = <<>>
      /\ at' = "acquiring" => fence[currentFrame] = "signaled"
      /\ ~strayed'
  BY NoneHeld DEF SetDrawableSize, NextDrawableWaits, FenceSignaled, AcquireNotReady,
     TickFails, contextVars, RenderInv, TypesInv, HeldInv, OneDrawable
<1>2. TypesInv'
  BY <1>1 DEF RenderInv, TypesInv
<1>3. HeldInv'
  BY <1>1 DEF RenderInv, HeldInv
<1>4. GpuInv' /\ PanicNeedsFailedBuild'
  BY <1>1 DEF RenderInv, GpuInv, PanicNeedsFailedBuild
<1> QED BY <1>2, <1>3, <1>4 DEF RenderInv

LEMMA AcquireKeeps ==
  ASSUME OneDrawable, RenderInv, AcquireOptimal
  PROVE  RenderInv'
<1>1. /\ TypesInv /\ GpuInv /\ drawables = <<>> /\ fence[currentFrame] = "signaled"
  BY DEF RenderInv, HeldInv, AcquireOptimal
<1>2. PICK i \in 0 .. swapchain - 1 \ acquired :
        /\ acquired' = acquired \cup {i}
        /\ fence' = [fence EXCEPT ![currentFrame] = "reset"]
        /\ \/ /\ i < images /\ at' = "free"
              /\ drawables' = Append(drawables, [image |-> i, fresh |-> TRUE])
           \/ i >= images /\ at' = "poisoned" /\ UNCHANGED drawables
        /\ UNCHANGED strayed
  BY DEF AcquireOptimal, OneDrawable
<1>3. /\ ready' = [ready EXCEPT ![currentFrame] = TRUE]
      /\ UNCHANGED <<currentFrame, swapchain, images, gpu>>
  BY DEF AcquireOptimal, Signal
<1>4. drawables' \in Seq(Handed)
  <2>1. [image |-> i, fresh |-> TRUE] \in Handed
    BY <1>1 DEF TypesInv, Handed
  <2>2. drawables \in Seq(Handed)
    BY <1>1 DEF TypesInv
  <2>3. Append(drawables, [image |-> i, fresh |-> TRUE]) \in Seq(Handed)
    BY <2>1, <2>2
  <2> QED BY <1>2, <2>2, <2>3
<1>5. /\ fence' \in [Frames -> Fences] /\ ready' \in [Frames -> BOOLEAN]
      /\ fence'[currentFrame] = "reset" /\ ready'[currentFrame]
      /\ \A f \in Frames : f # currentFrame => fence'[f] = fence[f] /\ ready'[f] = ready[f]
  BY <1>1, <1>2, <1>3 DEF TypesInv, Fences
<1>6. TypesInv'
  BY <1>1, <1>2, <1>3, <1>4, <1>5 DEF TypesInv
<1>7. HeldInv'
  <2>1. CASE drawables' = <<>>
    BY <1>2, <2>1 DEF HeldInv
  <2>2. CASE i < images /\ drawables' = <<[image |-> i, fresh |-> TRUE]>> /\ at' = "free"
    BY <1>2, <1>3, <1>5, <2>2 DEF HeldInv
  <2> QED BY <1>1, <1>2, <2>1, <2>2
<1>8. GpuInv'
  <2>1. \A j \in DOMAIN gpu : gpu[j].frame \in Frames /\ gpu[j].frame # currentFrame
    BY <1>1, InFlight
  <2> QED BY <1>1, <1>3, <1>5, <2>1 DEF GpuInv
<1>9. PanicNeedsFailedBuild'
  BY <1>1, <1>2, <1>3 DEF PanicNeedsFailedBuild, TypesInv
<1> QED BY <1>6, <1>7, <1>8, <1>9 DEF RenderInv

\* A held drawable can be presented: its command buffer is there.
LEMMA PresentKeeps ==
  ASSUME OneDrawable, RenderInv, NEW k \in DOMAIN drawables,
         PresentPanics(k) \/ SubmitFails(k) \/ ReleaseDrawable(k)
  PROVE  FALSE
<1>1. k = 1 /\ drawables # <<>>
  BY LastSpent
<1>2. drawables[k] \in Handed /\ images \in Nat
  BY DEF RenderInv, TypesInv
<1>3. drawables[k].image < images /\ drawables[k].image \in Nat
  BY <1>1, <1>2 DEF RenderInv, HeldInv, Handed
<1> QED BY <1>2, <1>3 DEF PresentPanics, SubmitFails, ReleaseDrawable, OneDrawable

LEMMA SubmitKeeps ==
  ASSUME OneDrawable, RenderInv, NEW k \in DOMAIN drawables, SubmitAndPresent(k)
  PROVE  RenderInv'
<1> DEFINE q   == Append(gpu, [frame |-> currentFrame, freed |-> FALSE])
           fen == [fence EXCEPT ![currentFrame] = "submitted"]
           acq == acquired \ {drawables[k].image}
<1>1. k = 1 /\ drawables # <<>> /\ RemoveAt(drawables, k) = <<>>
  BY LastSpent
<1>2. TypesInv /\ GpuInv /\ ready[currentFrame] /\ fence[currentFrame] = "reset"
  BY <1>1 DEF RenderInv, HeldInv
<1>3. /\ at = "free" /\ at' = "free" /\ currentFrame' = NextOf(currentFrame)
      /\ strayed' = (strayed \/ fence[currentFrame] = "signaled")
      /\ \/ /\ gpu' = q /\ fence' = fen /\ drawables' = <<>>
            /\ UNCHANGED <<ready, swapchain, images>>
         \/ DestroyResources(q, ready, fen) /\ Build(<<>>, acq)
  BY <1>1, <1>2 DEF SubmitAndPresent, SubmitAs, Submitted
<1>4. /\ currentFrame' \in Frames /\ ~strayed' /\ fen \in [Frames -> Fences]
      /\ ready \in [Frames -> BOOLEAN] /\ currentFrame \in Frames
  BY <1>2, <1>3, NextFrame DEF TypesInv, Fences
<1>5. CASE DestroyResources(q, ready, fen) /\ Build(<<>>, acq)
  <2> HIDE DEF q, fen, acq
  <2> QED BY <1>3, <1>4, <1>5, RebuildKeeps
<1>6. CASE gpu' = q /\ fence' = fen /\ drawables' = <<>>
           /\ UNCHANGED <<ready, swapchain, images>>
  <2>1. /\ gpu \in Seq(Submissions) /\ gpu' \in Seq(Submissions)
        /\ Len(gpu') = Len(gpu) + 1 /\ Len(gpu) \in Nat
        /\ \A i \in 1 .. Len(gpu) : gpu'[i] = gpu[i]
        /\ gpu'[Len(gpu) + 1] = [frame |-> currentFrame, freed |-> FALSE]
    <3>1. [frame |-> currentFrame, freed |-> FALSE] \in Submissions
      BY <1>4 DEF Submissions
    <3> QED BY <1>2, <1>6, <3>1 DEF TypesInv
  <2>2. TypesInv'
    BY <1>2, <1>3, <1>4, <1>6, <2>1 DEF TypesInv
  <2>3. HeldInv'
    BY <1>3, <1>6 DEF HeldInv
  <2>4. /\ fence'[currentFrame] = "submitted"
        /\ \A f \in Frames : f # currentFrame => fence'[f] = fence[f]
    BY <1>2, <1>4, <1>6 DEF TypesInv
  <2>5. ASSUME NEW i \in 1 .. Len(gpu)
        PROVE  /\ gpu[i].frame \in Frames /\ gpu[i].frame # currentFrame
               /\ ~gpu[i].freed /\ ready[gpu[i].frame] /\ fence[gpu[i].frame] = "submitted"
    BY <1>2, <2>1, InFlight
  <2>6. DOMAIN gpu' = 1 .. Len(gpu) + 1 /\ DOMAIN gpu = 1 .. Len(gpu)
    BY <2>1
  <2>7. ASSUME NEW i \in DOMAIN gpu'
        PROVE  ~gpu'[i].freed /\ ready'[gpu'[i].frame] /\ fence'[gpu'[i].frame] = "submitted"
    <3>1. CASE i \in 1 .. Len(gpu)
      BY <1>6, <2>1, <2>4, <2>5, <3>1
    <3>2. CASE i = Len(gpu) + 1
      BY <1>2, <1>6, <2>1, <2>4, <3>2
    <3> QED BY <2>1, <2>6, <2>7, <3>1, <3>2
  <2>8. ASSUME NEW i \in DOMAIN gpu', NEW j \in DOMAIN gpu', gpu'[i].frame = gpu'[j].frame
        PROVE  i = j
    <3>1. CASE i \in 1 .. Len(gpu) /\ j \in 1 .. Len(gpu)
      BY <1>2, <2>1, <2>6, <2>8, <3>1 DEF GpuInv
    <3>2. CASE i = Len(gpu) + 1 /\ j \in 1 .. Len(gpu)
      BY <2>1, <2>5, <2>8, <3>2
    <3>3. CASE j = Len(gpu) + 1 /\ i \in 1 .. Len(gpu)
      BY <2>1, <2>5, <2>8, <3>3
    <3> QED BY <2>1, <2>6, <2>8, <3>1, <3>2, <3>3
  <2>9. GpuInv'
    BY <2>7, <2>8 DEF GpuInv
  <2>10. PanicNeedsFailedBuild'
    BY <1>3 DEF PanicNeedsFailedBuild
  <2> QED BY <2>2, <2>3, <2>9, <2>10 DEF RenderInv
<1> QED BY <1>3, <1>5, <1>6

LEMMA FinishKeeps ==
  ASSUME RenderInv, GpuFinishes
  PROVE  RenderInv'
<1>1. TypesInv /\ HeldInv /\ GpuInv /\ PanicNeedsFailedBuild
  BY DEF RenderInv
<1>2. gpu # <<>> /\ gpu' = Tail(gpu) /\ gpu \in Seq(Submissions) /\ Head(gpu) = gpu[1]
      /\ UNCHANGED <<at, currentFrame, swapchain, images, acquired, drawables, strayed>>
  BY <1>1 DEF GpuFinishes, contextVars, TypesInv
<1> DEFINE f == gpu[1].frame
<1>3. ready' = [ready EXCEPT ![f] = FALSE] /\ fence' = [fence EXCEPT ![f] = "signaled"]
  BY <1>2 DEF GpuFinishes
<1> HIDE DEF f
<1>4. /\ gpu \in Seq(Submissions) /\ gpu' \in Seq(Submissions)
      /\ Len(gpu) \in Nat \ {0} /\ Len(gpu') = Len(gpu) - 1
      /\ DOMAIN gpu = 1 .. Len(gpu) /\ DOMAIN gpu' = 1 .. Len(gpu) - 1
      /\ \A i \in DOMAIN gpu' : gpu'[i] = gpu[i + 1] /\ i + 1 \in DOMAIN gpu /\ i + 1 # 1
  BY <1>1, <1>2 DEF TypesInv
<1>5. f \in Frames /\ fence[f] = "submitted" /\ 1 \in DOMAIN gpu
  BY <1>4, InFlight DEF f
<1>6. /\ ready' \in [Frames -> BOOLEAN] /\ fence' \in [Frames -> Fences]
      /\ fence'[f] = "signaled"
      /\ \A g \in Frames : g # f => ready'[g] = ready[g] /\ fence'[g] = fence[g]
  BY <1>1, <1>3, <1>5 DEF TypesInv, Fences
<1>7. TypesInv'
  BY <1>1, <1>2, <1>4, <1>6 DEF TypesInv
<1>8. HeldInv'
  <2>1. drawables # <<>> => currentFrame # f
    BY <1>1, <1>5 DEF HeldInv
  <2>2. at = "acquiring" => fence'[currentFrame] = "signaled"
    BY <1>1, <1>5, <1>6 DEF HeldInv, TypesInv
  <2> QED BY <1>1, <1>2, <1>6, <2>1, <2>2 DEF HeldInv, TypesInv
<1>9. GpuInv'
  <2>1. ASSUME NEW i \in DOMAIN gpu'
        PROVE  /\ gpu'[i].frame \in Frames /\ gpu'[i].frame # f
               /\ ~gpu'[i].freed /\ ready[gpu'[i].frame] /\ fence[gpu'[i].frame] = "submitted"
    <3>1. gpu'[i] = gpu[i + 1] /\ i + 1 \in DOMAIN gpu /\ i + 1 # 1
      BY <1>4, <2>1
    <3>2. gpu[i + 1].frame \in Frames /\ gpu[i + 1].frame # gpu[1].frame
      BY <1>1, <1>4, <1>5, <3>1, InFlight DEF GpuInv
    <3> QED BY <3>1, <3>2, InFlight DEF f
  <2>2. ASSUME NEW i \in DOMAIN gpu', NEW j \in DOMAIN gpu', gpu'[i].frame = gpu'[j].frame
        PROVE  i = j
    <3>1. i + 1 = j + 1
      BY <1>1, <1>4, <2>2 DEF GpuInv
    <3> QED BY <1>4, <2>2, <3>1
  <2> QED BY <1>6, <2>1, <2>2 DEF GpuInv
<1>10. PanicNeedsFailedBuild'
  BY <1>1, <1>2 DEF PanicNeedsFailedBuild
<1> QED BY <1>7, <1>8, <1>9, <1>10 DEF RenderInv
-----------------------------------------------------------------------------
(* The theorems.                                                            *)

LEMMA InitRender == Init => RenderInv
BY RenderAssumption DEF Init, RenderInv, TypesInv, HeldInv, GpuInv, PanicNeedsFailedBuild,
   Frames, Fences

LEMMA StepKeepsRender == OneDrawable /\ RenderInv /\ [Step]_vars => RenderInv'
<1> SUFFICES ASSUME OneDrawable, RenderInv, [Step]_vars PROVE RenderInv'
  OBVIOUS
<1>1. CASE UNCHANGED vars
  BY <1>1 DEF vars, contextVars, RenderInv, TypesInv, HeldInv, GpuInv, PanicNeedsFailedBuild
<1>2. CASE \E k \in DOMAIN drawables :
             PresentPanics(k) \/ SubmitFails(k) \/ ReleaseDrawable(k)
  BY <1>2, PresentKeeps
<1>3. CASE \E k \in DOMAIN drawables : SubmitAndPresent(k)
  BY <1>3, SubmitKeeps
<1> QED BY <1>1, <1>2, <1>3, SetContextKeeps, RecreatesKeeps, WaitingKeeps, AcquireKeeps,
           FinishKeeps DEF Step

LEMMA RenderInvariant == OneDrawable => (Spec => []RenderInv)
<1> SUFFICES ASSUME OneDrawable PROVE Spec => []RenderInv
  OBVIOUS
<1>1. RenderInv /\ [Step]_vars => RenderInv'
  BY StepKeepsRender
<1> QED BY <1>1, InitRender, PTL DEF Spec

\* Waiting for the fence of a frame makes it safe to reuse its semaphores: with any
\* number of frames in flight, a frame has one submission on the device, and its
\* fence stays unsignaled until that is done.
THEOREM FencesGuard == OneDrawable => (Spec => []FenceGuardsReuse)
<1> SUFFICES ASSUME OneDrawable PROVE Spec => []FenceGuardsReuse
  OBVIOUS
<1>1. RenderInv => FenceGuardsReuse
  BY DEF RenderInv, GpuInv, FenceGuardsReuse
<1> QED BY <1>1, RenderInvariant, PTL

\* No rebuild frees the command buffers of work the device has not done, and each
\* submission waits for a semaphore that an acquire has signaled.
THEOREM WorkCanRun == OneDrawable => (Spec => []SubmissionsCanRun)
<1> SUFFICES ASSUME OneDrawable PROVE Spec => []SubmissionsCanRun
  OBVIOUS
<1>1. RenderInv => SubmissionsCanRun
  BY DEF RenderInv, GpuInv, SubmissionsCanRun
<1> QED BY <1>1, RenderInvariant, PTL

\* A drawable the application holds is an image acquired from the current swapchain,
\* on the frame whose semaphore that acquire signaled.
THEOREM CanPresent == OneDrawable => (Spec => []DrawablesPresentable)
<1> SUFFICES ASSUME OneDrawable PROVE Spec => []DrawablesPresentable
  OBVIOUS
<1>1. RenderInv => DrawablesPresentable
  <2> SUFFICES ASSUME RenderInv, NEW k \in DOMAIN drawables
               PROVE  /\ drawables[k].fresh /\ drawables[k].image \in acquired
                      /\ ready[currentFrame]
    BY DEF DrawablesPresentable
  <2> QED BY LastSpent DEF RenderInv, HeldInv
<1> QED BY <1>1, RenderInvariant, PTL

\* The mutex is poisoned only by a call that found no resources after a failed build.
THEOREM PanicsExplained == OneDrawable => (Spec => []PanicNeedsFailedBuild)
<1> SUFFICES ASSUME OneDrawable PROVE Spec => []PanicNeedsFailedBuild
  OBVIOUS
<1>1. RenderInv => PanicNeedsFailedBuild
  BY DEF RenderInv
<1> QED BY <1>1, RenderInvariant, PTL
-----------------------------------------------------------------------------
(* What an application that has not strayed may wait for: both files, with *)
(* any number of drawables allowed.                                        *)

\* The fences and semaphores of what is queued: a frame has a submitted fence
\* exactly when one submission of it is queued, and that submission can run.
Flight(q, sem, fen) ==
  /\ \A f \in Frames : fen[f] = "submitted" => \E i \in DOMAIN q : q[i].frame = f
  /\ \A i \in DOMAIN q : fen[q[i].frame] = "submitted" /\ sem[q[i].frame]
  /\ \A i, j \in DOMAIN q : q[i].frame = q[j].frame => i = j

\* The one drawable is on a frame with nothing in flight.
AloneHeld ==
  /\ Len(drawables) <= 1
  /\ at \in {"waiting", "acquiring"} => drawables = <<>>
  /\ at = "acquiring" => fence[currentFrame] = "signaled"
  /\ drawables # <<>> => fence[currentFrame] # "submitted"

\* A fence that nobody will signal belongs to the drawable that will be submitted
\* with it, or to the call that panicked.
ResetHeld ==
  \A f \in Frames : fence[f] = "reset" =>
    at = "poisoned" \/ (f = currentFrame /\ drawables # <<>> /\ ready[f])

AloneInv == TypesInv /\ AloneHeld /\ ResetHeld /\ Flight(gpu, ready, fence)

StuckInv == strayed \/ AloneInv

\* A build keeps what is held, stale or not.
LEMMA BuildHolds ==
  ASSUME TypesInv, NEW held \in Seq(Handed), NEW acq, Build(held, acq)
  PROVE  /\ drawables' \in Seq(Handed) /\ Len(drawables') = Len(held)
         /\ swapchain' \in Nat /\ images' \in {0, swapchain'}
<1>1. Stale(held) \in Seq(Handed) /\ Len(Stale(held)) = Len(held)
  <2>1. \A k \in 1 .. Len(held) : [held[k] EXCEPT !.fresh = FALSE] \in Handed
    <3>1. \A h \in Handed : [h EXCEPT !.fresh = FALSE] \in Handed
      BY DEF Handed
    <3>2. \A k \in 1 .. Len(held) : held[k] \in Handed
      OBVIOUS
    <3> QED BY <3>1, <3>2
  <2>2. Len(held) \in Nat /\ DOMAIN held = 1 .. Len(held)
    OBVIOUS
  <2>3. Stale(held) = [k \in 1 .. Len(held) |-> [held[k] EXCEPT !.fresh = FALSE]]
    BY <2>2, Zenon DEF Stale
  <2> QED BY <2>1, <2>2, <2>3
<1>2. drawables' \in {held, Stale(held)} \/ drawables' = drawables
  BY DEF Build, BuildOk, BuildErr
<1>3. drawables' \in {held, Stale(held)}
  BY DEF Build, BuildOk, BuildErr
<1>4. swapchain' \in Nat /\ images' \in {0, swapchain'}
  BY RenderAssumption DEF TypesInv, Build, BuildOk, BuildErr
<1> QED BY <1>1, <1>3, <1>4

\* Destroying the old resources, with or without the wait for the device.
LEMMA DestroyFlies ==
  ASSUME NEW q \in Seq(Submissions), NEW sem \in [Frames -> BOOLEAN],
         NEW fen \in [Frames -> Fences], Flight(q, sem, fen),
         \A f \in Frames : fen[f] # "reset",
         DestroyResources(q, sem, fen)
  PROVE  /\ gpu' \in Seq(Submissions) /\ ready' \in [Frames -> BOOLEAN]
         /\ fence' \in [Frames -> Fences]
         /\ Flight(gpu', ready', fence')
         /\ \A f \in Frames : fence'[f] # "reset"
         /\ \A f \in Frames : fen[f] = "signaled" => fence'[f] = "signaled"
<1>1. CASE StateMachine
  <2>1. WaitIdle(q, sem, fen)
    BY <1>1 DEF DestroyResources
  <2>2. gpu' = <<>> /\ ready' \in [Frames -> BOOLEAN] /\ fence' \in [Frames -> Fences]
    BY <2>1, IdleKeeps
  <2>3. ASSUME NEW f \in Frames
        PROVE  fence'[f] = "signaled"
    <3>1. CASE fen[f] = "submitted"
      <4>1. PICK i \in DOMAIN q : q[i].frame = f
        BY <3>1 DEF Flight
      <4> QED BY <2>1, <4>1 DEF WaitIdle
    <3>2. CASE fen[f] = "signaled"
      BY <2>1, <3>2 DEF WaitIdle
    <3> QED BY <3>1, <3>2 DEF Fences
  <2> QED BY <2>2, <2>3 DEF Flight
<1>2. CASE ~StateMachine
  <2>1. /\ gpu' = [i \in DOMAIN q |-> [q[i] EXCEPT !.freed = TRUE]]
        /\ ready' = sem /\ fence' = fen
    BY <1>2 DEF DestroyResources, DestroyWithoutWaiting
  <2>2. Len(q) \in Nat /\ DOMAIN q = 1 .. Len(q)
    OBVIOUS
  <2>3. \A i \in 1 .. Len(q) : [q[i] EXCEPT !.freed = TRUE] \in Submissions
                              /\ [q[i] EXCEPT !.freed = TRUE].frame = q[i].frame
    <3>1. \A s \in Submissions : [s EXCEPT !.freed = TRUE] \in Submissions
                                 /\ [s EXCEPT !.freed = TRUE].frame = s.frame
      BY DEF Submissions
    <3>2. \A i \in 1 .. Len(q) : q[i] \in Submissions
      OBVIOUS
    <3> QED BY <3>1, <3>2
  <2>4. gpu' \in Seq(Submissions) /\ DOMAIN gpu' = DOMAIN q
    BY <2>1, <2>2, <2>3
  <2>5. \A i \in DOMAIN q : gpu'[i].frame = q[i].frame
    BY <2>1, <2>2, <2>3
  <2>6. Flight(gpu', ready', fence')
    BY <2>1, <2>4, <2>5 DEF Flight
  <2> QED BY <2>1, <2>4, <2>6
<1> QED BY <1>1, <1>2

\* A rebuild when no fence is waiting for its submission.
LEMMA RebuildAlone ==
  ASSUME TypesInv, NEW q \in Seq(Submissions), NEW sem \in [Frames -> BOOLEAN],
         NEW fen \in [Frames -> Fences], Flight(q, sem, fen),
         \A f \in Frames : fen[f] # "reset",
         NEW held \in Seq(Handed), NEW acq, Len(held) <= 1,
         DestroyResources(q, sem, fen), Build(held, acq),
         currentFrame' \in Frames, at' \in {"free", "poisoned"}, ~strayed',
         held # <<>> => fen[currentFrame'] = "signaled"
  PROVE  AloneInv'
<1>1. /\ gpu' \in Seq(Submissions) /\ ready' \in [Frames -> BOOLEAN]
      /\ fence' \in [Frames -> Fences]
      /\ Flight(gpu', ready', fence')
      /\ \A f \in Frames : fence'[f] # "reset"
      /\ \A f \in Frames : fen[f] = "signaled" => fence'[f] = "signaled"
  BY DestroyFlies
<1>2. /\ drawables' \in Seq(Handed) /\ Len(drawables') = Len(held)
      /\ swapchain' \in Nat /\ images' \in {0, swapchain'}
  BY BuildHolds
<1>3. drawables' # <<>> => held # <<>>
  BY <1>2
<1>4. TypesInv'
  BY <1>1, <1>2 DEF TypesInv
<1>5. AloneHeld'
  BY <1>1, <1>2, <1>3 DEF AloneHeld
<1>6. ResetHeld'
  BY <1>1 DEF ResetHeld
<1> QED BY <1>1, <1>4, <1>5, <1>6 DEF AloneInv
-----------------------------------------------------------------------------
(* One lemma per action of an application that has not strayed after it.   *)

\* Straying is for ever.
LEMMA NotStrayed ==
  ASSUME StuckInv, Step, ~strayed'
  PROVE  AloneInv
<1>1. CASE SetContext \/ SetDrawableSize \/ NextDrawableRecreates \/ NextDrawableWaits
  BY <1>1 DEF SetContext, SetDrawableSize, NextDrawableRecreates, NextDrawableWaits, Asks, StuckInv
<1>2. CASE FenceSignaled \/ AcquireNotReady \/ AcquireOutOfDate \/ TickFails \/ GpuFinishes
  BY <1>2 DEF FenceSignaled, AcquireNotReady, AcquireOutOfDate, TickFails, GpuFinishes, StuckInv
<1>3. CASE AcquireOptimal
  BY <1>3 DEF AcquireOptimal, StuckInv
<1>4. CASE AcquireSuboptimal
  BY <1>4 DEF AcquireSuboptimal, SuboptimalAcquired, SuboptimalRecreated, StuckInv
<1>5. CASE \E k \in DOMAIN drawables :
             PresentPanics(k) \/ SubmitFails(k) \/ ReleaseDrawable(k)
  BY <1>5 DEF PresentPanics, SubmitFails, ReleaseDrawable, StuckInv
<1>6. CASE \E k \in DOMAIN drawables : SubmitAndPresent(k)
  BY <1>6 DEF SubmitAndPresent, SubmitAs, StuckInv
<1> QED BY <1>1, <1>2, <1>3, <1>4, <1>5, <1>6 DEF Step

LEMMA AloneFacts ==
  ASSUME AloneInv
  PROVE  /\ TypesInv /\ AloneHeld /\ ResetHeld /\ Flight(gpu, ready, fence)
         /\ currentFrame \in Frames /\ fence \in [Frames -> Fences]
         /\ ready \in [Frames -> BOOLEAN] /\ gpu \in Seq(Submissions)
         /\ drawables \in Seq(Handed) /\ <<>> \in Seq(Handed)
         /\ drawables = <<>> /\ at # "poisoned" => \A f \in Frames : fence[f] # "reset"
BY DEF AloneInv, TypesInv, ResetHeld

LEMMA SetContextAlone ==
  ASSUME AloneInv, SetContext, ~strayed'
  PROVE  AloneInv'
<1>1. /\ drawables = <<>> /\ gpu' = <<>> /\ at' = "free" /\ currentFrame' = 0
      /\ fence' = [f \in Frames |-> "signaled"] /\ ready' = [f \in Frames |-> FALSE]
      /\ Build(<<>>, {})
  BY DEF SetContext, DropContext, NewFences, Build
<1>2. /\ drawables' \in Seq(Handed) /\ Len(drawables') = 0
      /\ swapchain' \in Nat /\ images' \in {0, swapchain'}
  <2>1. Len(<<>>) = 0
    OBVIOUS
  <2> QED BY <1>1, <2>1, AloneFacts, BuildHolds
<1>3. TypesInv'
  <2>1. currentFrame' \in Frames
    BY <1>1, RenderAssumption DEF Frames
  <2>2. fence' \in [Frames -> Fences] /\ ready' \in [Frames -> BOOLEAN]
    BY <1>1 DEF Fences
  <2> QED BY <1>1, <1>2, <2>1, <2>2 DEF TypesInv
<1>4. AloneHeld' /\ ResetHeld'
  BY <1>1, <1>2 DEF AloneHeld, ResetHeld
<1>5. Flight(gpu', ready', fence')
  BY <1>1 DEF Flight
<1> QED BY <1>3, <1>4, <1>5 DEF AloneInv

LEMMA RecreatesAlone ==
  ASSUME AloneInv, NextDrawableRecreates \/ AcquireOutOfDate, ~strayed'
  PROVE  AloneInv'
<1>1. /\ drawables = <<>> /\ at # "poisoned" /\ at' = "free" /\ currentFrame' = currentFrame
      /\ DestroyResources(gpu, ready, fence) /\ Build(<<>>, acquired)
  BY AloneFacts DEF NextDrawableRecreates, AcquireOutOfDate, TickRebuilds, Asks, AloneHeld
<1>2. Len(<<>>) <= 1
  OBVIOUS
<1> QED BY <1>1, <1>2, AloneFacts, RebuildAlone

LEMMA SuboptimalAlone ==
  ASSUME AloneInv, AcquireSuboptimal, ~strayed'
  PROVE  AloneInv'
<1>1. /\ drawables = <<>> /\ at = "acquiring" /\ fence[currentFrame] = "signaled"
      /\ currentFrame' = currentFrame
      /\ DestroyResources(gpu, Signal(currentFrame), fence)
  BY AloneFacts DEF AcquireSuboptimal, SuboptimalAcquired, SuboptimalRecreated, AloneHeld
<1>2. /\ Signal(currentFrame) \in [Frames -> BOOLEAN]
      /\ Flight(gpu, Signal(currentFrame), fence)
  BY AloneFacts DEF Signal, Flight
<1>3. PICK held \in Seq(Handed), acq \in SUBSET (acquired \cup Nat) :
        Len(held) <= 1 /\ Build(held, acq) /\ at' \in {"free", "poisoned"}
  <2>1. PICK i \in 0 .. swapchain - 1 \ acquired :
          /\ at' \in {"free", "poisoned"}
          /\ \E held \in {drawables, Append(drawables, [image |-> i, fresh |-> FALSE])} :
               Build(held, acquired \cup {i})
    BY DEF AcquireSuboptimal, SuboptimalAcquired, SuboptimalRecreated, Build
  <2>2. PICK one : one = [image |-> i, fresh |-> FALSE]
    OBVIOUS
  <2>3. PICK acq : acq = acquired \cup {i}
    OBVIOUS
  <2>4. one \in Handed /\ acq \in SUBSET (acquired \cup Nat)
    BY <2>2, <2>3 DEF Handed
  <2>5. PICK held \in {drawables, Append(drawables, one)} : Build(held, acq)
    BY <2>1, <2>2, <2>3
  <2>6. held \in Seq(Handed) /\ Len(held) <= 1
    <3>1. Append(<<>>, one) \in Seq(Handed) /\ Len(Append(<<>>, one)) = 1
      BY <2>4
    <3>2. <<>> \in Seq(Handed) /\ Len(<<>>) = 0
      OBVIOUS
    <3>3. held = <<>> \/ held = Append(<<>>, one)
      BY <1>1, <2>5, Zenon
    <3>4. CASE held = <<>>
      BY <3>2, <3>4
    <3>5. CASE held = Append(<<>>, one)
      <4>1. Len(held) = 1
        BY <3>1, <3>5, Zenon
      <4>2. held \in Seq(Handed)
        BY <3>1, <3>5, Zenon
      <4> QED BY <4>1, <4>2
    <3> QED BY <3>3, <3>4, <3>5
  <2> QED BY <2>1, <2>4, <2>5, <2>6
<1>4. PICK sem \in [Frames -> BOOLEAN] :
        DestroyResources(gpu, sem, fence) /\ Flight(gpu, sem, fence)
  BY <1>1, <1>2
<1>5. \A f \in Frames : fence[f] # "reset"
  BY <1>1, AloneFacts
<1>6. /\ currentFrame' \in Frames /\ fence[currentFrame'] = "signaled"
      /\ gpu \in Seq(Submissions) /\ fence \in [Frames -> Fences] /\ TypesInv
  BY <1>1, AloneFacts
<1> QED BY <1>3, <1>4, <1>5, <1>6, RebuildAlone

\* Steps that leave swapchain, fences, drawables and the device alone.
LEMMA WaitingAlone ==
  ASSUME AloneInv, ~strayed',
         SetDrawableSize \/ NextDrawableWaits \/ FenceSignaled \/ AcquireNotReady \/ TickFails
  PROVE  AloneInv'
<1>1. /\ UNCHANGED <<swapchain, images, acquired, fence, ready, drawables, gpu>>
      /\ currentFrame' = currentFrame \/ (currentFrame' = NextOf(currentFrame) /\ drawables = <<>>)
      /\ at # "poisoned" /\ at' \in {"free", "waiting", "acquiring"}
      /\ at' \in {"waiting", "acquiring"} => drawables = <<>>
      /\ at' = "acquiring" => currentFrame' = currentFrame /\ fence[currentFrame] = "signaled"
  BY AloneFacts DEF SetDrawableSize, NextDrawableWaits, FenceSignaled, AcquireNotReady,
     TickFails, contextVars, AloneHeld, Asks
<1>2. currentFrame' \in Frames
  BY <1>1, AloneFacts, NextFrame
<1>3. TypesInv'
  BY <1>1, <1>2, AloneFacts DEF TypesInv
<1>4. AloneHeld'
  BY <1>1, AloneFacts DEF AloneHeld
<1>5. ResetHeld'
  BY <1>1, AloneFacts DEF ResetHeld
<1>6. Flight(gpu', ready', fence')
  BY <1>1, AloneFacts
<1> QED BY <1>3, <1>4, <1>5, <1>6 DEF AloneInv

LEMMA AcquireAlone ==
  ASSUME AloneInv, AcquireOptimal, ~strayed'
  PROVE  AloneInv'
<1>1. /\ drawables = <<>> /\ at = "acquiring" /\ fence[currentFrame] = "signaled"
      /\ \A f \in Frames : fence[f] # "reset"
  BY AloneFacts DEF AcquireOptimal, AloneHeld
<1>2. PICK i \in 0 .. swapchain - 1 \ acquired :
        /\ fence' = [fence EXCEPT ![currentFrame] = "reset"]
        /\ \/ /\ at' = "free"
              /\ drawables' = Append(drawables, [image |-> i, fresh |-> TRUE])
           \/ at' = "poisoned" /\ UNCHANGED drawables
  BY DEF AcquireOptimal
<1>3. /\ ready' = [ready EXCEPT ![currentFrame] = TRUE]
      /\ UNCHANGED <<currentFrame, swapchain, images, gpu>>
  BY DEF AcquireOptimal, Signal
<1>4. drawables' \in Seq(Handed) /\ Len(drawables') <= 1 /\ (at' = "free" => drawables' # <<>>)
  <2>1. [image |-> i, fresh |-> TRUE] \in Handed
    BY DEF Handed
  <2>2. CASE UNCHANGED drawables
    <3>1. Len(drawables) = 0
      BY <1>1
    <3> QED BY <1>2, <2>2, <3>1, AloneFacts
  <2>3. CASE drawables' = Append(drawables, [image |-> i, fresh |-> TRUE])
    BY <1>1, <2>1, <2>3
  <2> QED BY <1>2, <2>2, <2>3
<1>5. /\ fence' \in [Frames -> Fences] /\ ready' \in [Frames -> BOOLEAN]
      /\ fence'[currentFrame] = "reset" /\ ready'[currentFrame]
      /\ \A f \in Frames : f # currentFrame => fence'[f] = fence[f] /\ ready'[f] = ready[f]
  BY <1>2, <1>3, AloneFacts DEF Fences
<1>6. TypesInv'
  BY <1>2, <1>3, <1>4, <1>5, AloneFacts DEF TypesInv
<1>7. AloneHeld'
  BY <1>2, <1>3, <1>4, <1>5 DEF AloneHeld
<1>8. ResetHeld'
  BY <1>1, <1>2, <1>3, <1>4, <1>5 DEF ResetHeld
<1>9. Flight(gpu', ready', fence')
  <2>1. ASSUME NEW j \in DOMAIN gpu
        PROVE  gpu[j].frame \in Frames /\ gpu[j].frame # currentFrame
    <3>1. gpu[j] \in Submissions /\ fence[gpu[j].frame] = "submitted"
      BY AloneFacts DEF Flight
    <3> QED BY <1>1, <3>1 DEF Submissions
  <2> QED BY <1>1, <1>3, <1>5, <2>1, AloneFacts DEF Flight
<1> QED BY <1>6, <1>7, <1>8, <1>9 DEF AloneInv

\* The only drawable is gone when it has been spent.
LEMMA OnlyDrawable ==
  ASSUME AloneInv, NEW k \in DOMAIN drawables
  PROVE  drawables # <<>> /\ RemoveAt(drawables, k) = <<>>
<1>1. /\ drawables \in Seq(Handed) /\ Len(drawables) <= 1
      /\ DOMAIN drawables = 1 .. Len(drawables) /\ Len(drawables) \in Nat
  BY AloneFacts DEF AloneHeld
<1>2. k = 1 /\ Len(drawables) = 1 /\ drawables # <<>>
  BY <1>1
<1>3. RemoveAt(drawables, k) = SubSeq(drawables, 1, 0) \o SubSeq(drawables, 2, 1)
  BY <1>2 DEF RemoveAt
<1>4. SubSeq(drawables, 1, 0) = <<>> /\ SubSeq(drawables, 2, 1) = <<>>
  BY <1>1, <1>2
<1> QED BY <1>2, <1>3, <1>4

LEMMA PresentAlone ==
  ASSUME AloneInv, NEW k \in DOMAIN drawables, ~strayed',
         PresentPanics(k) \/ SubmitFails(k) \/ ReleaseDrawable(k)
  PROVE  AloneInv'
<1>1. /\ drawables' = <<>> /\ at' = "poisoned"
      /\ UNCHANGED <<currentFrame, swapchain, images, fence, ready, gpu>>
  BY OnlyDrawable DEF PresentPanics, SubmitFails, ReleaseDrawable, contextVars
<1>2. TypesInv'
  BY <1>1, AloneFacts DEF TypesInv
<1>3. AloneHeld' /\ ResetHeld'
  BY <1>1 DEF AloneHeld, ResetHeld
<1>4. Flight(gpu', ready', fence')
  BY <1>1, AloneFacts
<1> QED BY <1>2, <1>3, <1>4 DEF AloneInv

\* The submission takes over the fence that its acquire reset.
LEMMA SubmitAlone ==
  ASSUME AloneInv, NEW k \in DOMAIN drawables, SubmitAndPresent(k), ~strayed'
  PROVE  AloneInv'
<1> DEFINE s   == [frame |-> currentFrame, freed |-> FALSE]
           q   == Append(gpu, s)
           fen == [fence EXCEPT ![currentFrame] = "submitted"]
           acq == acquired \ {drawables[k].image}
<1>1. drawables # <<>> /\ RemoveAt(drawables, k) = <<>>
  BY OnlyDrawable
<1>2. /\ at = "free" /\ at' = "free" /\ currentFrame' = NextOf(currentFrame)
      /\ fence[currentFrame] # "signaled"
      /\ \/ /\ gpu' = q /\ fence' = fen /\ drawables' = <<>>
            /\ UNCHANGED <<ready, swapchain, images>>
         \/ DestroyResources(q, ready, fen) /\ Build(<<>>, acq)
  BY <1>1 DEF SubmitAndPresent, SubmitAs, Submitted
<1>3. fence[currentFrame] = "reset" /\ ready[currentFrame]
  <2>1. fence[currentFrame] = "reset"
    BY <1>1, <1>2, AloneFacts DEF AloneHeld, Fences
  <2> QED BY <1>2, <2>1, AloneFacts DEF ResetHeld
<1>4. /\ fen \in [Frames -> Fences] /\ currentFrame' \in Frames
      /\ fen[currentFrame] = "submitted"
      /\ \A f \in Frames : f # currentFrame => fen[f] = fence[f]
  BY <1>2, AloneFacts, NextFrame DEF Fences
<1>5. \A f \in Frames : fen[f] # "reset"
  BY <1>2, <1>4, AloneFacts DEF ResetHeld
<1>6. /\ q \in Seq(Submissions) /\ DOMAIN q = 1 .. Len(gpu) + 1 /\ DOMAIN gpu = 1 .. Len(gpu)
      /\ Len(gpu) \in Nat
      /\ \A i \in 1 .. Len(gpu) : q[i] = gpu[i]
      /\ q[Len(gpu) + 1] = s
  <2>1. s \in Submissions
    BY AloneFacts DEF Submissions
  <2> QED BY <2>1, AloneFacts
<1>7. ASSUME NEW i \in 1 .. Len(gpu)
      PROVE  /\ gpu[i].frame \in Frames /\ gpu[i].frame # currentFrame
             /\ ready[gpu[i].frame] /\ fence[gpu[i].frame] = "submitted"
  <2>1. i \in DOMAIN gpu /\ gpu[i] \in Submissions
    BY <1>6, AloneFacts
  <2>2. ready[gpu[i].frame] /\ fence[gpu[i].frame] = "submitted"
    BY <2>1, AloneFacts DEF Flight
  <2> QED BY <1>3, <2>1, <2>2 DEF Submissions
<1> HIDE DEF q, fen
<1>8. Flight(q, ready, fen)
  <2>1. ASSUME NEW f \in Frames, fen[f] = "submitted"
        PROVE  \E i \in DOMAIN q : q[i].frame = f
    <3>1. CASE f = currentFrame
      BY <1>6, <3>1
    <3>2. CASE f # currentFrame
      <4>1. PICK i \in DOMAIN gpu : gpu[i].frame = f
        BY <1>4, <2>1, <3>2, AloneFacts DEF Flight
      <4> QED BY <1>6, <4>1
    <3> QED BY <3>1, <3>2
  <2>2. ASSUME NEW i \in DOMAIN q
        PROVE  fen[q[i].frame] = "submitted" /\ ready[q[i].frame]
    <3>1. CASE i \in 1 .. Len(gpu)
      BY <1>4, <1>6, <1>7, <3>1
    <3>2. CASE i = Len(gpu) + 1
      BY <1>3, <1>4, <1>6, <3>2
    <3> QED BY <1>6, <3>1, <3>2
  <2>3. ASSUME NEW i \in DOMAIN q, NEW j \in DOMAIN q, q[i].frame = q[j].frame
        PROVE  i = j
    <3>1. CASE i \in 1 .. Len(gpu) /\ j \in 1 .. Len(gpu)
      BY <1>6, <2>3, <3>1, AloneFacts DEF Flight
    <3>2. CASE i = Len(gpu) + 1 /\ j \in 1 .. Len(gpu)
      BY <1>6, <1>7, <2>3, <3>2
    <3>3. CASE j = Len(gpu) + 1 /\ i \in 1 .. Len(gpu)
      BY <1>6, <1>7, <2>3, <3>3
    <3> QED BY <1>6, <3>1, <3>2, <3>3
  <2> QED BY <2>1, <2>2, <2>3 DEF Flight
<1>9. CASE DestroyResources(q, ready, fen) /\ Build(<<>>, acq)
  <2>1. Len(<<>>) <= 1
    OBVIOUS
  <2> QED BY <1>2, <1>4, <1>5, <1>6, <1>8, <1>9, <2>1, AloneFacts, RebuildAlone
<1>10. CASE gpu' = q /\ fence' = fen /\ drawables' = <<>> /\ UNCHANGED <<ready, swapchain, images>>
  <2>1. TypesInv'
    BY <1>2, <1>4, <1>6, <1>10, AloneFacts DEF TypesInv
  <2>2. AloneHeld'
    BY <1>2, <1>10 DEF AloneHeld
  <2>3. ResetHeld'
    BY <1>5, <1>10 DEF ResetHeld
  <2> QED BY <1>8, <1>10, <2>1, <2>2, <2>3 DEF AloneInv
<1> QED BY <1>2, <1>9, <1>10

LEMMA FinishAlone ==
  ASSUME AloneInv, GpuFinishes, ~strayed'
  PROVE  AloneInv'
<1>1. PICK f : f = gpu[1].frame
  OBVIOUS
<1>2. /\ gpu # <<>> /\ gpu' = Tail(gpu)
      /\ ready' = [ready EXCEPT ![f] = FALSE] /\ fence' = [fence EXCEPT ![f] = "signaled"]
      /\ UNCHANGED <<at, currentFrame, swapchain, images, acquired, drawables, strayed>>
  <2>1. gpu # <<>> /\ gpu \in Seq(Submissions)
    BY AloneFacts DEF GpuFinishes
  <2>2. Head(gpu) = gpu[1]
    BY <2>1
  <2> QED BY <1>1, <2>2 DEF GpuFinishes, contextVars
<1>3. /\ gpu' \in Seq(Submissions) /\ Len(gpu) \in Nat \ {0}
      /\ DOMAIN gpu = 1 .. Len(gpu) /\ DOMAIN gpu' = 1 .. Len(gpu) - 1
      /\ \A i \in DOMAIN gpu' : gpu'[i] = gpu[i + 1] /\ i + 1 \in DOMAIN gpu /\ i + 1 # 1
  BY <1>2, AloneFacts
<1>4. gpu[1] \in Submissions /\ f \in Frames /\ fence[f] = "submitted" /\ 1 \in DOMAIN gpu
  <2>1. 1 \in DOMAIN gpu /\ gpu[1] \in Submissions
    BY <1>3, AloneFacts
  <2>2. fence[f] = "submitted"
    BY <1>1, <2>1, AloneFacts DEF Flight
  <2> QED BY <1>1, <2>1, <2>2 DEF Submissions
<1>5. /\ fence' \in [Frames -> Fences] /\ ready' \in [Frames -> BOOLEAN]
      /\ fence'[f] = "signaled"
      /\ \A g \in Frames : g # f => fence'[g] = fence[g] /\ ready'[g] = ready[g]
  BY <1>2, <1>4, AloneFacts DEF Fences
<1>6. TypesInv'
  BY <1>2, <1>3, <1>5, AloneFacts DEF TypesInv
<1>7. AloneHeld'
  BY <1>2, <1>4, <1>5, AloneFacts DEF AloneHeld
<1>8. ResetHeld'
  BY <1>2, <1>4, <1>5, AloneFacts DEF ResetHeld
<1>9. ASSUME NEW i \in DOMAIN gpu'
      PROVE  /\ i + 1 \in DOMAIN gpu /\ gpu'[i] = gpu[i + 1]
             /\ gpu[i + 1].frame \in Frames /\ gpu[i + 1].frame # f
             /\ fence[gpu[i + 1].frame] = "submitted" /\ ready[gpu[i + 1].frame]
  <2>1. i + 1 \in DOMAIN gpu /\ i + 1 # 1 /\ gpu'[i] = gpu[i + 1] /\ gpu[i + 1] \in Submissions
    BY <1>3, AloneFacts
  <2>2. gpu[i + 1].frame # f
    BY <1>1, <1>4, <2>1, AloneFacts DEF Flight
  <2> QED BY <2>1, <2>2, AloneFacts DEF Flight, Submissions
<1>10. Flight(gpu', ready', fence')
  <2>1. ASSUME NEW g \in Frames, fence'[g] = "submitted"
        PROVE  \E i \in DOMAIN gpu' : gpu'[i].frame = g
    <3>1. g # f /\ fence[g] = "submitted"
      BY <1>5, <2>1
    <3>2. PICK i \in DOMAIN gpu : gpu[i].frame = g
      BY <3>1, AloneFacts DEF Flight
    <3>3. i - 1 \in DOMAIN gpu' /\ gpu'[i - 1] = gpu[i]
      BY <1>1, <1>3, <3>1, <3>2
    <3> QED BY <3>2, <3>3
  <2>2. \A i \in DOMAIN gpu' : fence'[gpu'[i].frame] = "submitted" /\ ready'[gpu'[i].frame]
    BY <1>5, <1>9
  <2>3. ASSUME NEW i \in DOMAIN gpu', NEW j \in DOMAIN gpu', gpu'[i].frame = gpu'[j].frame
        PROVE  i = j
    <3>1. gpu[i + 1].frame = gpu[j + 1].frame /\ i + 1 \in DOMAIN gpu /\ j + 1 \in DOMAIN gpu
      BY <1>9, <2>3
    <3>2. i + 1 = j + 1
      BY <3>1, AloneFacts DEF Flight
    <3> QED BY <1>3, <3>2
  <2> QED BY <2>1, <2>2, <2>3 DEF Flight
<1> QED BY <1>6, <1>7, <1>8, <1>10 DEF AloneInv
-----------------------------------------------------------------------------
LEMMA InitStuck == Init => StuckInv
<1> SUFFICES ASSUME Init PROVE AloneInv
  BY DEF StuckInv
<1>1. TypesInv
  BY RenderAssumption DEF Init, TypesInv, Frames, Fences
<1>2. AloneHeld /\ ResetHeld
  BY DEF Init, AloneHeld, ResetHeld
<1>3. Flight(gpu, ready, fence)
  BY DEF Init, Flight
<1> QED BY <1>1, <1>2, <1>3 DEF AloneInv

LEMMA StepKeepsStuck == StuckInv /\ [Step]_vars => StuckInv'
<1> SUFFICES ASSUME StuckInv, [Step]_vars, ~strayed'
             PROVE  AloneInv'
  BY DEF StuckInv
<1>1. CASE Step
  <2>1. AloneInv
    BY <1>1, NotStrayed
  <2>2. CASE SetContext
    BY <2>1, <2>2, SetContextAlone
  <2>3. CASE NextDrawableRecreates \/ AcquireOutOfDate
    BY <2>1, <2>3, RecreatesAlone
  <2>4. CASE AcquireSuboptimal
    BY <2>1, <2>4, SuboptimalAlone
  <2>5. CASE SetDrawableSize \/ NextDrawableWaits \/ FenceSignaled \/ AcquireNotReady \/ TickFails
    BY <2>1, <2>5, WaitingAlone
  <2>6. CASE AcquireOptimal
    BY <2>1, <2>6, AcquireAlone
  <2>7. CASE \E k \in DOMAIN drawables :
               PresentPanics(k) \/ SubmitFails(k) \/ ReleaseDrawable(k)
    BY <2>1, <2>7, PresentAlone
  <2>8. CASE \E k \in DOMAIN drawables : SubmitAndPresent(k)
    BY <2>1, <2>8, SubmitAlone
  <2>9. CASE GpuFinishes
    BY <2>1, <2>9, FinishAlone
  <2> QED BY <1>1, <2>2, <2>3, <2>4, <2>5, <2>6, <2>7, <2>8, <2>9 DEF Step
<1>2. CASE UNCHANGED vars
  BY <1>2 DEF vars, contextVars, StuckInv, AloneInv, TypesInv, AloneHeld, ResetHeld, Flight
<1> QED BY <1>1, <1>2

\* Whatever the file, the number of frames and of drawables the application may
\* hold, and whether or not it may stray: tick blocks on a fence for ever only
\* after a drawable was lost, two were held at once, or a drawable was submitted
\* with its fence signaled.
THEOREM StuckExplained == Spec => []StuckOnlyIfStrayed
<1>1. StuckInv => StuckOnlyIfStrayed
  <2> SUFFICES ASSUME AloneInv, at = "waiting", fence[currentFrame] # "signaled"
               PROVE  \E i \in DOMAIN gpu :
                        /\ gpu[i].frame = currentFrame
                        /\ \A j \in 1 .. i : ready[gpu[j].frame]
    BY DEF StuckInv, StuckOnlyIfStrayed
  <2>1. fence[currentFrame] = "submitted"
    BY AloneFacts DEF AloneHeld, Fences
  <2>2. PICK i \in DOMAIN gpu : gpu[i].frame = currentFrame
    BY <2>1, AloneFacts DEF Flight
  <2>3. \A j \in 1 .. i : j \in DOMAIN gpu
    BY <2>2, AloneFacts
  <2> QED BY <2>2, <2>3, AloneFacts DEF Flight
<1> QED BY <1>1, InitStuck, StepKeepsStuck, PTL DEF Spec
=============================================================================
