\* state_machine.rs: an application that presents each drawable before it asks
\* for the next one, three frames, swapchains of two or three images.
CONSTANTS
  StateMachine = TRUE
  FrameCount = 3
  ImageCounts <- TwoOrThree
  MaxHeld = 1
  MaxQueued = 4
  MayStray = FALSE
SPECIFICATION FairSpec
INVARIANTS FenceGuardsReuse SubmissionsCanRun DrawablesPresentable PanicNeedsFailedBuild
PROPERTY LockReleased
CHECK_DEADLOCK FALSE
