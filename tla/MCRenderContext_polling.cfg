\* swapchain.rs: an application that may hold two drawables, lose one, or see a
\* submission fail; two frames, and acquires that may find no image.
CONSTANTS
  StateMachine = FALSE
  FrameCount = 2
  ImageCounts <- TwoOrThree
  MaxHeld = 2
  MaxQueued = 3
  MayStray = TRUE
SPECIFICATION FairSpec
INVARIANT StuckOnlyIfStrayed
PROPERTY LockReleased
CHECK_DEADLOCK FALSE
