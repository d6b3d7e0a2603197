----------------------------- MODULE MCGraphics ------------------------------
\* Instances of Graphics for TLC.
EXTENDS Graphics

CONSTANTS t1, t2, h1, h2, i1

ConstThreads == {t1, t2}
ConstHandles == {h1, h2}
ConstImages  == {i1}
HandleSymmetry == Permutations(ConstHandles) \cup Permutations(ConstThreads)

\* As on a discrete GPU, on a unified one, and on one without device-local memory
\* an image can use.  Every device has a coherent type for buffers, as Vulkan asks.
CoherentLocal == {"DEVICE_LOCAL", "HOST_VISIBLE", "HOST_COHERENT"}
Coherent      == {"HOST_VISIBLE", "HOST_COHERENT"}
Memories ==
  { [types |-> <<Coherent, {"DEVICE_LOCAL"}, {"HOST_VISIBLE"}, Coherent>>,
     bufferBits |-> {2, 3, 4}, imageBits |-> {1, 2}],
    [types |-> <<{}, CoherentLocal>>, bufferBits |-> {2}, imageBits |-> {2}],
    [types |-> <<{"DEVICE_LOCAL"}, Coherent>>, bufferBits |-> {2}, imageBits |-> {2}] }

FamilyKinds ==
  { {"graphics", "compute", "transfer"}, {"graphics", "present"}, {"transfer"},
    {"compute", "transfer", "present"}, {"graphics", "transfer", "present"},
    {"transfer", "present"} }

Device(type, memory, families, extensions, features, size) ==
  [type |-> type, memory |-> memory, families |-> families, extensions |-> extensions,
   features |-> features, enumerates |-> type # "other",
   localMemory |-> IF size = "big" THEN 1536 ELSE 0,
   maxDimension |-> IF size = "big" THEN 32768 ELSE 4096]

Universal == << {"graphics", "compute", "transfer", "present"} >>
Headless  == << {"graphics", "compute", "transfer"} >>
AnyMemory == CHOOSE m \in Memories : TRUE

\* Every memory, and every list of up to three families.
OneDevice ==
  { <<Device("integrated", memory, Universal, {"swapchain"}, {}, "small")>> :
      memory \in Memories }
    \cup { <<Device("integrated", AnyMemory, families, {"swapchain"}, {}, "small")>> :
            families \in BoundedSeq(FamilyKinds, 3) }

\* The plainest and the richest of each kind, and devices that do not qualify.
Variety ==
  { Device(type, AnyMemory, Universal,
           IF size = "big" THEN RequiredExtensions \cup PreferredExtensions
                           ELSE RequiredExtensions,
           IF size = "big" THEN DOMAIN FeatureScore ELSE {}, size) :
      type \in DOMAIN TypeScore, size \in {"big", "small"} }
    \cup { Device("discrete", AnyMemory, Headless,
                  RequiredExtensions, {}, "big"),
           Device("discrete", AnyMemory, Universal,
                  PreferredExtensions, {}, "big") }

ConstOffers ==
  [devices : OneDevice \cup BoundedSeq(Variety, 2), surface : BOOLEAN] \ {NoOffer}
==============================================================================
