--------------------------- MODULE DeviceSelection ---------------------------
(***************************************************************************)
(* vulkan_backend/mod.rs: which physical device is used and which of its   *)
(* queue families.  Pure functions of what the Vulkan instance reports.    *)
(*                                                                         *)
(* A device is a record: its type, its device-local memory in units of     *)
(* 64 MiB, max_image_dimension2D, the features and extensions it has,      *)
(* whether its extensions can be enumerated, and its queue families.  A    *)
(* family is the set of what it can do, "present" meaning that it presents *)
(* to the surface given.  Families and devices are numbered from 1 and 0   *)
(* stands for None.                                                        *)
(***************************************************************************)
EXTENDS Integers, FiniteSets, SequencesExt

RequiredExtensions  == {"swapchain"}
PreferredExtensions == {"external_memory", "external_memory_fd",
                        "external_memory_host", "metal_objects"}

\* With no surface every family counts as able to present.
Presents(family, surface) == surface => "present" \in family

TransferOnly(family) ==
  "transfer" \in family /\ "graphics" \notin family /\ "compute" \notin family

\* mutant: takes the last family that can present
LatestGraphics(families, surface) ==
  LET Scan(best, i) ==
        IF "graphics" \in families[i] /\ (best = 0 \/ Presents(families[i], surface))
        THEN i ELSE best
  IN FoldLeftDomain(Scan, 0, families)

BestGraphics(families, surface) ==
  LET IsBetter(best, i) ==
        /\ "graphics" \in families[i]
        /\ \/ best = 0
           \/ Presents(families[i], surface) /\ ~Presents(families[best], surface)
      Scan(best, i) == IF IsBetter(best, i) THEN i ELSE best
  IN FoldLeftDomain(Scan, 0, families)

DedicatedTransfer(families) ==
  LET Scan(best, i) == IF best = 0 /\ TransferOnly(families[i]) THEN i ELSE best
  IN FoldLeftDomain(Scan, 0, families)

\* pick_queue_families; graphics = 0 is None.
PickQueueFamilies(families, surface) ==
  LET graphics  == BestGraphics(families, surface)
      dedicated == DedicatedTransfer(families)
  IN [graphics |-> graphics,
      transfer |-> IF dedicated # 0 THEN dedicated ELSE graphics,
      graphics_supports_present |->
        graphics # 0 /\ Presents(families[graphics], surface)]

TypeScore ==
  [discrete |-> 100000, integrated |-> 10000, virtual |-> 1000, cpu |-> 100, other |-> 0]
FeatureScore ==
  [sampler_anisotropy |-> 500, shader_storage_image_extended_formats |-> 200,
   geometry_shader |-> 100, tessellation_shader |-> 100]

ScoreCandidate(device) ==
  TypeScore[device.type] + device.localMemory + device.maxDimension \div 64
    + SumFunctionOnSet(FeatureScore, device.features)
    + 1500 * Cardinality(PreferredExtensions \cap device.extensions)

\* What the loop of select_physical_device lets through.
Qualifies(device, surface) ==
  LET queues == PickQueueFamilies(device.families, surface)
  IN /\ device.enumerates
     /\ RequiredExtensions \subseteq device.extensions
     /\ queues.graphics # 0
     /\ surface => queues.graphics_supports_present

\* select_physical_device: max_by_key keeps the last of equals; 0 is an error.
SelectPhysicalDevice(devices, surface) ==
  LET Scan(best, i) ==
        IF /\ Qualifies(devices[i], surface)
           /\ best = 0 \/ ScoreCandidate(devices[i]) >= ScoreCandidate(devices[best])
        THEN i ELSE best
  IN FoldLeftDomain(Scan, 0, devices)

\* create_logical_device: the families whose queues are created.
QueueCreateInfos(queues) ==
  IF queues.transfer # queues.graphics
  THEN <<queues.graphics, queues.transfer>> ELSE <<queues.graphics>>
==============================================================================
