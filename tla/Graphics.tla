------------------------------ MODULE Graphics -------------------------------
(***************************************************************************)
(* One process's Vulkan device, from the choice of it (vulkan_backend/     *)
(* mod.rs) through G_SHARED_DEVICE (frameworks/metal_sys.rs) to what is    *)
(* made with it: GL buffers and images.                                    *)
(*                                                                         *)
(* What the instance reports is an offer: its devices, in order, and       *)
(* whether a surface to present on is given.  The device is built and made *)
(* global once; set_global_shared_device is not synchronised, and a second *)
(* call would leave every buffer behind.                                   *)
(***************************************************************************)
EXTENDS DeviceSelection, GlBuffers, GpuImages

CONSTANT Offers

VARIABLES
  offer,   \* [devices, surface], NoOffer once the device is global
  choice   \* [device, queues, infos] while it is being built

NoOffer  == [devices |-> <<>>, surface |-> FALSE]
Unchosen == [device |-> 0, queues |-> <<>>, infos |-> <<>>]

\* What Vulkan promises of the devices it reports: among the memory types a buffer
\* may use one is visible to the host and coherent.
ASSUME OffersAssumption ==
  \A o \in Offers :
    /\ o.devices \in Seq(Range(o.devices)) /\ o.surface \in BOOLEAN
    /\ \A d \in DOMAIN o.devices :
         LET device == o.devices[d]
             memory == device.memory
         IN /\ device.type \in DOMAIN TypeScore
            /\ device.features \subseteq DOMAIN FeatureScore
            /\ device.localMemory \in Nat /\ device.maxDimension \in Nat
            /\ device.families \in Seq(Range(device.families))
            /\ DOMAIN memory.types \subseteq Nat \ {0}
            /\ memory.bufferBits \cup memory.imageBits \subseteq DOMAIN memory.types
            /\ \E i \in memory.bufferBits : HostVisible \subseteq memory.types[i]

buildVars == <<offer, choice, shared>>
vars == <<buildVars, lost, glVars, imageVars>>

TypeOK ==
  /\ offer \in Offers \cup {NoOffer}
  /\ choice.device \in 0 .. Len(offer.devices)
  /\ lost \subseteq Kinds \cup {"fd", "device"}
  /\ GlTypeOK /\ ImageTypeOK

Init ==
  /\ offer \in Offers /\ choice = Unchosen
  /\ shared = NoDevice /\ lost = {}
  /\ GlInit /\ ImageInit

\* build_shared_device as far as the logical device, when there is one to build.
SelectDevice ==
  LET best   == SelectPhysicalDevice(offer.devices, offer.surface)
      queues == PickQueueFamilies(offer.devices[best].families, offer.surface)
  IN /\ choice = Unchosen /\ best # 0
     /\ choice' = [device |-> best, queues |-> queues, infos |-> QueueCreateInfos(queues)]
     /\ UNCHANGED <<offer, shared, lost, glVars, imageVars>>

\* create_command_pool fails: the device just created is not destroyed.
PoolFails ==
  /\ choice # Unchosen /\ lost' = lost \cup {"device"} /\ choice' = Unchosen
  /\ offer' = NoOffer /\ shared' = NoDevice
  /\ UNCHANGED <<glVars, imageVars>>

SetGlobalSharedDevice ==
  /\ choice # Unchosen
  /\ shared' = offer.devices[choice.device].memory
  /\ offer' = NoOffer /\ choice' = Unchosen
  /\ UNCHANGED <<lost, glVars, imageVars>>

Next ==
  \/ ~aborted /\ (SelectDevice \/ PoolFails \/ SetGlobalSharedDevice)
  \/ GlNext /\ UNCHANGED <<buildVars, lost, imageVars>>
  \/ ~aborted /\ ImageNext /\ UNCHANGED <<buildVars, glVars>>

Spec == Init /\ [][Next]_vars

-----------------------------------------------------------------------------
\* What the choice should be, without the loops that make it.

Graphical(families) == {i \in DOMAIN families : "graphics" \in families[i]}
Presenting(families) ==
  {i \in Graphical(families) : offer.surface => "present" \in families[i]}

Usable ==
  {d \in DOMAIN offer.devices :
     LET device == offer.devices[d]
     IN /\ device.enumerates /\ "swapchain" \in device.extensions
        /\ Presenting(device.families) # {}}

TypeRank == [discrete |-> 2, integrated |-> 1, virtual |-> 0, cpu |-> 0, other |-> 0]

\* A device is built if there is a usable one and none unusable ever is.  Among
\* the usable devices none scores higher, none after it in the list the same, and
\* none is a better kind of GPU: neither 96 GiB of memory nor every feature and
\* extension lifts a virtual or software device over an integrated one, or that
\* over a discrete one (score_candidate).  Its graphics queue is the first that can
\* present, its transfer queue the first that can only transfer or else the graphics
\* queue, and no family is asked for twice (pick_queue_families,
\* create_logical_device).
SelectionIsBest ==
  /\ SelectPhysicalDevice(offer.devices, offer.surface) = 0 <=> Usable = {}
  /\ choice # Unchosen =>
       LET Device(d) == offer.devices[d]
           families  == Device(choice.device).families
           onlyCopy  == {i \in DOMAIN families :
                           families[i] \cap {"graphics", "compute", "transfer"} = {"transfer"}}
       IN /\ choice.device \in Usable
          /\ \A d \in Usable \ {choice.device} :
               /\ ScoreCandidate(Device(d)) <= ScoreCandidate(Device(choice.device))
               /\ d > choice.device =>
                    ScoreCandidate(Device(d)) < ScoreCandidate(Device(choice.device))
               /\ TypeRank[Device(d).type] <= TypeRank[Device(choice.device).type]
          /\ choice.queues.graphics = Min(Presenting(families))
          /\ choice.queues.transfer =
               IF onlyCopy = {} THEN choice.queues.graphics ELSE Min(onlyCopy)
          /\ IsInjective(choice.infos)
          /\ Range(choice.infos) = {choice.queues.graphics, choice.queues.transfer}

\* While the process lives, every Vulkan buffer belongs to one name and every name
\* with a handle to a live buffer, so that glBufferSubData, glDrawElements and
\* glDeleteBuffers touch nothing dead and nothing is left behind; the same of every
\* image and its parts, destroyed or not; of what failed calls lose no memory goes
\* without its image, no descriptor without its memory.  It is not claimed once names
\* have wrapped around or two threads have raced through get_context (reused).
HandlesAccounted ==
  /\ ~aborted /\ ~reused =>
       /\ DOMAIN live = Recorded
       /\ \A m, n \in DOMAIN buffers : buffers[m] = buffers[n] => m = n \/ buffers[m] = Null
       /\ Touched \subseteq DOMAIN live
  /\ \A i \in Images : images[i].fields = parts[i]
  /\ "fd" \in lost => "memory" \in lost
  /\ "memory" \in lost => "image" \in lost

\* Every buffer's memory is of a type its buffer may use and the process can write
\* to without flushing, every image's of a type the image may use on the device
\* (find_memory_type and the loop of glBufferData).
MemorySuits ==
  /\ \A h \in DOMAIN live :
       live[h] \in shared.bufferBits /\ HostVisible \subseteq shared.types[live[h]]
  /\ \A i \in Images : "memory" \in images[i].fields =>
       images[i].type \in shared.imageBits /\ "DEVICE_LOCAL" \in shared.types[images[i].type]
==============================================================================
