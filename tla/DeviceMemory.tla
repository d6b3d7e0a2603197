---------------------------- MODULE DeviceMemory -----------------------------
(***************************************************************************)
(* The device behind G_SHARED_DEVICE of frameworks/metal_sys.rs, as the    *)
(* GL buffers and the GPU images see it: its memory types, and which of    *)
(* them a buffer and an image may use.  Types are numbered from 1.  Most   *)
(* functions that make several Vulkan objects return at the first failure  *)
(* without destroying what they have made: that is lost.                   *)
(***************************************************************************)
EXTENDS Integers, FiniteSetsExt

VARIABLES
  shared,  \* G_SHARED_DEVICE, NoDevice while it is None
  lost     \* history: kinds of Vulkan objects that exist and nobody holds

NoDevice    == [types |-> <<>>, bufferBits |-> {}, imageBits |-> {}]
HasDevice   == shared # NoDevice
HostVisible == {"HOST_VISIBLE", "HOST_COHERENT"}
DeviceLocal == {"DEVICE_LOCAL"}

\* mutant: forgets memory_type_bits
AnySuitable(bits, flags) == {i \in DOMAIN shared.types : flags \subseteq shared.types[i]}

\* The types among bits that have all of flags.
Suitable(bits, flags) == {i \in bits : flags \subseteq shared.types[i]}

\* find_memory_type of vulkan_backend/resource.rs; 0 is NoMemoryType.
FindMemoryType(bits, flags) ==
  IF Suitable(bits, flags) = {} THEN 0 ELSE Min(Suitable(bits, flags))

\* The loop of glBufferData, which falls back on the first type.
BufferMemoryType(bits) ==
  IF Suitable(bits, HostVisible) = {} THEN 1 ELSE Min(Suitable(bits, HostVisible))
==============================================================================
