----------------------------- MODULE GpuImages -------------------------------
(***************************************************************************)
(* vulkan_backend/resource.rs: images, their memory and their views.  The  *)
(* callers give the three constructors the device of G_SHARED_DEVICE.      *)
(*                                                                         *)
(* A GpuImage is the set of its handles that are not null or None, whether *)
(* it owns its memory, and that memory's type (0 without).  It has no      *)
(* Drop: whoever lets go of it without destroy loses what it holds.        *)
(***************************************************************************)
EXTENDS DeviceMemory

CONSTANT Images   \* places for a GpuImage

VARIABLES
  images,  \* images[i]: the GpuImage in place i
  parts    \* parts[i]: the device's objects made for it

imageVars == <<images, parts>>

Kinds   == {"image", "memory", "view"}
NoImage == [fields |-> {}, owns |-> FALSE, type |-> 0]

ImageTypeOK ==
  /\ images \in [Images -> [fields : SUBSET Kinds, owns : BOOLEAN,
                            type : {0} \cup DOMAIN shared.types]]
  /\ parts \in [Images -> SUBSET Kinds]

ImageInit ==
  /\ images = [i \in Images |-> NoImage]
  /\ parts = [i \in Images |-> {}]

\* A place that is empty, or whose image has been destroyed.
CanCreate(i) == HasDevice /\ images[i].fields = {}

Made(i, fields, type) ==
  /\ images' = [images EXCEPT ![i] =
                  [fields |-> fields, owns |-> "memory" \in fields, type |-> type]]
  /\ parts' = [parts EXCEPT ![i] = fields]
  /\ UNCHANGED lost

\* A later call failed, and ? returned past what was there already.
Lose(kinds) == lost' = lost \cup kinds /\ UNCHANGED imageVars

\* Image, memory type, memory, binding, view.
MakeOwned(i, consumed) ==
  LET type == FindMemoryType(shared.imageBits, DeviceLocal)
  IN /\ CanCreate(i)
     /\ \/ Lose({"image"})
        \/ /\ type # 0
           /\ Lose({"image", "memory"} \cup consumed) \/ Made(i, Kinds, type)

CreateColorAttachment(i) == MakeOwned(i, {})

\* A successful allocation takes the descriptor, and its caller, who may yet get
\* an error, cannot tell.
ImportOpaqueFd(i) == MakeOwned(i, {"fd"})

\* import_from_mach_port: the IOSurface is the memory, and its reference is
\* given back whether or not the image was made.
ImportFromMachPort(i) ==
  /\ CanCreate(i)
  /\ Lose({"image"}) \/ Made(i, {"image", "view"}, 0)

Destroy(i) ==
  LET freed == images[i].fields \ (IF images[i].owns THEN {} ELSE {"memory"})
  IN /\ HasDevice
     /\ parts' = [parts EXCEPT ![i] = @ \ freed]
     /\ images' = [images EXCEPT ![i].fields = @ \ freed]
     /\ UNCHANGED lost

\* The GpuImage goes out of scope.
DropImage(i) ==
  /\ images[i] # NoImage
  /\ lost' = lost \cup parts[i]
  /\ images' = [images EXCEPT ![i] = NoImage]
  /\ parts' = [parts EXCEPT ![i] = {}]

ImageNext ==
  \E i \in Images :
    \/ CreateColorAttachment(i) \/ ImportOpaqueFd(i) \/ ImportFromMachPort(i)
    \/ Destroy(i) \/ DropImage(i)
==============================================================================
