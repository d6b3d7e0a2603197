----------------------------- MODULE GlBuffers -------------------------------
(***************************************************************************)
(* frameworks/opengl_sys.rs: GL buffer objects backed by Vulkan buffers.   *)
(* Every call holds the context's mutex from its lookup to its end and is  *)
(* one step, except the unsynchronised first use: get_context tests the    *)
(* static GL_CONTEXT in one step and stores a new context in another, so   *)
(* that a second thread's store may replace a context already in use.      *)
(*                                                                         *)
(* A Vulkan buffer and the memory bound to it are one handle.  A panic     *)
(* cannot leave an extern "C" function and ends the process.  The contents *)
(* of the buffers are left out, and with them the effect of                *)
(* glBufferSubData and glDrawElements, which only read the table: Touched  *)
(* is what they would use.                                                 *)
(***************************************************************************)
EXTENDS DeviceMemory, Functions

CONSTANTS Threads,
          IdMod,     \* 2^32: next_id is a c_uint
          Handles,   \* Vulkan buffers that can exist at once
          Null,      \* vk::Buffer::null()
          MaxGen     \* bound: names asked for or deleted by one call

ASSUME GlAssumption ==
  /\ IdMod \in Nat \ {0, 1} /\ MaxGen \in Nat
  /\ Null \notin Handles

VARIABLES
  racing,    \* threads that found no context and are about to store one
  hasContext,
  aborted,
  nextId,    \* next_id
  buffers,   \* the table: name -> handle or Null
  bound,     \* bound_array_buffer and bound_element_buffer
  live,      \* live[h]: memory type of handle h, if the device has h
  reused     \* history: a name was given out twice, or a context replaced

glVars == <<racing, hasContext, aborted, nextId, buffers, bound, live, reused>>

Names    == 0 .. IdMod - 1
Targets  == {"array", "element"}
Recorded == {buffers[n] : n \in DOMAIN buffers} \ {Null}

GlTypeOK ==
  /\ racing \subseteq Threads
  /\ hasContext \in BOOLEAN /\ aborted \in BOOLEAN /\ reused \in BOOLEAN
  /\ nextId \in Names
  /\ DOMAIN buffers \subseteq Names /\ Range(buffers) \subseteq Handles \cup {Null}
  /\ bound \in [Targets -> Names]
  /\ DOMAIN live \subseteq Handles /\ Range(live) \subseteq DOMAIN shared.types

NewContext ==
  /\ nextId' = 1
  /\ buffers' = <<>>
  /\ bound' = [t \in Targets |-> 0]

GlInit ==
  /\ racing = {} /\ hasContext = FALSE /\ aborted = FALSE /\ reused = FALSE
  /\ nextId = 1 /\ buffers = <<>> /\ bound = [t \in Targets |-> 0]
  /\ live = <<>>

\* get_context, the test.
FindNoContext(t) ==
  /\ ~hasContext /\ ~aborted /\ t \notin racing
  /\ racing' = racing \cup {t}
  /\ UNCHANGED <<hasContext, aborted, nextId, buffers, bound, live, reused>>

\* get_context, the store: what an earlier context held is lost.
StoreContext(t) ==
  /\ t \in racing /\ ~aborted
  /\ racing' = racing \ {t}
  /\ NewContext
  /\ reused' = (reused \/ hasContext)
  /\ hasContext' = TRUE
  /\ UNCHANGED <<aborted, live>>

\* Some thread is past get_context and takes the mutex.
Enters == hasContext /\ ~aborted /\ racing # Threads

\* glGenBuffers, where next_id wraps around silently (a release build).
GenBuffers(n) ==
  LET ids == {(nextId + i) % IdMod : i \in 0 .. n - 1}
  IN /\ Enters /\ HasDevice
     /\ buffers' = [m \in DOMAIN buffers \cup ids |-> IF m \in ids THEN Null ELSE buffers[m]]
     /\ nextId' = (nextId + n) % IdMod
     /\ reused' = (reused \/ 0 \in ids \/ ids \cap DOMAIN buffers # {})
     /\ UNCHANGED <<racing, hasContext, aborted, bound, live>>

\* The process ends in the middle of a call.
Panic ==
  /\ aborted' = TRUE
  /\ UNCHANGED <<racing, hasContext, nextId, buffers, bound, reused>>

\* glGenBuffers of a build with overflow checks.
GenOverflows(n) ==
  /\ Enters /\ HasDevice
  /\ nextId + n >= IdMod
  /\ Panic /\ UNCHANGED live

\* glBindBuffer asks neither for a device nor whether the name exists.
BindBuffer(target, name) ==
  /\ Enters
  /\ bound' = [bound EXCEPT ![target] = name]
  /\ UNCHANGED <<racing, hasContext, aborted, nextId, buffers, live, reused>>

Current(target) ==
  /\ Enters /\ HasDevice
  /\ bound[target] # 0 /\ bound[target] \in DOMAIN buffers

\* The device once glBufferData has destroyed what the name stood for.
Destroyed(target) == Restrict(live, DOMAIN live \ {buffers[bound[target]]})

Allocated(target, h) ==
  [g \in DOMAIN Destroyed(target) \cup {h} |->
     IF g = h THEN BufferMemoryType(shared.bufferBits) ELSE live[g]]

\* mutant: returns when the new buffer cannot be made
BufferDataReturns(target) ==
  /\ Current(target)
  /\ \/ /\ live' = Destroyed(target)
        /\ UNCHANGED buffers
     \/ \E h \in Handles \ DOMAIN Destroyed(target) :
          /\ live' = Allocated(target, h)
          /\ buffers' = [buffers EXCEPT ![bound[target]] = h]
  /\ UNCHANGED <<racing, hasContext, aborted, nextId, bound, reused>>

BufferData(target) ==
  /\ Current(target)
  /\ \E h \in Handles \ DOMAIN Destroyed(target) :
       /\ live' = Allocated(target, h)
       /\ buffers' = [buffers EXCEPT ![bound[target]] = h]
  /\ UNCHANGED <<racing, hasContext, aborted, nextId, bound, reused>>

\* Creating the buffer, allocating, binding or mapping its memory fails and an
\* unwrap panics, with the old handles gone and the new ones made or not.
BufferDataPanics(target) ==
  /\ Current(target)
  /\ \/ live' = Destroyed(target)
     \/ \E h \in Handles \ DOMAIN Destroyed(target) : live' = Allocated(target, h)
  /\ Panic

\* glBufferSubData, whose only effect on this state is a failed map.
SubDataPanics(target) ==
  /\ Current(target)
  /\ buffers[bound[target]] # Null
  /\ Panic /\ UNCHANGED live

\* glDeleteBuffers of the names listed; those repeated or unknown are skipped.
DeleteBuffers(ids) ==
  LET named == ids \cap DOMAIN buffers
  IN /\ Enters /\ HasDevice
     /\ buffers' = Restrict(buffers, DOMAIN buffers \ named)
     /\ live' = Restrict(live, DOMAIN live \ {buffers[n] : n \in named})
     /\ UNCHANGED <<racing, hasContext, aborted, nextId, bound, reused>>

GlNext ==
  \/ \E t \in Threads : FindNoContext(t) \/ StoreContext(t)
  \/ \E n \in 1 .. MaxGen : GenBuffers(n) \/ GenOverflows(n)
  \/ \E target \in Targets :
       \/ \E name \in Names : BindBuffer(target, name)
       \/ BufferData(target)
       \/ BufferDataPanics(target)
       \/ SubDataPanics(target)
  \/ \E ids \in kSubset(1, Names) \cup kSubset(2, Names) : DeleteBuffers(ids)

\* The buffers that glBufferSubData or glDrawElements would hand the device now.
Touched ==
  LET Behind(target) == IF Current(target) THEN {buffers[bound[target]]} \ {Null} ELSE {}
  IN UNION {Behind(target) : target \in Targets}
==============================================================================
