--------------------------- MODULE SurfaceRegistry ---------------------------
(***************************************************************************)
(* native/iosurface_shm_bridge.c: shared surfaces.  A surface is a POSIX   *)
(* shared memory object found under a name; qmv_surface_create makes one   *)
(* and owns the name, qmv_surface_open maps it in another place, and       *)
(* qmv_surface_destroy gives either up.  Each process lists its surfaces   *)
(* in a table of TableSize slots under g_table.lock; every other step is a *)
(* system call that other threads and processes interleave with.           *)
(*                                                                         *)
(* There is one name, an object is a number, and a surface struct is its   *)
(* address, which calloc may return again after a free.  The callers keep  *)
(* to one owner of the name at a time; a crash ends an ownership.          *)
(***************************************************************************)
EXTENDS Integers, FiniteSets

CONSTANTS Threads,
          ProcessOf,   \* ProcessOf[t]: the process thread t belongs to
          TableSize,   \* QMV_MAX_SURFACES
          Addresses,   \* addresses of surface structs
          MaxObjects,  \* bound on shared memory objects ever made
          Nowhere      \* NULL

ASSUME RegistryAssumption ==
  /\ DOMAIN ProcessOf = Threads
  /\ TableSize \in Nat \ {0} /\ MaxObjects \in Nat
  /\ Nowhere \notin Addresses

VARIABLES
  linked,   \* the object the name stands for, 0 if there is none
  header,   \* header[o]: how much of its header is there
  objects,  \* objects made so far
  surface,  \* surface[p][a]: the struct at address a of process p
  table,    \* table[p]: g_table.slots of process p
  pc,       \* pc[t]: where thread t is
  arg,      \* arg[t]: the struct its call works on
  orphaned  \* history: objects whose owner crashed

vars == <<linked, header, objects, surface, table, pc, arg, orphaned>>

Processes == {ProcessOf[t] : t \in Threads}
Slots     == 1 .. TableSize
Objects   == 1 .. MaxObjects
Unused    == [object |-> 0, owner |-> FALSE]

CreateSteps  == {"open", "unlink", "reopen", "size", "magic", "fields", "list", "abandon"}
OpenSteps    == {"lookup", "probe", "note"}
DestroySteps == {"drop", "unlist"}

TypeOK ==
  /\ linked \in 0 .. objects
  /\ header \in [Objects -> {"none", "zero", "magic", "whole"}]
  /\ objects \in 0 .. MaxObjects
  /\ surface \in [Processes -> [Addresses -> [object : 0 .. objects, owner : BOOLEAN]]]
  /\ table \in [Processes -> [Slots -> Addresses \cup {Nowhere}]]
  /\ pc \in [Threads -> {"idle"} \cup CreateSteps \cup OpenSteps \cup DestroySteps]
  /\ arg \in [Threads -> Addresses \cup {Nowhere}]
  /\ \A t \in Threads : pc[t] = "idle" <=> arg[t] = Nowhere
  /\ orphaned \subseteq 1 .. objects

Init ==
  /\ linked = 0 /\ objects = 0
  /\ header = [o \in Objects |-> "none"]
  /\ surface = [p \in Processes |-> [a \in Addresses |-> Unused]]
  /\ table = [p \in Processes |-> [s \in Slots |-> Nowhere]]
  /\ pc = [t \in Threads |-> "idle"]
  /\ arg = [t \in Threads |-> Nowhere]
  /\ orphaned = {}

At(t, step)  == pc[t] = step
Struct(t)    == surface[ProcessOf[t]][arg[t]]
InCall(p, a) == \E t \in Threads : ProcessOf[t] = p /\ arg[t] = a
Listed(p, a) == \E s \in Slots : table[p][s] = a
Allocated(p, a) == surface[p][a] # Unused \/ InCall(p, a)

Goto(t, step) == pc' = [pc EXCEPT ![t] = step] /\ UNCHANGED arg

Return(t) == pc' = [pc EXCEPT ![t] = "idle"] /\ arg' = [arg EXCEPT ![t] = Nowhere]
SetStruct(t, s) == surface' = [surface EXCEPT ![ProcessOf[t]][arg[t]] = s]

\* calloc: a struct at an address that is not in use.
Calloc(t, step) ==
  /\ At(t, "idle")
  /\ \E a \in Addresses :
       /\ ~Allocated(ProcessOf[t], a)
       /\ arg' = [arg EXCEPT ![t] = a]
       /\ pc' = [pc EXCEPT ![t] = step]
  /\ UNCHANGED <<linked, header, objects, surface, table, orphaned>>

Taken(p, s) == table[p][s] # Nowhere
Full(p)     == \A s \in Slots : Taken(p, s)

\* qmv_alloc_slot, in the table's lock: the first empty slot, if there is one.
List(p, a) ==
  \E s \in Slots :
    /\ ~Taken(p, s) /\ \A r \in 1 .. s - 1 : Taken(p, r)
    /\ table' = [table EXCEPT ![p][s] = a]

\* qmv_free_slot_by_ptr, in the table's lock: the slot that has the pointer.
Unlist(p, a) ==
  table' = [table EXCEPT ![p] = [s \in Slots |-> IF @[s] = a THEN Nowhere ELSE @[s]]]

------------------------------------------------------------------------------
(* qmv_surface_create.                                                      *)

\* The callers' rule: nobody else owns, creates or gives up the name.
NameUnowned ==
  /\ \A p \in Processes, a \in Addresses : ~surface[p][a].owner
  /\ \A t \in Threads : pc[t] \notin CreateSteps

BeginCreate(t) == NameUnowned /\ Calloc(t, "open")

NewObject(t) ==
  /\ objects < MaxObjects
  /\ objects' = objects + 1
  /\ linked' = objects'
  /\ SetStruct(t, [object |-> objects', owner |-> TRUE])

\* shm_open with O_EXCL; a name left by a crash is unlinked and opened again, and
\* any other error ends the call.
OpenExclusive(t) ==
  /\ At(t, "open")
  /\ \/ linked = 0 /\ NewObject(t) /\ Goto(t, "size") /\ UNCHANGED header
     \/ linked # 0 /\ Goto(t, "unlink") /\ UNCHANGED <<linked, header, objects, surface>>
     \/ Return(t) /\ UNCHANGED <<linked, header, objects, surface>>
  /\ UNCHANGED <<table, orphaned>>

UnlinkStale(t) ==
  /\ At(t, "unlink")
  /\ linked' = 0
  /\ Goto(t, "reopen")
  /\ UNCHANGED <<header, objects, surface, table, orphaned>>

\* The second shm_open finds the name free again, or fails for another reason.
Reopen(t) ==
  /\ At(t, "reopen")
  /\ \/ linked = 0 /\ NewObject(t) /\ Goto(t, "size") /\ UNCHANGED header
     \/ Return(t) /\ UNCHANGED <<linked, header, objects, surface>>
  /\ UNCHANGED <<table, orphaned>>

\* ftruncate and mmap; when one of them fails the object is given up.
SizeObject(t) ==
  /\ At(t, "size")
  /\ \/ header' = [header EXCEPT ![Struct(t).object] = "zero"] /\ Goto(t, "magic")
     \/ UNCHANGED header /\ Goto(t, "abandon")
  /\ UNCHANGED <<linked, objects, surface, table, orphaned>>

\* The header is filled in place, its magic first and its data_size last.
StoreMagic(t) ==
  /\ At(t, "magic")
  /\ header' = [header EXCEPT ![Struct(t).object] = "magic"]
  /\ Goto(t, "fields")
  /\ UNCHANGED <<linked, objects, surface, table, orphaned>>

StoreFields(t) ==
  /\ At(t, "fields")
  /\ header' = [header EXCEPT ![Struct(t).object] = "whole"]
  /\ Goto(t, "list")
  /\ UNCHANGED <<linked, objects, surface, table, orphaned>>

\* The new surface is listed; with the table full it is given up.
ListCreated(t) ==
  /\ At(t, "list")
  /\ \/ List(ProcessOf[t], arg[t]) /\ Return(t)
     \/ Full(ProcessOf[t]) /\ UNCHANGED table /\ Goto(t, "abandon")
  /\ UNCHANGED <<linked, header, objects, surface, orphaned>>

\* munmap, close, shm_unlink and free.
Abandon(t) ==
  /\ At(t, "abandon")
  /\ linked' = 0
  /\ SetStruct(t, Unused)
  /\ Return(t)
  /\ UNCHANGED <<header, objects, table, orphaned>>

------------------------------------------------------------------------------
(* qmv_surface_open.                                                        *)

BeginOpen(t) == Calloc(t, "lookup")

OpenExisting(t) ==
  /\ At(t, "lookup")
  /\ IF linked # 0
     THEN SetStruct(t, [object |-> linked, owner |-> FALSE]) /\ Goto(t, "probe")
     ELSE Return(t) /\ UNCHANGED surface
  /\ UNCHANGED <<linked, header, objects, table, orphaned>>

\* The header is read and must begin with the magic; mmap may fail as well.
Probe(t) ==
  /\ At(t, "probe")
  /\ \/ header[Struct(t).object] \in {"magic", "whole"} /\ Goto(t, "note") /\ UNCHANGED surface
     \/ SetStruct(t, Unused) /\ Return(t)
  /\ UNCHANGED <<linked, header, objects, table, orphaned>>

\* The surface is listed if there is room; it is returned in either case.
ListOpened(t) ==
  /\ At(t, "note")
  /\ \/ List(ProcessOf[t], arg[t])
     \/ Full(ProcessOf[t]) /\ UNCHANGED table
  /\ Return(t)
  /\ UNCHANGED <<linked, header, objects, surface, orphaned>>

------------------------------------------------------------------------------
(* qmv_surface_destroy, of a surface no other thread is working on.         *)

BeginDestroy(t) ==
  /\ At(t, "idle")
  /\ \E a \in Addresses :
       /\ surface[ProcessOf[t]][a] # Unused /\ ~InCall(ProcessOf[t], a)
       /\ arg' = [arg EXCEPT ![t] = a]
       /\ pc' = [pc EXCEPT ![t] = "drop"]
  /\ UNCHANGED <<linked, header, objects, surface, table, orphaned>>

DropAsOwner(t, owner) ==
  /\ At(t, "drop")
  /\ linked' = IF owner THEN 0 ELSE linked
  /\ Goto(t, "unlist")
  /\ UNCHANGED <<header, objects, surface, table, orphaned>>

\* mutant: ignores the owner flag
DropAlwaysUnlinking(t) == DropAsOwner(t, TRUE)

\* munmap and close; the owner unlinks the name.
DropMapping(t) == DropAsOwner(t, Struct(t).owner)

\* mutant: forgets the slot
FreeBeforeUnlisting(t) ==
  /\ At(t, "unlist")
  /\ SetStruct(t, Unused)
  /\ Return(t)
  /\ UNCHANGED <<linked, header, objects, table, orphaned>>

\* The slot is emptied and the struct freed.
FreeSurface(t) ==
  /\ At(t, "unlist")
  /\ Unlist(ProcessOf[t], arg[t])
  /\ SetStruct(t, Unused)
  /\ Return(t)
  /\ UNCHANGED <<linked, header, objects, orphaned>>

\* A process dies: its memory is gone, the name is not.
Crash(p) ==
  /\ orphaned' = orphaned \cup {surface[p][a].object : a \in {b \in Addresses : surface[p][b].owner}}
  /\ surface' = [surface EXCEPT ![p] = [a \in Addresses |-> Unused]]
  /\ table' = [table EXCEPT ![p] = [s \in Slots |-> Nowhere]]
  /\ pc' = [t \in Threads |-> IF ProcessOf[t] = p THEN "idle" ELSE pc[t]]
  /\ arg' = [t \in Threads |-> IF ProcessOf[t] = p THEN Nowhere ELSE arg[t]]
  /\ UNCHANGED <<linked, header, objects>>

Next ==
  \/ \E t \in Threads :
       \/ BeginCreate(t) \/ OpenExclusive(t) \/ UnlinkStale(t) \/ Reopen(t)
       \/ SizeObject(t) \/ StoreMagic(t) \/ StoreFields(t) \/ ListCreated(t) \/ Abandon(t)
       \/ BeginOpen(t) \/ OpenExisting(t) \/ Probe(t) \/ ListOpened(t)
       \/ BeginDestroy(t) \/ DropMapping(t) \/ FreeSurface(t)
  \/ \E p \in Processes : Crash(p)

Spec == Init /\ [][Next]_vars

------------------------------------------------------------------------------
(* Properties.                                                              *)

\* The table lists each surface once and lists no struct that was freed, even
\* though addresses are used again; a created surface is always listed, an opened
\* one unless the table was full.
TableTracksSurfaces ==
  \A p \in Processes :
    /\ \A s, r \in Slots : table[p][s] = table[p][r] /\ table[p][s] # Nowhere => s = r
    /\ \A s \in Slots : table[p][s] # Nowhere => surface[p][table[p][s]] # Unused
    /\ \A a \in Addresses : surface[p][a].owner /\ ~InCall(p, a) => Listed(p, a)

\* The name follows its owner: while a created surface is in use it is what the
\* name opens, and a name that opens something belongs to a surface that exists
\* or whose owner crashed.  No failed create, no destroy of an opened surface and
\* no race between processes unlinks a live name or leaks a dead one.
NameFollowsOwner ==
  /\ \A p \in Processes, a \in Addresses :
       surface[p][a].owner /\ ~InCall(p, a) => linked = surface[p][a].object
  /\ linked # 0 =>
       \/ linked \in orphaned
       \/ \E p \in Processes, a \in Addresses :
            surface[p][a] = [object |-> linked, owner |-> TRUE]

==============================================================================
