------------------------------- MODULE ShmSync -------------------------------
(***************************************************************************)
(* native/shm_sync.c: a table of frame slots in POSIX shared memory.       *)
(* Renderer processes claim a free slot, draw a frame in the surface that  *)
(* belongs to it and publish it; the compositor's readers take a published *)
(* slot, use the frame and release the slot.  No lock is held: every       *)
(* hand-over is one compare-and-swap of the slot's state.                  *)
(*                                                                         *)
(* One step is one access to shared memory.  The atomics of the code are   *)
(* sequentially consistent; the three metadata words are plain stores, so  *)
(* they reach other processes in any order between the two atomics that    *)
(* surround them.  A process may crash at any step and keeps, for ever,    *)
(* the slot it owns.                                                       *)
(***************************************************************************)
EXTENDS Naturals, FiniteSets

CONSTANTS
  Writers,     \* processes that publish frames
  Readers,     \* processes that consume them
  MayCrash,    \* the processes that may die without warning
  SlotCount,   \* slots in the region (at most 8 in the code)
  CursorMod,   \* the write cursor counts modulo this (2^32 in the code)
  GenMod,      \* a slot's generation counts modulo this (2^64 in the code)
  Fields,      \* the metadata words: frame_index, width, height
  Frames,      \* the frames a writer may draw
  Timeouts,    \* polls a reader makes after the first before it gives up
  Torn,        \* the pixels of a slot while a writer draws in it
  Empty        \* no frame: a slot's pixels and metadata before its first use

ASSUME ProcessesAssumption ==
  /\ Writers \cap Readers = {}
  /\ MayCrash \subseteq Writers \cup Readers
ASSUME SlotAssumption == SlotCount \in Nat \ {0}
ASSUME CounterAssumption == CursorMod \in Nat \ {0} /\ GenMod \in Nat \ {0}
ASSUME TimeoutAssumption == Timeouts \subseteq Nat
ASSUME FrameAssumption ==
  /\ Torn \notin Frames /\ Empty \notin Frames /\ Torn # Empty
  /\ Fields # {}

Slots == 0 .. SlotCount - 1

VARIABLES
  \* the shared region
  state,       \* state[s]: "FREE", "WRITING", "READY" or "READING"
  generation,  \* generation[s]: publications of slot s, modulo GenMod
  meta,        \* meta[s][x]: the frame whose metadata word x slot s holds
  cursor,      \* write_cursor
  pixels,      \* pixels[s]: the frame drawn in the slot's surface
  \* the local state of a writer
  wpc, wslot, attempt, todo, drawn,
  \* the local state of a reader
  rpc, rslot, left,
  \* processes that died, and two history variables
  crashed,
  tried,       \* tried[w]: the slots w found taken in its current call
  published    \* published[s]: transitions of slot s to READY, modulo GenMod

region == <<state, generation, meta, cursor, pixels>>
wlocal == <<wpc, wslot, attempt, todo, drawn, tried>>
rlocal == <<rpc, rslot, left>>
vars   == <<region, wlocal, rlocal, crashed, published>>

------------------------------------------------------------------------------
(* Who owns what.  Ownership is not stored in the region: it is implied by  *)
(* where a process is between two calls.  A dead process still owns.        *)

Owning      == {"claimed", "drawing", "drawn"}
Publishing  == {"stores", "count"}

Writing(w, s)    == wpc[w] \in Owning /\ wslot[w] = s
Announcing(w, s) == wpc[w] \in Publishing /\ wslot[w] = s
Reading(r, s)    == rpc[r] = "held" /\ rslot[r] = s

TypeOK ==
  /\ state \in [Slots -> {"FREE", "WRITING", "READY", "READING"}]
  /\ generation \in [Slots -> 0 .. GenMod - 1]
  /\ meta \in [Slots -> [Fields -> Frames \cup {Empty}]]
  /\ cursor \in 0 .. CursorMod - 1
  /\ pixels \in [Slots -> Frames \cup {Empty, Torn}]
  /\ wpc \in [Writers -> {"idle", "bump", "cas", "full"} \cup Owning \cup Publishing]
  /\ wslot \in [Writers -> Slots]
  /\ attempt \in [Writers -> 0 .. SlotCount]
  /\ todo \in [Writers -> SUBSET Fields]
  /\ drawn \in [Writers -> Frames \cup {Empty}]
  /\ rpc \in [Readers -> {"idle", "scan", "held"}]
  /\ rslot \in [Readers -> 0 .. SlotCount]
  /\ left \in [Readers -> Nat]
  /\ crashed \subseteq MayCrash
  /\ tried \in [Writers -> SUBSET Slots]
  /\ published \in [Slots -> 0 .. GenMod - 1]

\* The local variables of a call that is in progress.
LocalsOK ==
  /\ \A w \in Writers : wpc[w] \in {"idle", "bump", "cas"} => attempt[w] < SlotCount
  /\ \A r \in Readers : rpc[r] = "held" => rslot[r] \in Slots

Init ==
  /\ state = [s \in Slots |-> "FREE"]
  /\ generation = [s \in Slots |-> 0]
  /\ meta = [s \in Slots |-> [x \in Fields |-> Empty]]
  /\ cursor = 0
  /\ pixels = [s \in Slots |-> Empty]
  /\ wpc = [w \in Writers |-> "idle"]
  /\ wslot = [w \in Writers |-> 0]
  /\ attempt = [w \in Writers |-> 0]
  /\ todo = [w \in Writers |-> {}]
  /\ drawn = [w \in Writers |-> Empty]
  /\ rpc = [r \in Readers |-> "idle"]
  /\ rslot = [r \in Readers |-> 0]
  /\ left = [r \in Readers |-> 0]
  /\ crashed = {}
  /\ tried = [w \in Writers |-> {}]
  /\ published = [s \in Slots |-> 0]

------------------------------------------------------------------------------
(* Writers: qmv_shm_sync_acquire_write_slot and qmv_shm_sync_publish_slot.  *)

AtWriter(w, pc) == w \notin crashed /\ wpc[w] = pc

\* A call ends: its local variables go out of scope.
ReturnToCaller(w) ==
  /\ wpc' = [wpc EXCEPT ![w] = "idle"]
  /\ wslot' = [wslot EXCEPT ![w] = 0]
  /\ attempt' = [attempt EXCEPT ![w] = 0]
  /\ drawn' = [drawn EXCEPT ![w] = Empty]
  /\ tried' = [tried EXCEPT ![w] = {}]

\* qmv_shm_sync_acquire_write_slot is called.
AcquireWriteSlot(w) ==
  /\ AtWriter(w, "idle")
  /\ wpc' = [wpc EXCEPT ![w] = "bump"]
  /\ UNCHANGED <<region, wslot, attempt, todo, drawn, tried, rlocal, crashed,
                 published>>

\* One attempt begins: fetch the cursor and move it, in one atomic step.
MoveCursor(w, by) ==
  /\ AtWriter(w, "bump")
  /\ wslot' = [wslot EXCEPT ![w] = cursor % SlotCount]
  /\ cursor' = (cursor + by) % CursorMod
  /\ wpc' = [wpc EXCEPT ![w] = "cas"]
  /\ UNCHANGED <<state, generation, meta, pixels, attempt, todo, drawn, tried,
                 rlocal, crashed, published>>

BumpCursorByTwo(w) == MoveCursor(w, 2)   \* mutant: skips every other slot
BumpCursor(w) == MoveCursor(w, 1)

\* The slot under the cursor is in an expected state: the compare-and-swap
\* takes it.
Claim(w, expected) ==
  /\ AtWriter(w, "cas")
  /\ state[wslot[w]] \in expected
  /\ state' = [state EXCEPT ![wslot[w]] = "WRITING"]
  /\ wpc' = [wpc EXCEPT ![w] = "claimed"]
  /\ attempt' = [attempt EXCEPT ![w] = 0]
  /\ tried' = [tried EXCEPT ![w] = {}]
  /\ UNCHANGED <<generation, meta, cursor, pixels, wslot, todo, drawn, rlocal,
                 crashed, published>>

ClaimStalled(w) == Claim(w, {"FREE", "WRITING"})  \* mutant: recovers a stuck slot
ClaimUnread(w) == Claim(w, {"FREE", "READY"})     \* mutant: overwrites old frames
ClaimFree(w) == Claim(w, {"FREE"})

\* mutant: attempts run from 0 to SlotCount
ClaimTakenOnceMore(w) ==
  /\ AtWriter(w, "cas")
  /\ state[wslot[w]] # "FREE"
  /\ attempt' = [attempt EXCEPT ![w] = @ + 1]
  /\ wpc' = [wpc EXCEPT ![w] = IF attempt[w] + 1 <= SlotCount THEN "bump" ELSE "full"]
  /\ UNCHANGED <<region, wslot, todo, drawn, tried, rlocal, crashed, published>>

\* It is not: try the next one, or give up after SlotCount attempts.
ClaimTaken(w) ==
  /\ AtWriter(w, "cas")
  /\ state[wslot[w]] # "FREE"
  /\ tried' = [tried EXCEPT ![w] = @ \cup {wslot[w]}]
  /\ attempt' = [attempt EXCEPT ![w] = @ + 1]
  /\ wpc' = [wpc EXCEPT ![w] = IF attempt[w] + 1 < SlotCount THEN "bump" ELSE "full"]
  /\ UNCHANGED <<region, wslot, todo, drawn, rlocal, crashed, published>>

\* The caller of an acquire that found no slot gets -1 and drops its frame.
GiveUpFrame(w) ==
  /\ AtWriter(w, "full")
  /\ ReturnToCaller(w)
  /\ UNCHANGED <<region, todo, rlocal, crashed, published>>

\* The owner draws in the slot's surface; until it is done the pixels are
\* neither the old frame nor the new one.
BeginDrawing(w) ==
  /\ AtWriter(w, "claimed")
  /\ pixels' = [pixels EXCEPT ![wslot[w]] = Torn]
  /\ wpc' = [wpc EXCEPT ![w] = "drawing"]
  /\ UNCHANGED <<state, generation, meta, cursor, wslot, attempt, todo, drawn,
                 tried, rlocal, crashed, published>>

EndDrawing(w, f) ==
  /\ AtWriter(w, "drawing")
  /\ pixels' = [pixels EXCEPT ![wslot[w]] = f]
  /\ drawn' = [drawn EXCEPT ![w] = f]
  /\ wpc' = [wpc EXCEPT ![w] = "drawn"]
  /\ UNCHANGED <<state, generation, meta, cursor, wslot, attempt, todo, tried,
                 rlocal, crashed, published>>

\* qmv_shm_sync_publish_slot: the slot becomes READY first.  A failed
\* compare-and-swap returns -1 and stores nothing.
PublishSlot(w) ==
  /\ AtWriter(w, "drawn")
  /\ IF state[wslot[w]] = "WRITING"
       THEN /\ state' = [state EXCEPT ![wslot[w]] = "READY"]
            /\ published' = [published EXCEPT ![wslot[w]] = (@ + 1) % GenMod]
            /\ todo' = [todo EXCEPT ![w] = Fields]
            /\ wpc' = [wpc EXCEPT ![w] = "stores"]
            /\ UNCHANGED <<wslot, attempt, drawn, tried>>
       ELSE /\ ReturnToCaller(w)
            /\ UNCHANGED <<state, published, todo>>
  /\ UNCHANGED <<generation, meta, cursor, pixels, rlocal, crashed>>

\* ... then the metadata words are stored, one by one, in a slot that a reader
\* may already hold, have released, or have seen written again.
StoreLeaving(w, x, rest) ==
  /\ AtWriter(w, "stores")
  /\ x \in todo[w]
  /\ meta' = [meta EXCEPT ![wslot[w]] = [@ EXCEPT ![x] = drawn[w]]]
  /\ todo' = [todo EXCEPT ![w] = rest]
  /\ wpc' = [wpc EXCEPT ![w] = IF rest = {} THEN "count" ELSE "stores"]
  /\ UNCHANGED <<state, generation, cursor, pixels, wslot, attempt, drawn, tried,
                 rlocal, crashed, published>>

StoreOneField(w, x) == StoreLeaving(w, x, {})     \* mutant: forgets the other words
StoreField(w, x) == StoreLeaving(w, x, todo[w] \ {x})

\* mutant: counts only publications nobody has taken yet
BumpGenerationIfReady(w) ==
  /\ AtWriter(w, "count")
  /\ generation' = IF state[wslot[w]] = "READY"
                     THEN [generation EXCEPT ![wslot[w]] = (@ + 1) % GenMod]
                     ELSE generation
  /\ ReturnToCaller(w)
  /\ UNCHANGED <<state, meta, cursor, pixels, todo, rlocal, crashed, published>>

\* ... and at last the generation is incremented, which ends the call.
BumpGeneration(w) ==
  /\ AtWriter(w, "count")
  /\ generation' = [generation EXCEPT ![wslot[w]] = (@ + 1) % GenMod]
  /\ ReturnToCaller(w)
  /\ UNCHANGED <<state, meta, cursor, pixels, todo, rlocal, crashed, published>>

------------------------------------------------------------------------------
(* Readers: qmv_shm_sync_wait_for_ready, which polls                        *)
(* qmv_shm_sync_acquire_read_slot, and qmv_shm_sync_release_read_slot.  A   *)
(* wait with no poll left is a plain acquire.                               *)

AtReader(r, pc) == r \notin crashed /\ rpc[r] = pc

BeginScan(r, t, first) ==
  /\ AtReader(r, "idle")
  /\ rpc' = [rpc EXCEPT ![r] = "scan"]
  /\ rslot' = [rslot EXCEPT ![r] = first]
  /\ left' = [left EXCEPT ![r] = t]
  /\ UNCHANGED <<region, wlocal, crashed, published>>

WaitFromOne(r, t) == BeginScan(r, t, 1)           \* mutant: slots counted from 1
WaitForReady(r, t) == BeginScan(r, t, 0)

\* The scan meets a slot in an expected state and takes it.
Take(r, expected) ==
  /\ AtReader(r, "scan")
  /\ rslot[r] \in Slots
  /\ state[rslot[r]] \in expected
  /\ state' = [state EXCEPT ![rslot[r]] = "READING"]
  /\ rpc' = [rpc EXCEPT ![r] = "held"]
  /\ left' = [left EXCEPT ![r] = 0]
  /\ UNCHANGED <<generation, meta, cursor, pixels, wlocal, rslot, crashed,
                 published>>

TakePublished(r) == Take(r, {"READY", "READING"}) \* mutant: shares a frame
TakeReady(r) == Take(r, {"READY"})

SkipTo(r, next) ==
  /\ AtReader(r, "scan")
  /\ rslot[r] \in Slots
  /\ state[rslot[r]] # "READY"
  /\ rslot' = [rslot EXCEPT ![r] = next]
  /\ UNCHANGED <<region, wlocal, rpc, left, crashed, published>>

SkipTwoSlots(r) == SkipTo(r, rslot[r] + 2)        \* mutant: looks at even slots only
SkipSlot(r) == SkipTo(r, rslot[r] + 1)

\* The scan found nothing: sleep and poll again while time is left, or time out.
PollAgain(r) ==
  /\ AtReader(r, "scan")
  /\ rslot[r] \notin Slots
  /\ left[r] > 0
  /\ rslot' = [rslot EXCEPT ![r] = 0]
  /\ left' = [left EXCEPT ![r] = @ - 1]
  /\ UNCHANGED <<region, wlocal, rpc, crashed, published>>

TimeOut(r) ==
  /\ AtReader(r, "scan")
  /\ rslot[r] \notin Slots
  /\ left[r] = 0
  /\ rpc' = [rpc EXCEPT ![r] = "idle"]
  /\ rslot' = [rslot EXCEPT ![r] = 0]
  /\ UNCHANGED <<region, wlocal, left, crashed, published>>

\* qmv_shm_sync_get_slot_info reads the metadata words with plain loads.
SlotInfo(s) == meta[s]

ReleaseReadSlot(r) ==
  /\ AtReader(r, "held")
  /\ state' = IF state[rslot[r]] = "READING"
                THEN [state EXCEPT ![rslot[r]] = "FREE"]
                ELSE state
  /\ rpc' = [rpc EXCEPT ![r] = "idle"]
  /\ rslot' = [rslot EXCEPT ![r] = 0]
  /\ UNCHANGED <<generation, meta, cursor, pixels, wlocal, left, crashed,
                 published>>

------------------------------------------------------------------------------

\* A process dies; what it wrote in the region stays.
Crash(p) ==
  /\ p \in MayCrash \ crashed
  /\ crashed' = crashed \cup {p}
  /\ UNCHANGED <<region, wlocal, rlocal, published>>

\* What a writer does once it has called acquire_write_slot.
WriterStep(w) ==
  \/ BumpCursor(w)
  \/ ClaimFree(w)
  \/ ClaimTaken(w)
  \/ GiveUpFrame(w)
  \/ BeginDrawing(w)
  \/ \E f \in Frames : EndDrawing(w, f)
  \/ PublishSlot(w)
  \/ \E x \in Fields : StoreField(w, x)
  \/ BumpGeneration(w)

ReaderStep(r) ==
  \/ \E t \in Timeouts : WaitForReady(r, t)
  \/ TakeReady(r)
  \/ SkipSlot(r)
  \/ PollAgain(r)
  \/ TimeOut(r)
  \/ ReleaseReadSlot(r)

Next ==
  \/ \E w \in Writers : AcquireWriteSlot(w) \/ WriterStep(w)
  \/ \E r \in Readers : ReaderStep(r)
  \/ \E p \in MayCrash : Crash(p)

Spec == Init /\ [][Next]_vars

\* A live process is scheduled.  A writer need not have another frame to draw,
\* a reader is a render loop that keeps asking for the next one.
Fairness ==
  /\ \A w \in Writers : WF_vars(WriterStep(w))
  /\ \A r \in Readers : WF_vars(ReaderStep(r))

FairSpec == Spec /\ Fairness

------------------------------------------------------------------------------
(* Safety.                                                                  *)

\* A slot is WRITING exactly while one writer is between its claim and its
\* publication, and READING exactly while one reader is between its take and
\* its release: no two processes are ever inside the same slot, and no slot is
\* marked busy without an owner that will, unless it died, hand it on.
SlotOwnership ==
  /\ \A w \in Writers, s \in Slots : Writing(w, s) => state[s] = "WRITING"
  /\ \A r \in Readers, s \in Slots : Reading(r, s) => state[s] = "READING"
  /\ \A s \in Slots : state[s] = "WRITING" => \E w \in Writers : Writing(w, s)
  /\ \A s \in Slots : state[s] = "READING" => \E r \in Readers : Reading(r, s)
  /\ \A v, w \in Writers, s \in Slots : Writing(v, s) /\ Writing(w, s) => v = w
  /\ \A q, r \in Readers, s \in Slots : Reading(q, s) /\ Reading(r, s) => q = r

\* The pixels a reader can be given, or is using, are those of one finished
\* frame: drawing happens only in slots no reader can take.
WholeFrames ==
  \A s \in Slots : state[s] \in {"READY", "READING"} => pixels[s] \in Frames

\* What a writer is about to publish is what it drew in its slot.
DrawnFrames ==
  \A w \in Writers :
    wpc[w] = "drawn" => drawn[w] \in Frames /\ pixels[wslot[w]] = drawn[w]

\* The four together are inductive.
ExchangeInv == TypeOK /\ LocalsOK /\ SlotOwnership /\ WholeFrames /\ DrawnFrames

\* The generation of a slot lags its publications by exactly the publishers that
\* are still storing metadata: no increment is lost when a slow publisher and
\* the next one of the same slot finish together.
GenerationCounts ==
  \A s \in Slots :
    (generation[s] + Cardinality({w \in Writers : Announcing(w, s)}))
      % GenMod = published[s]

\* The table implements the box exchange: a frame is visible whole from the
\* moment the slot turns READY, goes to one reader, and stays unchanged in that
\* reader's hands whatever the other processes do or fail to do.
Box  == [s \in Slots |-> IF state[s] = "READY" THEN pixels[s] ELSE Empty]
Held == [r \in Readers |-> IF rpc[r] = "held" THEN pixels[rslot[r]] ELSE Empty]

Exchange == INSTANCE FrameExchange WITH box <- Box, held <- Held

ExchangeSpec == Exchange!Spec

\* qmv_shm_sync_get_slot_info is right only about settled slots: when a single
\* process publishes and it has returned from publish_slot, the metadata of a
\* slot a reader holds is that of the frame in it.  (Between the READY
\* transition and the generation increment a reader gets the previous frame's
\* words; with two publishers the slower one can overwrite a later frame's
\* words for good, so the property is asked of one publisher only.)
MetadataSettled ==
  \A r \in Readers, s \in Slots :
    Reading(r, s) /\ (\A w \in Writers : ~Announcing(w, s))
      => \A x \in Fields : SlotInfo(s)[x] = pixels[s]

\* An acquire that reports a full table has looked at every slot.  This is
\* asked of one writer and of a SlotCount that divides CursorMod: two writers
\* share one cursor and skip each other's slots, and at the wrap of a 32-bit
\* cursor a table of 3, 5, 6 or 7 slots is visited unevenly.
FullTableSeen ==
  \A w \in Writers : wpc[w] = "full" => tried[w] = Slots

------------------------------------------------------------------------------
(* Liveness, under FairSpec and while a reader that cannot crash exists.    *)

\* The lowest slot never starves: every scan starts there.  Higher slots can,
\* if the writers refill a lower one before each scan.
LowestSlotServed == state[0] = "READY" ~> state[0] # "READY"

\* When the writers stop, the readers take everything that was published.
WritersQuiet == \A w \in Writers : wpc[w] = "idle" \/ w \in crashed
DrainedWhenQuiet ==
  <>[]WritersQuiet => \A s \in Slots : []<>(state[s] # "READY")
==============================================================================
