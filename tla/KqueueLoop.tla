----------------------------- MODULE KqueueLoop ------------------------------
(***************************************************************************)
(* native/kqueue_event_loop.c: the timers of the event loop.  Any thread,  *)
(* and any timer callback on the loop's own thread, adds and removes       *)
(* timers; each does so in a critical section of loop->lock on the table   *)
(* and, outside it, a kevent64 on the kernel queue.  The loop thread       *)
(* fetches fired timers in batches, looks each up under the lock and calls *)
(* back after the unlock.                                                  *)
(*                                                                         *)
(* The kernel side, which timers are armed and which have fired, is what   *)
(* the calls in this file assume of kqueue.  A timer's callback and user   *)
(* data are named by its id.  A slot is the id of the active timer in it.  *)
(***************************************************************************)
EXTENDS Integers, Sequences, FiniteSets, Functions

CONSTANTS Users,      \* threads other than the loop's that use timers
          Loop,       \* the loop's own thread
          SlotCount,  \* QMV_MAX_TIMERS, 32
          MaxEvents,  \* QMV_MAX_EVENTS, 64
          MaxId       \* bound on next_timer_id

ASSUME LoopAssumption ==
  /\ Loop \notin Users
  /\ SlotCount \in Nat \ {0}
  /\ MaxEvents \in Nat \ {0}
  /\ MaxId \in Nat \ {0}

VARIABLES
  timers,   \* loop->timers: the id in each active slot, 0 in a free one
  nextId,   \* loop->next_timer_id
  armed,    \* kernel: the timers armed
  fired,    \* kernel: timers that fired and were not fetched, oldest first
  call,     \* call[t]: where thread t is in add_timer or remove_timer
  known,    \* ids add_timer has returned
  removed,  \* ids remove_timer was called with and has returned
  running,  \* loop->running
  lpc,      \* where the loop thread is; "none" without a thread
  batch,    \* the events it fetched and has not dispatched
  stopping  \* the owner is joining the thread in qmv_event_loop_stop

tableVars  == <<timers, nextId, known, removed>>
kernelVars == <<armed, fired>>
threadVars == <<running, lpc, batch, stopping>>
vars       == <<tableVars, kernelVars, threadVars, call>>

Threads   == Users \cup {Loop}
SlotIds   == 1 .. SlotCount
Ids       == 1 .. MaxId
Idle      == [at |-> "idle", id |-> 0, slot |-> 0]
ActiveIds == {timers[s] : s \in SlotIds} \ {0}

TypeOK ==
  /\ timers \in [SlotIds -> Ids \cup {0}]
  /\ nextId \in 1 .. MaxId + 1
  /\ armed \subseteq Ids
  /\ fired \in Seq(Ids) /\ Len(fired) = Cardinality(Range(fired))
  /\ call \in [Threads -> [at : {"idle", "arm", "undo", "clear"},
                           id : Ids \cup {0}, slot : SlotIds \cup {0}]]
  /\ known \subseteq Ids /\ removed \subseteq known
  /\ running \in BOOLEAN
  /\ lpc \in {"none", "loop", "kevent", "dispatch", "callback"}
  /\ batch \in Seq(Ids) /\ Len(batch) <= MaxEvents
  /\ stopping \in BOOLEAN

Init ==
  /\ timers = [s \in SlotIds |-> 0]
  /\ nextId = 1
  /\ armed = {} /\ fired = <<>>
  /\ call = [t \in Threads |-> Idle]
  /\ known = {} /\ removed = {}
  /\ running = FALSE
  /\ lpc = "none"
  /\ batch = <<>>
  /\ stopping = FALSE

------------------------------------------------------------------------------
(* Adding and removing timers.  The loop's thread does so from a callback.  *)

MayCall(t) == call[t].at = "idle" /\ (t = Loop => lpc = "callback")

Free(s) == timers[s] = 0

\* add_timer, in the lock: the lowest free slot takes the next id.  With no slot
\* free it returns 0 and nothing changes.
ReserveSlot(t) ==
  /\ MayCall(t) /\ nextId <= MaxId
  /\ \E s \in SlotIds :
       /\ Free(s) /\ \A r \in 1 .. s - 1 : ~Free(r)
       /\ timers' = [timers EXCEPT ![s] = nextId]
       /\ call' = [call EXCEPT ![t] = [at |-> "arm", id |-> nextId, slot |-> s]]
  /\ nextId' = nextId + 1
  /\ UNCHANGED <<known, removed, kernelVars, threadVars>>

\* EV_ADD succeeds and add_timer returns the id.
ArmTimer(t) ==
  /\ call[t].at = "arm"
  /\ armed' = armed \cup {call[t].id}
  /\ known' = known \cup {call[t].id}
  /\ call' = [call EXCEPT ![t] = Idle]
  /\ UNCHANGED <<timers, nextId, removed, fired, threadVars>>

\* mutant: forgets the slot when EV_ADD fails
ArmFailsKeepingSlot(t) ==
  /\ call[t].at = "arm"
  /\ call' = [call EXCEPT ![t] = Idle]
  /\ UNCHANGED <<tableVars, kernelVars, threadVars>>

\* EV_ADD fails; the lock is taken again to give the slot back.
ArmFails(t) ==
  /\ call[t].at = "arm"
  /\ call' = [call EXCEPT ![t].at = "undo"]
  /\ UNCHANGED <<tableVars, kernelVars, threadVars>>

UndoReserve(t) ==
  /\ call[t].at = "undo"
  /\ timers' = [timers EXCEPT ![call[t].slot] = 0]
  /\ call' = [call EXCEPT ![t] = Idle]
  /\ UNCHANGED <<nextId, known, removed, kernelVars, threadVars>>

\* The pending event of a timer, of which the kernel keeps one, is forgotten.
Withdraw(id) ==
  \/ id \notin Range(fired) /\ UNCHANGED fired
  \/ \E k \in DOMAIN fired :
       /\ fired[k] = id
       /\ fired' = [i \in 1 .. Len(fired) - 1 |-> IF i < k THEN fired[i] ELSE fired[i + 1]]

\* remove_timer first deletes the kernel's timer, with what it has pending, if
\* there is one.  An id may be removed twice.
DeleteKevent(t, id) ==
  /\ MayCall(t) /\ id \in known
  /\ armed' = armed \ {id}
  /\ Withdraw(id)
  /\ call' = [call EXCEPT ![t] = [at |-> "clear", id |-> id, slot |-> 0]]
  /\ UNCHANGED <<tableVars, threadVars>>

\* Then, in the lock, it clears the slot that has the id, if one still has.
ClearSlot(t) ==
  /\ call[t].at = "clear"
  /\ timers' = [s \in SlotIds |-> IF timers[s] = call[t].id THEN 0 ELSE timers[s]]
  /\ removed' = removed \cup {call[t].id}
  /\ call' = [call EXCEPT ![t] = Idle]
  /\ UNCHANGED <<nextId, known, kernelVars, threadVars>>

\* A timer fires, again and again while armed; the kernel keeps one pending event.
Fire(id) ==
  /\ id \in armed /\ id \notin Range(fired)
  /\ fired' = Append(fired, id)
  /\ UNCHANGED <<armed, tableVars, threadVars, call>>

------------------------------------------------------------------------------
(* The loop's thread.                                                       *)

\* thread_main: while running, run_once.
CheckRunning ==
  /\ lpc = "loop"
  /\ lpc' = IF running THEN "kevent" ELSE "none"
  /\ UNCHANGED <<tableVars, kernelVars, call, running, batch, stopping>>

Fetch(got, left) ==
  /\ lpc = "kevent"
  /\ batch' = SubSeq(fired, 1, got)
  /\ fired' = SubSeq(fired, left + 1, Len(fired))
  /\ lpc' = "dispatch"
  /\ UNCHANGED <<armed, tableVars, call, running, stopping>>

Fetchable == IF Len(fired) < MaxEvents THEN Len(fired) ELSE MaxEvents

\* mutant: loses what did not fit in the batch
FetchDroppingRest == Fetch(Fetchable, Len(fired))

\* mutant: waits for ever
FetchWithoutTimeout == fired # <<>> /\ Fetch(Fetchable, Fetchable)

\* run_once: kevent64 returns up to MaxEvents events, or none after 50 ms.
KeventReturns == Fetch(Fetchable, Fetchable)

\* mutant: calls back without looking the timer up
DispatchUnchecked ==
  /\ lpc = "dispatch" /\ batch # <<>>
  /\ lpc' = "callback"
  /\ UNCHANGED <<tableVars, kernelVars, call, running, batch, stopping>>

\* dispatch_kevent, in the lock: a timer removed since it fired is not found and
\* is skipped; the callback runs after the unlock.
Dispatch ==
  /\ lpc = "dispatch" /\ batch # <<>>
  /\ IF Head(batch) \in ActiveIds
     THEN lpc' = "callback" /\ UNCHANGED batch
     ELSE batch' = Tail(batch) /\ UNCHANGED lpc
  /\ UNCHANGED <<tableVars, kernelVars, call, running, stopping>>

CallbackReturns ==
  /\ lpc = "callback" /\ call[Loop].at = "idle"
  /\ batch' = Tail(batch)
  /\ lpc' = "dispatch"
  /\ UNCHANGED <<tableVars, kernelVars, call, running, stopping>>

BatchDone ==
  /\ lpc = "dispatch" /\ batch = <<>>
  /\ lpc' = "loop"
  /\ UNCHANGED <<tableVars, kernelVars, call, running, batch, stopping>>

\* qmv_event_loop_start; a thread that cannot be created leaves running set, and
\* the join of a thread that never was is taken to return at once.
StartLoop(created) ==
  /\ ~running /\ ~stopping
  /\ running' = TRUE
  /\ lpc' = IF created THEN "loop" ELSE "none"
  /\ UNCHANGED <<tableVars, kernelVars, call, batch, stopping>>

\* qmv_event_loop_stop, called from a thread other than the loop's.
StopLoop ==
  /\ running /\ ~stopping
  /\ running' = FALSE
  /\ stopping' = TRUE
  /\ UNCHANGED <<tableVars, kernelVars, call, lpc, batch>>

JoinReturns ==
  /\ stopping /\ lpc = "none"
  /\ stopping' = FALSE
  /\ UNCHANGED <<tableVars, kernelVars, call, running, lpc, batch>>

Next ==
  \/ \E t \in Threads : ReserveSlot(t)
  \/ \E t \in Threads : ArmTimer(t)
  \/ \E t \in Threads : ArmFails(t)
  \/ \E t \in Threads : UndoReserve(t)
  \/ \E t \in Threads, id \in Ids : DeleteKevent(t, id)
  \/ \E t \in Threads : ClearSlot(t)
  \/ \E id \in Ids : Fire(id)
  \/ CheckRunning
  \/ KeventReturns
  \/ Dispatch
  \/ CallbackReturns
  \/ BatchDone
  \/ \E created \in BOOLEAN : StartLoop(created)
  \/ StopLoop
  \/ JoinReturns

Spec == Init /\ [][Next]_vars

\* The loop's thread runs, its callbacks return, and so do their own calls.
LoopRuns ==
  \/ CheckRunning \/ KeventReturns \/ Dispatch \/ BatchDone
  \/ ArmTimer(Loop) \/ UndoReserve(Loop) \/ ClearSlot(Loop)

FairSpec ==
  /\ Spec
  /\ WF_vars(LoopRuns) /\ SF_vars(CallbackReturns) /\ WF_vars(JoinReturns)

------------------------------------------------------------------------------
(* Properties.                                                              *)

\* The table and the kernel agree: a timer armed in the kernel has a slot in
\* which its callback can be found, and an active slot is armed unless an
\* add_timer or remove_timer of it is under way.  No failed or concurrent call
\* leaks one of the 32 slots, leaves a timer that fires for nobody, or gives two
\* timers one id.
SlotsMatchKernel ==
  /\ armed \cup Range(fired) \subseteq ActiveIds
  /\ ActiveIds \ armed \subseteq {call[t].id : t \in Threads}
  /\ \A s, r \in SlotIds : timers[s] # 0 /\ timers[s] = timers[r] => s = r

\* Once remove_timer has returned, the loop does not start the timer's callback:
\* only a callback it had looked up before may still run.
NoLateLookup ==
  [][(lpc = "dispatch" /\ lpc' = "callback") => Head(batch) \notin removed]_vars

\* A timer that fired is called back, unless it is removed or the loop stopped.
FiredIsDelivered ==
  \A id \in Ids :
    (id \in Range(fired)) ~>
       \/ lpc = "callback" /\ Head(batch) = id
       \/ id \notin armed
       \/ ~running \/ lpc = "none"

\* qmv_event_loop_stop returns: the 50 ms timeout lets the thread see the flag.
StopReturns == stopping ~> ~stopping
==============================================================================
