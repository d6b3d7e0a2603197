---------------------------- MODULE KqueueProofs -----------------------------
(***************************************************************************)
(* Theorems about KqueueLoop, for any number of threads, slots, ids and    *)
(* events in a batch.  SlotsMatchKernel is not inductive: that a failed    *)
(* add_timer clears its own slot and no other, and that a remove_timer     *)
(* under way clears no timer the kernel still has, follows from where the  *)
(* threads are between their two steps (CallsInv), which needs in turn     *)
(* that ids are never given out twice (IdsInv).                            *)
(***************************************************************************)
EXTENDS KqueueLoop, SequenceTheorems, TLAPS

Calls == [at : {"idle", "arm", "undo", "clear"}, id : Nat, slot : SlotIds \cup {0}]

TablesInv ==
  /\ timers \in [SlotIds -> Nat]
  /\ nextId \in Nat \ {0}
  /\ call \in [Threads -> Calls]

\* Ids are below next_timer_id, and a slot's is its own.
IdsInv ==
  /\ \A s \in SlotIds : timers[s] < nextId
  /\ \A id \in known : id \in Nat /\ id # 0 /\ id < nextId
  /\ removed \subseteq known
  /\ \A s, r \in SlotIds : timers[s] # 0 /\ timers[s] = timers[r] => s = r

Single == \A i, j \in 1 .. Len(fired) : fired[i] = fired[j] => i = j

\* The kernel has timers that add_timer has armed, and one event of each at most.
KernelInv ==
  /\ fired \in Seq(Nat) /\ Single
  /\ armed \cup Range(fired) \subseteq known
  /\ armed \cup Range(fired) \subseteq ActiveIds

\* An add_timer under way has its slot to itself, a remove_timer under way has been
\* to the kernel, and what is active without the kernel's knowledge is someone's.
CallsInv ==
  /\ \A t \in Threads :
       /\ call[t].at = "idle" => call[t].id = 0
       /\ call[t].at \in {"arm", "undo"} =>
            /\ call[t].slot \in SlotIds /\ timers[call[t].slot] = call[t].id
            /\ call[t].id # 0 /\ call[t].id \notin known
       /\ call[t].at = "clear" =>
            call[t].id \in known /\ call[t].id \notin armed \cup Range(fired)
  /\ \A t, u \in Threads :
       call[t].at \in {"arm", "undo"} /\ call[t].id = call[u].id => t = u
  /\ \A s \in SlotIds : timers[s] # 0 /\ timers[s] \notin armed =>
       \E t \in Threads : call[t].id = timers[s]

RemovedInv == removed \cap ActiveIds = {}

LoopInv == TablesInv /\ IdsInv /\ KernelInv /\ CallsInv /\ RemovedInv
-----------------------------------------------------------------------------
(* The kernel's queue of events.                                            *)

LEMMA IntervalLength ==
  ASSUME NEW a \in Nat, NEW b \in Nat, 1 .. a = 1 .. b PROVE a = b
<1>1. ASSUME NEW c \in Nat, NEW d \in Nat, c < d PROVE 1 .. c # 1 .. d
  <2>1. d \in 1 .. d /\ d \notin 1 .. c
    BY <1>1
  <2> QED BY <2>1
<1> QED BY <1>1

LEMMA WithdrawForgets ==
  ASSUME NEW id, fired \in Seq(Nat), Single, Withdraw(id)
  PROVE  /\ fired' \in Seq(Nat) /\ Single'
         /\ Range(fired') \subseteq Range(fired) \ {id}
<1>1. CASE id \notin Range(fired) /\ UNCHANGED fired
  BY <1>1 DEF Single
<1>2. ASSUME NEW k \in DOMAIN fired, fired[k] = id,
             fired' = [i \in 1 .. Len(fired) - 1 |-> IF i < k THEN fired[i] ELSE fired[i + 1]]
      PROVE  /\ fired' \in Seq(Nat) /\ Single'
             /\ Range(fired') \subseteq Range(fired) \ {id}
  <2> DEFINE n == Len(fired)
  <2>1. n \in Nat /\ DOMAIN fired = 1 .. n /\ k \in 1 .. n /\ n - 1 \in Nat
        /\ \A i \in 1 .. n : fired[i] \in Nat
    BY <1>2
  <2>2. \A i \in 1 .. n - 1 : fired'[i] = IF i < k THEN fired[i] ELSE fired[i + 1]
    BY <1>2
  <2>3. fired' \in [1 .. n - 1 -> Nat]
    BY <1>2, <2>1
  <2>4. fired' \in Seq(Nat) /\ Len(fired') = n - 1 /\ DOMAIN fired' = 1 .. n - 1
    <3>1. fired' \in Seq(Nat)
      BY <2>1, <2>3, SeqDef
    <3>2. DOMAIN fired' = 1 .. n - 1
      BY <2>3
    <3>3. Len(fired') \in Nat /\ DOMAIN fired' = 1 .. Len(fired')
      BY <3>1, LenProperties
    <3> HIDE DEF n
    <3>4. Len(fired') = n - 1
      BY <3>2, <3>3, <2>1, IntervalLength
    <3> QED BY <3>1, <3>2, <3>4
  <2> HIDE DEF n
  <2>5. \A i \in 1 .. n - 1 : \E j \in 1 .. n :
          j # k /\ fired'[i] = fired[j] /\ j = (IF i < k THEN i ELSE i + 1)
    BY <2>1, <2>2
  <2>6. ASSUME NEW i \in 1 .. n - 1, NEW j \in 1 .. n - 1, fired'[i] = fired'[j] PROVE i = j
    <3>1. i \in Nat /\ j \in Nat /\ i + 1 \in 1 .. n /\ j + 1 \in 1 .. n
          /\ i \in 1 .. n /\ j \in 1 .. n /\ k \in Nat
      BY <2>1
    <3> QED BY <2>2, <2>6, <3>1 DEF Single, n
  <2>7. ASSUME NEW x \in Range(fired') PROVE x \in Range(fired) \ {id}
    <3>1. PICK i \in 1 .. n - 1 : x = fired'[i]
      BY <2>4 DEF Range
    <3>2. PICK j \in 1 .. n : j # k /\ x = fired[j]
      BY <2>5, <3>1
    <3> QED BY <3>2, <2>1, <1>2 DEF Single, Range, n
  <2> QED BY <2>4, <2>6, <2>7 DEF Single
<1> QED BY <1>1, <1>2 DEF Withdraw

LEMMA FireAppends ==
  ASSUME NEW id \in Nat, fired \in Seq(Nat), Single, id \notin Range(fired),
         fired' = Append(fired, id)
  PROVE  /\ fired' \in Seq(Nat) /\ Single'
         /\ Range(fired') = Range(fired) \cup {id}
<1>1. fired' \in Seq(Nat) /\ Len(fired') = Len(fired) + 1 /\ Len(fired) \in Nat
      /\ DOMAIN fired' = 1 .. Len(fired) + 1 /\ DOMAIN fired = 1 .. Len(fired)
  OBVIOUS
<1>2. fired'[Len(fired) + 1] = id /\ \A i \in 1 .. Len(fired) : fired'[i] = fired[i]
  OBVIOUS
<1>3. \A i \in 1 .. Len(fired) : fired[i] # id
  BY <1>1 DEF Range
<1>4. Single'
  BY <1>1, <1>2, <1>3 DEF Single
<1>5. Range(fired') = Range(fired) \cup {id}
  <2>1. ASSUME NEW x \in Range(fired') PROVE x \in Range(fired) \cup {id}
    BY <2>1, <1>1, <1>2 DEF Range
  <2>2. ASSUME NEW x \in Range(fired) \cup {id} PROVE x \in Range(fired')
    BY <2>2, <1>1, <1>2 DEF Range
  <2> QED BY <2>1, <2>2
<1> QED BY <1>1, <1>4, <1>5

LEMMA FetchTakesFirst ==
  ASSUME NEW k \in 0 .. Len(fired), fired \in Seq(Nat), Single,
         fired' = SubSeq(fired, k + 1, Len(fired))
  PROVE  /\ fired' \in Seq(Nat) /\ Single'
         /\ Range(fired') \subseteq Range(fired)
<1> DEFINE n == Len(fired)
<1>1. n \in Nat /\ k \in Nat /\ k <= n /\ DOMAIN fired = 1 .. n
      /\ \A i \in k + 1 .. n : fired[i] \in Nat
  BY LenProperties, ElementOfSeq
<1>2. fired' = SubSeq(fired, k + 1, n) /\ Single
  OBVIOUS
<1>3. \A i, j \in 1 .. n : fired[i] = fired[j] => i = j
  BY <1>2 DEF Single
<1> HIDE DEF n
<1>4. /\ fired' \in Seq(Nat)
      /\ Len(fired') = IF k + 1 <= n THEN n - (k + 1) + 1 ELSE 0
      /\ \A i \in 1 .. n - (k + 1) + 1 : fired'[i] = fired[k + 1 + i - 1]
  BY <1>1, <1>2, SubSeqProperties
<1>5. Len(fired') = n - k
  BY <1>1, <1>4
<1>6. DOMAIN fired' = 1 .. n - k
  BY <1>4, <1>5, LenProperties
<1>7. \A i \in 1 .. n - k : i \in Nat /\ i + k \in 1 .. n /\ fired'[i] = fired[i + k]
  BY <1>1, <1>4
<1>8. Single'
  BY <1>1, <1>3, <1>5, <1>7 DEF Single
<1>9. ASSUME NEW x \in Range(fired') PROVE x \in Range(fired)
  <2>1. PICK i \in 1 .. n - k : x = fired[i + k]
    BY <1>6, <1>7, <1>9 DEF Range
  <2> QED BY <2>1, <1>1, <1>7 DEF Range
<1> QED BY <1>4, <1>8, <1>9

-----------------------------------------------------------------------------
(* The steps of add_timer and remove_timer.                                 *)

LEMMA InitLoop == Init => LoopInv
<1> SUFFICES ASSUME Init PROVE LoopInv  OBVIOUS
<1>1. fired \in Seq(Nat) /\ Range(fired) = {} /\ Len(fired) = 0
  BY DEF Init, Range
<1>2. ActiveIds = {}
  BY DEF Init, ActiveIds
<1>3. TablesInv /\ IdsInv
  BY DEF Init, TablesInv, IdsInv, Calls, Idle
<1>4. KernelInv /\ CallsInv /\ RemovedInv
  BY <1>1, <1>2 DEF Init, KernelInv, Single, CallsInv, RemovedInv, Idle
<1> QED BY <1>3, <1>4 DEF LoopInv

LEMMA ReserveKeeps ==
  ASSUME NEW t \in Threads, LoopInv, ReserveSlot(t) PROVE LoopInv'
<1> USE DEF LoopInv
<1>1. PICK s \in SlotIds :
        /\ timers[s] = 0
        /\ timers' = [timers EXCEPT ![s] = nextId]
        /\ call' = [call EXCEPT ![t] = [at |-> "arm", id |-> nextId, slot |-> s]]
  BY DEF ReserveSlot, Free
<1>2. call[t].at = "idle" /\ nextId' = nextId + 1
      /\ UNCHANGED <<known, removed, armed, fired>>
  BY DEF ReserveSlot, MayCall, kernelVars
<1>3. TablesInv'
  BY <1>1, <1>2 DEF TablesInv, Calls
<1>4. IdsInv'
  BY <1>1, <1>2 DEF IdsInv, TablesInv
<1>5. nextId \notin known /\ nextId # 0
  BY DEF IdsInv, TablesInv
<1>6. ActiveIds' = ActiveIds \cup {nextId}
  <2>1. ASSUME NEW x \in ActiveIds' PROVE x \in ActiveIds \cup {nextId}
    BY <2>1, <1>1 DEF ActiveIds, TablesInv
  <2>2. ASSUME NEW x \in ActiveIds \cup {nextId} PROVE x \in ActiveIds'
    BY <2>2, <1>1, <1>5 DEF ActiveIds, TablesInv
  <2> QED BY <2>1, <2>2
<1>7. KernelInv' /\ RemovedInv'
  BY <1>2, <1>5, <1>6 DEF KernelInv, Single, RemovedInv, IdsInv
<1>8. CallsInv'
  <2>1. call'[t] = [at |-> "arm", id |-> nextId, slot |-> s]
        /\ \A u \in Threads \ {t} : call'[u] = call[u]
    BY <1>1 DEF TablesInv
  <2>2. timers'[s] = nextId /\ \A r \in SlotIds \ {s} : timers'[r] = timers[r]
    BY <1>1 DEF TablesInv
  <2>3. \A u \in Threads : call[u].id # nextId
    <3>1. SUFFICES ASSUME NEW u \in Threads PROVE call[u].id # nextId  OBVIOUS
    <3>2. call[u].at \in {"idle", "arm", "undo", "clear"}
      BY DEF TablesInv, Calls
    <3> QED BY <3>2 DEF CallsInv, IdsInv, TablesInv
  <2>4. ASSUME NEW u \in Threads
        PROVE  /\ call'[u].at = "idle" => call'[u].id = 0
               /\ call'[u].at \in {"arm", "undo"} =>
                    /\ call'[u].slot \in SlotIds /\ timers'[call'[u].slot] = call'[u].id
                    /\ call'[u].id # 0 /\ call'[u].id \notin known'
               /\ call'[u].at = "clear" =>
                    call'[u].id \in known' /\ call'[u].id \notin (armed \cup Range(fired))'
    <3>1. CASE u = t
      BY <3>1, <2>1, <2>2, <1>2, <1>5
    <3>2. CASE u # t
      BY <3>2, <2>1, <2>2, <1>1, <1>2 DEF CallsInv
    <3> QED BY <3>1, <3>2
  <2>5. \A u, v \in Threads :
          call'[u].at \in {"arm", "undo"} /\ call'[u].id = call'[v].id => u = v
    BY <2>1, <2>3 DEF CallsInv
  <2>6. ASSUME NEW r \in SlotIds, timers'[r] # 0, timers'[r] \notin armed'
        PROVE  \E u \in Threads : call'[u].id = timers'[r]
    <3>1. CASE r = s
      BY <3>1, <2>1, <2>2
    <3>2. CASE r # s
      <4>1. PICK u \in Threads : call[u].id = timers[r]
        BY <3>2, <2>2, <2>6, <1>2 DEF CallsInv
      <4>2. u # t
        BY <4>1, <3>2, <2>2, <2>6, <1>2 DEF CallsInv
      <4> QED BY <4>1, <4>2, <3>2, <2>1, <2>2
    <3> QED BY <3>1, <3>2
  <2> QED BY <2>4, <2>5, <2>6 DEF CallsInv
<1> QED BY <1>3, <1>4, <1>7, <1>8

\* What CallsInv says of one thread.
CallInv(t) ==
  /\ call[t].at = "idle" => call[t].id = 0
  /\ call[t].at \in {"arm", "undo"} =>
       /\ call[t].slot \in SlotIds /\ timers[call[t].slot] = call[t].id
       /\ call[t].id # 0 /\ call[t].id \notin known
  /\ call[t].at = "clear" =>
       call[t].id \in known /\ call[t].id \notin armed \cup Range(fired)

LEMMA ArmKeeps ==
  ASSUME NEW t \in Threads, LoopInv, ArmTimer(t) PROVE LoopInv'
<1> USE DEF LoopInv
<1> DEFINE id == call[t].id
<1>1. /\ call[t].at = "arm" /\ armed' = armed \cup {id} /\ known' = known \cup {id}
      /\ call' = [call EXCEPT ![t] = Idle]
      /\ UNCHANGED <<timers, nextId, removed, fired>>
  BY DEF ArmTimer
<1>2. /\ call[t].slot \in SlotIds /\ timers[call[t].slot] = id
      /\ id # 0 /\ id \notin known
  BY <1>1 DEF CallsInv
<1>3. id \in Nat /\ id < nextId /\ id \in ActiveIds
  BY <1>2 DEF IdsInv, TablesInv, ActiveIds
<1>4. call'[t] = Idle /\ \A u \in Threads \ {t} : call'[u] = call[u] /\ call[u].id # id
  <2>1. call'[t] = Idle /\ \A u \in Threads \ {t} : call'[u] = call[u]
    BY <1>1 DEF TablesInv
  <2>2. \A u \in Threads \ {t} : call[u].id # id
    BY <1>1 DEF CallsInv
  <2> QED BY <2>1, <2>2
<1> HIDE DEF id
<1>5. TablesInv'
  BY <1>1 DEF TablesInv, Calls, Idle
<1>6. IdsInv'
  BY <1>1, <1>2, <1>3 DEF IdsInv
<1>7. ActiveIds' = ActiveIds
  BY <1>1 DEF ActiveIds
<1>8. KernelInv' /\ RemovedInv'
  BY <1>1, <1>3, <1>7 DEF KernelInv, Single, RemovedInv
<1>9. CallsInv'
  <2>1. ASSUME NEW u \in Threads PROVE CallInv(u)'
    <3>1. CASE u = t
      BY <3>1, <1>4 DEF Idle, CallInv
    <3>2. CASE u # t
      BY <3>2, <1>1, <1>4 DEF CallsInv, CallInv
    <3> QED BY <3>1, <3>2
  <2>2. \A u, v \in Threads :
          call'[u].at \in {"arm", "undo"} /\ call'[u].id = call'[v].id => u = v
    BY <1>4 DEF CallsInv, Idle
  <2>3. ASSUME NEW r \in SlotIds, timers'[r] # 0, timers'[r] \notin armed'
        PROVE  \E u \in Threads : call'[u].id = timers'[r]
    <3>1. PICK u \in Threads : call[u].id = timers[r]
      BY <2>3, <1>1 DEF CallsInv
    <3>2. u # t
      BY <3>1, <2>3, <1>1 DEF id
    <3> QED BY <3>1, <3>2, <1>1, <1>4
  <2> QED BY <2>1, <2>2, <2>3 DEF CallsInv, CallInv
<1> QED BY <1>5, <1>6, <1>8, <1>9

LEMMA ArmFailsKeeps ==
  ASSUME NEW t \in Threads, LoopInv, ArmFails(t) PROVE LoopInv'
<1> USE DEF LoopInv
<1>1. /\ call[t].at = "arm" /\ call' = [call EXCEPT ![t].at = "undo"]
      /\ UNCHANGED <<timers, nextId, known, removed, armed, fired>>
  BY DEF ArmFails, tableVars, kernelVars
<1>2. /\ call'[t].at = "undo" /\ call'[t].id = call[t].id /\ call'[t].slot = call[t].slot
      /\ \A u \in Threads \ {t} : call'[u] = call[u]
  BY <1>1 DEF TablesInv, Calls
<1>3. TablesInv'
  BY <1>1 DEF TablesInv, Calls
<1>4. ActiveIds' = ActiveIds
  BY <1>1 DEF ActiveIds
<1>5. IdsInv' /\ KernelInv' /\ RemovedInv'
  BY <1>1, <1>4 DEF IdsInv, KernelInv, Single, RemovedInv
<1>6. CallsInv'
  <2>1. ASSUME NEW u \in Threads PROVE CallInv(u)'
    <3>1. CASE u = t
      BY <3>1, <1>1, <1>2 DEF CallsInv, CallInv
    <3>2. CASE u # t
      BY <3>2, <1>1, <1>2 DEF CallsInv, CallInv
    <3> QED BY <3>1, <3>2
  <2>2. \A u \in Threads : call'[u].id = call[u].id
          /\ (call'[u].at \in {"arm", "undo"} => call[u].at \in {"arm", "undo"})
    BY <1>1, <1>2
  <2> QED BY <2>1, <2>2, <1>1 DEF CallsInv, CallInv
<1> QED BY <1>3, <1>5, <1>6

LEMMA UndoKeeps ==
  ASSUME NEW t \in Threads, LoopInv, UndoReserve(t) PROVE LoopInv'
<1> USE DEF LoopInv
<1> DEFINE id == call[t].id
           s  == call[t].slot
<1>1. /\ call[t].at = "undo" /\ timers' = [timers EXCEPT ![s] = 0]
      /\ call' = [call EXCEPT ![t] = Idle]
      /\ UNCHANGED <<nextId, known, removed, armed, fired>>
  BY DEF UndoReserve, kernelVars
<1>2. s \in SlotIds /\ timers[s] = id /\ id # 0 /\ id \notin known
  BY <1>1 DEF CallsInv
<1>3. /\ call'[t] = Idle
      /\ \A u \in Threads \ {t} : call'[u] = call[u] /\ call[u].id # id
  <2>1. call'[t] = Idle /\ \A u \in Threads \ {t} : call'[u] = call[u]
    BY <1>1 DEF TablesInv
  <2>2. \A u \in Threads \ {t} : call[u].id # id
    BY <1>1 DEF CallsInv
  <2> QED BY <2>1, <2>2
<1>4. TablesInv'
  BY <1>1 DEF TablesInv, Calls, Idle
<1> HIDE DEF id, s
<1>5. /\ timers'[s] = 0
      /\ \A r \in SlotIds \ {s} : timers'[r] = timers[r] /\ timers[r] # id
  BY <1>1, <1>2 DEF TablesInv, IdsInv
<1>6. IdsInv'
  BY <1>1, <1>2, <1>5 DEF IdsInv, TablesInv
<1>7. ActiveIds' = ActiveIds \ {id}
  <2>1. ASSUME NEW x \in ActiveIds' PROVE x \in ActiveIds \ {id}
    BY <2>1, <1>5 DEF ActiveIds
  <2>2. ASSUME NEW x \in ActiveIds \ {id} PROVE x \in ActiveIds'
    BY <2>2, <1>2, <1>5 DEF ActiveIds
  <2> QED BY <2>1, <2>2
<1>8. KernelInv' /\ RemovedInv'
  BY <1>1, <1>2, <1>7 DEF KernelInv, Single, RemovedInv
<1>9. CallsInv'
  <2>1. ASSUME NEW u \in Threads PROVE CallInv(u)'
    <3>1. CASE u = t
      BY <3>1, <1>3 DEF Idle, CallInv
    <3>2. CASE u # t
      BY <3>2, <1>1, <1>2, <1>3, <1>5 DEF CallsInv, CallInv
    <3> QED BY <3>1, <3>2
  <2>2. \A u, v \in Threads :
          call'[u].at \in {"arm", "undo"} /\ call'[u].id = call'[v].id => u = v
    BY <1>3 DEF CallsInv, Idle
  <2>3. ASSUME NEW r \in SlotIds, timers'[r] # 0, timers'[r] \notin armed'
        PROVE  \E u \in Threads : call'[u].id = timers'[r]
    <3>1. r # s /\ timers[r] # id
      BY <2>3, <1>5
    <3>2. PICK u \in Threads : call[u].id = timers[r]
      BY <2>3, <3>1, <1>1, <1>5 DEF CallsInv
    <3> QED BY <3>1, <3>2, <1>3, <1>5 DEF id
  <2> QED BY <2>1, <2>2, <2>3 DEF CallsInv, CallInv
<1> QED BY <1>4, <1>6, <1>8, <1>9

LEMMA DeleteKeeps ==
  ASSUME NEW t \in Threads, NEW id \in Ids, LoopInv, DeleteKevent(t, id) PROVE LoopInv'
<1> USE DEF LoopInv
<1>1. /\ call[t].at = "idle" /\ call[t].id = 0 /\ id \in known
      /\ armed' = armed \ {id} /\ Withdraw(id)
      /\ call' = [call EXCEPT ![t] = [at |-> "clear", id |-> id, slot |-> 0]]
      /\ UNCHANGED <<timers, nextId, known, removed>>
  BY DEF DeleteKevent, MayCall, tableVars, CallsInv
<1>2. fired' \in Seq(Nat) /\ Single' /\ Range(fired') \subseteq Range(fired) \ {id}
  BY <1>1, WithdrawForgets DEF KernelInv
<1>3. /\ call'[t] = [at |-> "clear", id |-> id, slot |-> 0]
      /\ \A u \in Threads \ {t} : call'[u] = call[u]
  BY <1>1 DEF TablesInv
<1>4. TablesInv'
  BY <1>1 DEF TablesInv, Calls, IdsInv
<1>5. ActiveIds' = ActiveIds
  BY <1>1 DEF ActiveIds
<1>6. IdsInv' /\ RemovedInv'
  BY <1>1, <1>5 DEF IdsInv, RemovedInv
<1>7. KernelInv'
  BY <1>1, <1>2, <1>5 DEF KernelInv
<1>8. CallsInv'
  <2>1. ASSUME NEW u \in Threads PROVE CallInv(u)'
    <3>1. CASE u = t
      BY <3>1, <1>1, <1>2, <1>3 DEF CallInv
    <3>2. CASE u # t
      BY <3>2, <1>1, <1>2, <1>3 DEF CallsInv, CallInv
    <3> QED BY <3>1, <3>2
  <2>2. \A u, v \in Threads :
          call'[u].at \in {"arm", "undo"} /\ call'[u].id = call'[v].id => u = v
    BY <1>1, <1>3 DEF CallsInv
  <2>3. ASSUME NEW r \in SlotIds, timers'[r] # 0, timers'[r] \notin armed'
        PROVE  \E u \in Threads : call'[u].id = timers'[r]
    <3>1. CASE timers[r] = id
      BY <3>1, <1>1, <1>3
    <3>2. CASE timers[r] # id
      <4>1. PICK u \in Threads : call[u].id = timers[r]
        BY <3>2, <2>3, <1>1 DEF CallsInv
      <4>2. u # t
        BY <4>1, <2>3, <1>1
      <4> QED BY <4>1, <4>2, <1>1, <1>3
    <3> QED BY <3>1, <3>2
  <2> QED BY <2>1, <2>2, <2>3 DEF CallsInv, CallInv
<1> QED BY <1>4, <1>6, <1>7, <1>8

LEMMA ClearKeeps ==
  ASSUME NEW t \in Threads, LoopInv, ClearSlot(t) PROVE LoopInv'
<1> USE DEF LoopInv
<1> DEFINE id == call[t].id
<1>1. /\ call[t].at = "clear"
      /\ timers' = [s \in SlotIds |-> IF timers[s] = id THEN 0 ELSE timers[s]]
      /\ removed' = removed \cup {id} /\ call' = [call EXCEPT ![t] = Idle]
      /\ UNCHANGED <<nextId, known, armed, fired>>
  BY DEF ClearSlot, kernelVars
<1>2. id \in known /\ id \notin armed \cup Range(fired)
  BY <1>1 DEF CallsInv
<1>3. call'[t] = Idle /\ \A u \in Threads \ {t} : call'[u] = call[u]
  BY <1>1 DEF TablesInv
<1>4. TablesInv'
  BY <1>1 DEF TablesInv, Calls, Idle
<1>5. \A u \in Threads : call[u].id = id => call[u].at \notin {"arm", "undo"}
  BY <1>2 DEF CallsInv
<1> HIDE DEF id
<1>6. \A s \in SlotIds : timers'[s] = IF timers[s] = id THEN 0 ELSE timers[s]
  BY <1>1
<1>7. IdsInv'
  BY <1>1, <1>2, <1>6 DEF IdsInv, TablesInv
<1>8. ActiveIds' = ActiveIds \ {id}
  <2>1. ASSUME NEW x \in ActiveIds' PROVE x \in ActiveIds \ {id}
    BY <2>1, <1>6 DEF ActiveIds
  <2>2. ASSUME NEW x \in ActiveIds \ {id} PROVE x \in ActiveIds'
    BY <2>2, <1>6 DEF ActiveIds
  <2> QED BY <2>1, <2>2
<1>9. KernelInv' /\ RemovedInv'
  BY <1>1, <1>2, <1>8 DEF KernelInv, Single, RemovedInv
<1>10. CallsInv'
  <2>1. ASSUME NEW u \in Threads PROVE CallInv(u)'
    <3>1. CASE u = t
      BY <3>1, <1>3 DEF Idle, CallInv
    <3>2. CASE u # t
      BY <3>2, <1>1, <1>3, <1>5, <1>6 DEF CallsInv, CallInv
    <3> QED BY <3>1, <3>2
  <2>2. \A u, v \in Threads :
          call'[u].at \in {"arm", "undo"} /\ call'[u].id = call'[v].id => u = v
    BY <1>3 DEF CallsInv, Idle
  <2>3. ASSUME NEW r \in SlotIds, timers'[r] # 0, timers'[r] \notin armed'
        PROVE  \E u \in Threads : call'[u].id = timers'[r]
    <3>1. timers'[r] = timers[r] /\ timers[r] # id
      BY <2>3, <1>6
    <3>2. PICK u \in Threads : call[u].id = timers[r]
      BY <2>3, <3>1, <1>1 DEF CallsInv
    <3> QED BY <3>1, <3>2, <1>3 DEF id
  <2> QED BY <2>1, <2>2, <2>3 DEF CallsInv, CallInv
<1> QED BY <1>4, <1>7, <1>9, <1>10

-----------------------------------------------------------------------------
(* The other steps.                                                         *)

\* The events still queued in the kernel are new, fewer or the same.
LEMMA QueueKeeps ==
  ASSUME LoopInv, UNCHANGED <<timers, nextId, known, removed, armed, call>>,
         fired' \in Seq(Nat), Single', Range(fired') \subseteq Range(fired) \cup armed
  PROVE  LoopInv'
<1> USE DEF LoopInv
<1>1. ActiveIds' = ActiveIds
  BY DEF ActiveIds
<1>2. TablesInv' /\ IdsInv' /\ RemovedInv'
  BY <1>1 DEF TablesInv, IdsInv, RemovedInv
<1>3. KernelInv'
  BY <1>1 DEF KernelInv
<1>4. CallsInv'
  <2>1. ASSUME NEW u \in Threads PROVE CallInv(u)'
    BY DEF CallsInv, CallInv
  <2> QED BY <2>1 DEF CallsInv, CallInv
<1> QED BY <1>2, <1>3, <1>4

LEMMA FireKeeps ==
  ASSUME NEW id \in Ids, LoopInv, Fire(id) PROVE LoopInv'
<1>1. /\ id \in armed /\ id \notin Range(fired) /\ fired' = Append(fired, id)
      /\ UNCHANGED <<timers, nextId, known, removed, armed, call>>
  BY DEF Fire, tableVars
<1>2. id \in Nat /\ fired \in Seq(Nat) /\ Single
  BY <1>1 DEF LoopInv, KernelInv, IdsInv
<1>3. fired' \in Seq(Nat) /\ Single' /\ Range(fired') = Range(fired) \cup {id}
  BY <1>1, <1>2, FireAppends
<1> QED BY <1>1, <1>3, QueueKeeps

LEMMA FetchKeeps ==
  ASSUME LoopInv, KeventReturns PROVE LoopInv'
<1> DEFINE k == Fetchable
<1>1. /\ fired' = SubSeq(fired, k + 1, Len(fired))
      /\ UNCHANGED <<timers, nextId, known, removed, armed, call>>
  BY DEF KeventReturns, Fetch, tableVars
<1>2. fired \in Seq(Nat) /\ Single
  BY DEF LoopInv, KernelInv
<1>3. k \in 0 .. Len(fired)
  BY <1>2, LoopAssumption DEF Fetchable
<1> HIDE DEF k
<1>4. fired' \in Seq(Nat) /\ Single' /\ Range(fired') \subseteq Range(fired)
  BY <1>1, <1>2, <1>3, FetchTakesFirst
<1> QED BY <1>1, <1>4, QueueKeeps

LEMMA RestKeeps ==
  ASSUME LoopInv, UNCHANGED <<timers, nextId, known, removed, armed, fired, call>>
  PROVE  LoopInv'
<1>1. fired' \in Seq(Nat) /\ Single'
  BY DEF LoopInv, KernelInv, Single
<1> QED BY <1>1, QueueKeeps

LEMMA StepKeepsLoop == LoopInv /\ [Next]_vars => LoopInv'
<1> SUFFICES ASSUME LoopInv, [Next]_vars PROVE LoopInv'  OBVIOUS
<1>1. ASSUME NEW t \in Threads, ReserveSlot(t) PROVE LoopInv'
  BY <1>1, ReserveKeeps
<1>2. ASSUME NEW t \in Threads, ArmTimer(t) PROVE LoopInv'
  BY <1>2, ArmKeeps
<1>3. ASSUME NEW t \in Threads, ArmFails(t) PROVE LoopInv'
  BY <1>3, ArmFailsKeeps
<1>4. ASSUME NEW t \in Threads, UndoReserve(t) PROVE LoopInv'
  BY <1>4, UndoKeeps
<1>5. ASSUME NEW t \in Threads, NEW id \in Ids, DeleteKevent(t, id) PROVE LoopInv'
  BY <1>5, DeleteKeeps
<1>6. ASSUME NEW t \in Threads, ClearSlot(t) PROVE LoopInv'
  BY <1>6, ClearKeeps
<1>7. ASSUME NEW id \in Ids, Fire(id) PROVE LoopInv'
  BY <1>7, FireKeeps
<1>8. CASE KeventReturns
  BY <1>8, FetchKeeps
<1>9. CASE CheckRunning \/ Dispatch \/ CallbackReturns \/ BatchDone
  BY <1>9, RestKeeps
     DEF CheckRunning, Dispatch, CallbackReturns, BatchDone, tableVars, kernelVars
<1>10. ASSUME NEW created \in BOOLEAN, StartLoop(created) PROVE LoopInv'
  BY <1>10, RestKeeps DEF StartLoop, tableVars, kernelVars
<1>11. CASE StopLoop \/ JoinReturns
  BY <1>11, RestKeeps DEF StopLoop, JoinReturns, tableVars, kernelVars
<1>12. CASE UNCHANGED vars
  BY <1>12, RestKeeps DEF vars, tableVars, kernelVars
<1> QED
  BY <1>1, <1>2, <1>3, <1>4, <1>5, <1>6, <1>7, <1>8, <1>9, <1>10, <1>11, <1>12 DEF Next

LEMMA LoopInvariant == Spec => []LoopInv
<1> QED BY InitLoop, StepKeepsLoop, PTL DEF Spec

-----------------------------------------------------------------------------
(* The theorems.                                                            *)

\* However add_timer, remove_timer, failures and events interleave, the table and
\* the kernel's queue agree on which timers there are.
THEOREM SlotsMatch == Spec => []SlotsMatchKernel
<1>1. LoopInv => SlotsMatchKernel
  <2> SUFFICES ASSUME LoopInv PROVE SlotsMatchKernel  OBVIOUS
  <2>1. ASSUME NEW x \in ActiveIds \ armed PROVE x \in {call[t].id : t \in Threads}
    <3>1. PICK s \in SlotIds : x = timers[s] /\ timers[s] # 0
      BY <2>1 DEF ActiveIds
    <3>2. PICK t \in Threads : call[t].id = timers[s]
      BY <2>1, <3>1 DEF LoopInv, CallsInv
    <3> QED BY <3>1, <3>2
  <2> QED BY <2>1 DEF LoopInv, KernelInv, IdsInv, SlotsMatchKernel
<1> QED BY <1>1, LoopInvariant, PTL

\* No callback is looked up for a timer whose remove_timer has returned, even if its
\* event was fetched before.
THEOREM LookupNotLate == Spec => NoLateLookup
<1> DEFINE Late == lpc = "dispatch" /\ lpc' = "callback" => Head(batch) \notin removed
<1>1. LoopInv /\ [Next]_vars => [Late]_vars
  <2> SUFFICES ASSUME LoopInv, Next, lpc = "dispatch", lpc' = "callback"
               PROVE  Head(batch) \notin removed
    BY DEF vars
  <2>1. Dispatch
    BY DEF Next, ReserveSlot, ArmTimer, ArmFails, UndoReserve, DeleteKevent, ClearSlot,
           Fire, CheckRunning, KeventReturns, Fetch, CallbackReturns, BatchDone,
           StartLoop, StopLoop, JoinReturns, threadVars
  <2>2. Head(batch) \in ActiveIds
    BY <2>1 DEF Dispatch
  <2> QED BY <2>2 DEF LoopInv, RemovedInv
<1>2. Spec => [][Late]_vars
  BY <1>1, LoopInvariant, PTL DEF Spec
<1> QED BY <1>2 DEF NoLateLookup
==============================================================================
