---------------------------- MODULE SurfaceProofs ----------------------------
(***************************************************************************)
(* Theorems about SurfaceRegistry, for any threads, processes, size of the *)
(* tables, addresses and objects.  Both invariants speak of surfaces no    *)
(* call works on; what carries them over a call is what each call has done *)
(* of its work at each of its steps (CallsInv), that calls do not share a  *)
(* surface (ApartInv), and that there is one owner of the name, a creator  *)
(* included (OwnerInv).                                                    *)
(***************************************************************************)
EXTENDS SurfaceRegistry, TLAPS

Steps   == {"idle"} \cup CreateSteps \cup OpenSteps \cup DestroySteps
Structs == [object : Nat, owner : BOOLEAN]

TypesInv ==
  /\ linked \in Nat /\ objects \in Nat
  /\ surface \in [Processes -> [Addresses -> Structs]]
  /\ table \in [Processes -> [Slots -> Addresses \cup {Nowhere}]]
  /\ pc \in [Threads -> Steps]
  /\ arg \in [Threads -> Addresses \cup {Nowhere}]

\* A call has a surface, and no other call of its process has the same.
ApartInv ==
  /\ \A t \in Threads : pc[t] = "idle" <=> arg[t] = Nowhere
  /\ \A t, u \in Threads :
       ProcessOf[t] = ProcessOf[u] /\ arg[t] = arg[u] /\ arg[t] # Nowhere => t = u

\* What a call at step x has made of its struct, s, while the name stands for l.
Fits(x, s, l) ==
  /\ x \in {"open", "unlink", "reopen", "lookup"} => s = Unused
  /\ x \in {"size", "magic", "fields", "list", "abandon"} => s.owner /\ l = s.object
  /\ x \in {"probe", "note"} => s.object # 0 /\ ~s.owner
  /\ x = "drop" => s.object # 0 /\ (s.owner => l = s.object)
  /\ x = "unlist" => s.object # 0 /\ (s.owner => l = 0)

CallsInv == \A t \in Threads : pc[t] # "idle" => Fits(pc[t], Struct(t), linked)

\* The owner of the name is one, and the creator of a surface is its owner.
OwnerInv ==
  /\ \A p \in Processes, a \in Addresses :
       surface[p][a].owner => surface[p][a].object # 0
  /\ \A p, q \in Processes, a, b \in Addresses :
       surface[p][a].owner /\ surface[q][b].owner => p = q /\ a = b
  /\ \A t \in Threads, p \in Processes, a \in Addresses :
       pc[t] \in CreateSteps /\ surface[p][a].owner => p = ProcessOf[t] /\ a = arg[t]
  /\ \A t, u \in Threads : pc[t] \in CreateSteps /\ pc[u] \in CreateSteps => t = u

\* A surface is listed once; while a call works on it, only if that is destroy.
ListedInv ==
  /\ \A p \in Processes : \A s, r \in Slots :
       table[p][s] = table[p][r] /\ table[p][s] # Nowhere => s = r
  /\ \A p \in Processes, s \in Slots :
       table[p][s] # Nowhere => surface[p][table[p][s]].object # 0
  /\ \A t \in Threads : Listed(ProcessOf[t], arg[t]) /\ arg[t] # Nowhere =>
                         pc[t] \in DestroySteps
  /\ \A p \in Processes, a \in Addresses :
       surface[p][a].owner /\ ~InCall(p, a) => Listed(p, a)

SurfaceInv == TypesInv /\ ApartInv /\ CallsInv /\ OwnerInv /\ ListedInv /\ NameFollowsOwner
-----------------------------------------------------------------------------
\* Thread t in a call goes to step x, or returns if that is "idle", and leaves its
\* struct as s.
Step(t, x, s) ==
  /\ pc[t] # "idle" /\ x \in Steps /\ s \in Structs
  /\ pc' = [pc EXCEPT ![t] = x]
  /\ arg' = [arg EXCEPT ![t] = IF x = "idle" THEN Nowhere ELSE @]
  /\ surface' = [surface EXCEPT ![ProcessOf[t]][arg[t]] = s]
  /\ linked' \in Nat /\ objects' \in Nat /\ orphaned' = orphaned

\* Such a step fits the calls: the name is given or taken by its owner only, and
\* only a creator becomes one.
Lawful(t, x, s) ==
  /\ x # "idle" => Fits(x, s, linked')
  /\ linked' = linked \/ Struct(t).owner \/ pc[t] \in CreateSteps
  /\ s.owner => s.object # 0 /\ (Struct(t).owner \/ pc[t] \in CreateSteps)
  /\ x = "idle" /\ s.owner => linked' = s.object
  /\ x \in CreateSteps => pc[t] \in CreateSteps
  /\ linked' # 0 => \/ linked' \in orphaned
                    \/ linked' = linked /\ (s = Struct(t) \/ ~Struct(t).owner)
                    \/ s = [object |-> linked', owner |-> TRUE]

\* The first parts of SurfaceInv, which do not speak of the table.
CallPart == ApartInv /\ CallsInv /\ OwnerInv /\ NameFollowsOwner

LEMMA StepShape ==
  ASSUME TypesInv, ApartInv, NEW t \in Threads, NEW x, NEW s, Step(t, x, s)
  PROVE  /\ arg[t] \in Addresses /\ ProcessOf[t] \in Processes
         /\ pc'[t] = x /\ arg'[t] = (IF x = "idle" THEN Nowhere ELSE arg[t])
         /\ \A u \in Threads \ {t} : pc'[u] = pc[u] /\ arg'[u] = arg[u]
         /\ \A p \in Processes, a \in Addresses :
              surface'[p][a] = IF p = ProcessOf[t] /\ a = arg[t] THEN s ELSE surface[p][a]
         /\ pc' \in [Threads -> Steps] /\ arg' \in [Threads -> Addresses \cup {Nowhere}]
         /\ surface' \in [Processes -> [Addresses -> Structs]]
<1>1. arg[t] \in Addresses /\ ProcessOf[t] \in Processes
  BY DEF TypesInv, ApartInv, Step, Processes
<1>2. pc \in [Threads -> Steps] /\ arg \in [Threads -> Addresses \cup {Nowhere}]
      /\ surface \in [Processes -> [Addresses -> Structs]]
  BY DEF TypesInv, Steps
<1>3. pc'[t] = x /\ arg'[t] = (IF x = "idle" THEN Nowhere ELSE arg[t])
      /\ pc' \in [Threads -> Steps] /\ arg' \in [Threads -> Addresses \cup {Nowhere}]
      /\ \A u \in Threads \ {t} : pc'[u] = pc[u] /\ arg'[u] = arg[u]
  BY <1>1, <1>2 DEF Step
<1>4. surface' \in [Processes -> [Addresses -> Structs]]
      /\ \A p \in Processes, a \in Addresses :
           surface'[p][a] = IF p = ProcessOf[t] /\ a = arg[t] THEN s ELSE surface[p][a]
  BY <1>1, <1>2 DEF Step
<1> QED BY <1>1, <1>3, <1>4

LEMMA StepKeepsCalls ==
  ASSUME SurfaceInv, NEW t \in Threads, NEW x, NEW s, Step(t, x, s), Lawful(t, x, s)
  PROVE  CallPart'
<1> DEFINE P == ProcessOf[t]
           A == arg[t]
<1>1. TypesInv /\ ApartInv /\ CallsInv /\ OwnerInv /\ NameFollowsOwner
  BY DEF SurfaceInv
<1>2. /\ A \in Addresses /\ P \in Processes
      /\ pc'[t] = x /\ arg'[t] = (IF x = "idle" THEN Nowhere ELSE A)
      /\ \A u \in Threads \ {t} : pc'[u] = pc[u] /\ arg'[u] = arg[u]
      /\ \A p \in Processes, a \in Addresses :
           surface'[p][a] = IF p = P /\ a = A THEN s ELSE surface[p][a]
  BY <1>1, StepShape
<1>3. \A u \in Threads : ProcessOf[u] \in Processes
        /\ (pc[u] # "idle" => arg[u] \in Addresses) /\ pc[u] \in Steps
  BY <1>1 DEF TypesInv, ApartInv, Processes, Steps
<1>4. A # Nowhere /\ Nowhere \notin Addresses
  BY <1>2, RegistryAssumption
<1>5. Struct(t) = surface[P][A] /\ pc[t] # "idle"
  BY DEF Struct, Step
<1>6. \A p \in Processes, a \in Addresses :
        linked' # linked /\ surface[p][a].owner => p = P /\ a = A
  BY <1>1, <1>2, <1>5 DEF OwnerInv, Lawful
<1> HIDE DEF P, A
<1>7. ApartInv'
  BY <1>1, <1>2, <1>4, <1>5 DEF ApartInv, A, P
<1>8. CallsInv'
  <2> SUFFICES ASSUME NEW u \in Threads, pc'[u] # "idle"
               PROVE  Fits(pc'[u], surface'[ProcessOf[u]][arg'[u]], linked')
    BY DEF CallsInv, Struct
  <2>1. CASE u = t
    BY <2>1, <1>2, <1>4 DEF Lawful, A, P
  <2>2. CASE u # t
    <3>1. pc'[u] = pc[u] /\ arg'[u] = arg[u] /\ arg[u] \in Addresses /\ ProcessOf[u] \in Processes
      BY <2>2, <1>2, <1>3
    <3>2. ~(ProcessOf[u] = P /\ arg[u] = A)
      BY <2>2, <1>1, <1>4 DEF ApartInv, A, P
    <3>3. surface'[ProcessOf[u]][arg'[u]] = Struct(u)
      BY <3>1, <3>2, <1>2 DEF Struct
    <3>4. Fits(pc[u], Struct(u), linked)
      BY <3>1, <1>1 DEF CallsInv
    <3>5. linked' # linked => ~Struct(u).owner
      BY <3>1, <3>2, <1>6 DEF Struct
    <3> QED BY <3>1, <3>3, <3>4, <3>5 DEF Fits
  <2> QED BY <2>1, <2>2
<1>9. OwnerInv'
  <2>1. ASSUME NEW p \in Processes, NEW a \in Addresses, surface'[p][a].owner
        PROVE  /\ surface'[p][a].object # 0
               /\ surface[p][a].owner \/ (p = P /\ a = A /\ pc[t] \in CreateSteps)
    BY <2>1, <1>1, <1>2, <1>5 DEF OwnerInv, Lawful
  <2>2. ASSUME NEW u \in Threads, pc'[u] \in CreateSteps PROVE pc[u] \in CreateSteps
    BY <2>2, <1>2 DEF Lawful
  <2>3. ASSUME NEW p \in Processes, NEW a \in Addresses, NEW q \in Processes,
               NEW b \in Addresses, surface'[p][a].owner, surface'[q][b].owner
        PROVE  p = q /\ a = b
    BY <2>1, <2>3, <1>1 DEF OwnerInv, P, A
  <2>4. ASSUME NEW u \in Threads, NEW p \in Processes, NEW a \in Addresses,
               pc'[u] \in CreateSteps, surface'[p][a].owner
        PROVE  p = ProcessOf[u] /\ a = arg'[u]
    <3>1. pc[u] \in CreateSteps
      BY <2>2, <2>4
    <3>2. p = ProcessOf[u] /\ a = arg[u]
      BY <2>1, <2>4, <3>1, <1>1 DEF OwnerInv, P, A
    <3>3. arg'[u] = arg[u]
      BY <2>4, <1>2 DEF CreateSteps, A
    <3> QED BY <3>2, <3>3
  <2>5. \A u, v \in Threads : pc'[u] \in CreateSteps /\ pc'[v] \in CreateSteps => u = v
    BY <2>2, <1>1 DEF OwnerInv
  <2> QED BY <2>1, <2>3, <2>4, <2>5 DEF OwnerInv
<1>10. NameFollowsOwner'
  <2>1. ASSUME NEW p \in Processes, NEW a \in Addresses, surface'[p][a].owner, ~InCall(p, a)'
        PROVE  linked' = surface'[p][a].object
    <3>1. CASE p = P /\ a = A
      <4>1. x = "idle"
        BY <2>1, <3>1, <1>2 DEF InCall, P
      <4> QED BY <4>1, <3>1, <2>1, <1>2 DEF Lawful
    <3>2. CASE ~(p = P /\ a = A)
      <4>1. surface'[p][a] = surface[p][a]
        BY <3>2, <1>2
      <4>2. linked' = linked
        BY <4>1, <3>2, <2>1, <1>6
      <4>3. ~InCall(p, a)
        BY <2>1, <3>2, <1>2 DEF InCall, P, A
      <4> QED BY <4>1, <4>2, <4>3, <2>1, <1>1 DEF NameFollowsOwner
    <3> QED BY <3>1, <3>2
  <2>2. ASSUME linked' # 0, linked' \notin orphaned
        PROVE  \E p \in Processes, a \in Addresses :
                 surface'[p][a] = [object |-> linked', owner |-> TRUE]
    <3>1. CASE s = [object |-> linked', owner |-> TRUE]
      BY <3>1, <1>2
    <3>2. CASE linked' = linked /\ (s = Struct(t) \/ ~Struct(t).owner)
      <4>1. PICK p \in Processes, a \in Addresses :
              surface[p][a] = [object |-> linked, owner |-> TRUE]
        BY <2>2, <3>2, <1>1 DEF NameFollowsOwner
      <4>2. surface'[p][a] = surface[p][a]
        BY <4>1, <3>2, <1>2, <1>5
      <4> QED BY <4>1, <4>2, <3>2
    <3> QED BY <2>2, <3>1, <3>2 DEF Lawful
  <2>3. orphaned' = orphaned
    BY DEF Step
  <2> QED BY <2>1, <2>2, <2>3 DEF NameFollowsOwner
<1> QED BY <1>7, <1>8, <1>9, <1>10 DEF CallPart

\* A step that leaves the table alone.
LEMMA StepKeeps ==
  ASSUME SurfaceInv, NEW t \in Threads, NEW x, NEW s, Step(t, x, s), Lawful(t, x, s),
         table' = table,
         pc[t] \in DestroySteps => x \in DestroySteps /\ s.object # 0,
         ~(x = "idle" /\ s.owner)
  PROVE  SurfaceInv'
<1> DEFINE P == ProcessOf[t]
           A == arg[t]
<1>1. TypesInv /\ ApartInv /\ OwnerInv /\ ListedInv /\ CallPart'
  BY StepKeepsCalls DEF SurfaceInv
<1>2. /\ A \in Addresses /\ P \in Processes
      /\ pc'[t] = x /\ arg'[t] = (IF x = "idle" THEN Nowhere ELSE A)
      /\ \A u \in Threads \ {t} : pc'[u] = pc[u] /\ arg'[u] = arg[u]
      /\ \A p \in Processes, a \in Addresses :
           surface'[p][a] = IF p = P /\ a = A THEN s ELSE surface[p][a]
      /\ pc' \in [Threads -> Steps] /\ arg' \in [Threads -> Addresses \cup {Nowhere}]
      /\ surface' \in [Processes -> [Addresses -> Structs]]
  BY <1>1, StepShape
<1>3. TypesInv'
  BY <1>1, <1>2 DEF TypesInv, Steps, Step
<1>4. A # Nowhere /\ Nowhere \notin Addresses
  BY <1>2, RegistryAssumption
<1> HIDE DEF P, A
<1>5. ListedInv'
  <2>1. ASSUME NEW p \in Processes, NEW n \in Slots, table[p][n] # Nowhere
        PROVE  surface'[p][table[p][n]].object # 0
    <3>1. table[p][n] \in Addresses /\ surface[p][table[p][n]].object # 0
      BY <2>1, <1>1 DEF TypesInv, ListedInv
    <3>2. p = P /\ table[p][n] = A => pc[t] \in DestroySteps
      BY <2>1, <1>1, <1>4 DEF ListedInv, Listed, P, A
    <3> QED BY <3>1, <3>2, <1>2
  <2>2. ASSUME NEW u \in Threads, NEW n \in Slots, table[ProcessOf[u]][n] = arg'[u],
               arg'[u] # Nowhere
        PROVE  pc'[u] \in DestroySteps
    <3>1. arg'[u] = arg[u]
      BY <2>2, <1>2 DEF A
    <3>2. pc[u] \in DestroySteps
      BY <2>2, <3>1, <1>1 DEF ListedInv, Listed
    <3> QED BY <3>2, <1>2
  <2>3. ASSUME NEW p \in Processes, NEW a \in Addresses, surface'[p][a].owner, ~InCall(p, a)'
        PROVE  Listed(p, a)
    <3>1. ~(p = P /\ a = A)
      BY <2>3, <1>2 DEF InCall, P
    <3>2. surface[p][a].owner /\ ~InCall(p, a)
      BY <2>3, <3>1, <1>2 DEF InCall, P, A
    <3> QED BY <3>2, <1>1 DEF ListedInv
  <2> QED BY <2>1, <2>2, <2>3, <1>1 DEF ListedInv, Listed
<1> QED BY <1>1, <1>3, <1>5 DEF SurfaceInv, CallPart

-----------------------------------------------------------------------------
(* The steps of one thread.                                                 *)

LEMMA InitSurface == Init => SurfaceInv
<1> SUFFICES ASSUME Init PROVE SurfaceInv  OBVIOUS
<1>1. TypesInv
  BY DEF Init, TypesInv, Steps, Structs, Unused
<1>2. ApartInv /\ CallsInv /\ OwnerInv
  BY DEF Init, ApartInv, CallsInv, OwnerInv, CreateSteps, Unused
<1>3. \A t \in Threads : arg[t] = Nowhere
  BY DEF Init
<1>4. ListedInv /\ NameFollowsOwner
  BY <1>3 DEF Init, ListedInv, NameFollowsOwner, Unused
<1> QED BY <1>1, <1>2, <1>4 DEF SurfaceInv

\* A call begins on a struct that no other call works on.
LEMMA BeginKeeps ==
  ASSUME SurfaceInv, NEW t \in Threads, NEW x \in Steps \ {"idle"}, NEW a \in Addresses,
         pc[t] = "idle", ~InCall(ProcessOf[t], a),
         pc' = [pc EXCEPT ![t] = x], arg' = [arg EXCEPT ![t] = a],
         UNCHANGED <<linked, objects, surface, table, orphaned>>,
         Fits(x, surface[ProcessOf[t]][a], linked),
         x \in CreateSteps => NameUnowned,
         x \in DestroySteps \/ surface[ProcessOf[t]][a].object = 0
  PROVE  SurfaceInv'
<1>1. TypesInv /\ ApartInv /\ CallsInv /\ OwnerInv /\ ListedInv /\ NameFollowsOwner
  BY DEF SurfaceInv
<1>2. /\ pc'[t] = x /\ arg'[t] = a /\ ProcessOf[t] \in Processes
      /\ \A u \in Threads \ {t} : pc'[u] = pc[u] /\ arg'[u] = arg[u]
      /\ pc' \in [Threads -> Steps] /\ arg' \in [Threads -> Addresses \cup {Nowhere}]
  BY <1>1 DEF TypesInv, Processes
<1>3. a # Nowhere /\ arg[t] = Nowhere
  BY <1>1, RegistryAssumption DEF ApartInv
<1>4. TypesInv'
  BY <1>1, <1>2 DEF TypesInv
<1>5. ApartInv'
  BY <1>1, <1>2, <1>3 DEF ApartInv, InCall
<1>6. CallsInv'
  <2> SUFFICES ASSUME NEW u \in Threads, pc'[u] # "idle"
               PROVE  Fits(pc'[u], surface[ProcessOf[u]][arg'[u]], linked)
    BY DEF CallsInv, Struct
  <2> QED BY <1>1, <1>2 DEF CallsInv, Struct
<1>7. OwnerInv'
  BY <1>1, <1>2 DEF OwnerInv, NameUnowned
<1>8. \A p \in Processes, b \in Addresses : InCall(p, b) => InCall(p, b)'
  BY <1>2, <1>3, RegistryAssumption DEF InCall
<1>9. ListedInv'
  <2>1. ASSUME NEW n \in Slots, table[ProcessOf[t]][n] = a PROVE x \in DestroySteps
    BY <2>1, <1>1, <1>2, <1>3 DEF ListedInv
  <2>2. \A u \in Threads : (Listed(ProcessOf[u], arg[u]) /\ arg[u] # Nowhere)' =>
                             pc'[u] \in DestroySteps
    BY <2>1, <1>1, <1>2 DEF ListedInv, Listed
  <2>3. \A p \in Processes, b \in Addresses :
          surface[p][b].owner /\ ~InCall(p, b)' => Listed(p, b)'
    BY <1>1, <1>8 DEF ListedInv, Listed
  <2> QED BY <2>2, <2>3, <1>1 DEF ListedInv
<1>10. NameFollowsOwner'
  BY <1>1, <1>8 DEF NameFollowsOwner
<1> QED BY <1>4, <1>5, <1>6, <1>7, <1>9, <1>10 DEF SurfaceInv

LEMMA CallocKeeps ==
  ASSUME SurfaceInv, NEW t \in Threads, BeginCreate(t) \/ BeginOpen(t) PROVE SurfaceInv'
<1>1. PICK x \in {"open", "lookup"} : Calloc(t, x) /\ (x = "open" => NameUnowned)
  BY DEF BeginCreate, BeginOpen
<1>2. PICK a \in Addresses :
        /\ ~Allocated(ProcessOf[t], a)
        /\ arg' = [arg EXCEPT ![t] = a] /\ pc' = [pc EXCEPT ![t] = x]
  BY <1>1 DEF Calloc
<1>3. surface[ProcessOf[t]][a] = Unused /\ ~InCall(ProcessOf[t], a)
  BY <1>2 DEF Allocated
<1>4. x \in Steps \ {"idle"} /\ (x \in CreateSteps => x = "open")
      /\ Fits(x, surface[ProcessOf[t]][a], linked)
  BY <1>3 DEF Steps, CreateSteps, OpenSteps, Fits
<1>5. pc[t] = "idle" /\ UNCHANGED <<linked, objects, surface, table, orphaned>>
  BY <1>1 DEF Calloc, At
<1>6. surface[ProcessOf[t]][a].object = 0
  BY <1>3 DEF Unused
<1> QED BY <1>1, <1>2, <1>3, <1>4, <1>5, <1>6, BeginKeeps

LEMMA BeginDestroyKeeps ==
  ASSUME SurfaceInv, NEW t \in Threads, BeginDestroy(t) PROVE SurfaceInv'
<1>1. PICK a \in Addresses :
        /\ surface[ProcessOf[t]][a] # Unused /\ ~InCall(ProcessOf[t], a)
        /\ arg' = [arg EXCEPT ![t] = a] /\ pc' = [pc EXCEPT ![t] = "drop"]
  BY DEF BeginDestroy
<1> DEFINE s == surface[ProcessOf[t]][a]
<1>2. ProcessOf[t] \in Processes /\ s \in Structs
  BY DEF SurfaceInv, TypesInv, Processes
<1>3. s.owner => s.object # 0 /\ linked = s.object
  BY <1>1, <1>2 DEF SurfaceInv, OwnerInv, NameFollowsOwner
<1>4. s.object # 0
  BY <1>1, <1>2, <1>3 DEF Structs, Unused
<1>5. Fits("drop", s, linked)
  BY <1>3, <1>4 DEF Fits
<1>6. "drop" \in Steps \ {"idle"} /\ "drop" \in DestroySteps /\ "drop" \notin CreateSteps
  BY DEF Steps, DestroySteps, CreateSteps
<1>7. pc[t] = "idle" /\ UNCHANGED <<linked, objects, surface, table, orphaned>>
  BY DEF BeginDestroy, At
<1> QED BY <1>1, <1>5, <1>6, <1>7, BeginKeeps

\* What is known of a thread in a call.
LEMMA InCallFacts ==
  ASSUME SurfaceInv, NEW t \in Threads, pc[t] # "idle"
  PROVE  /\ Fits(pc[t], Struct(t), linked) /\ Struct(t) \in Structs
         /\ linked \in Nat /\ objects \in Nat
         /\ Struct(t).owner => Struct(t).object # 0
<1>1. TypesInv /\ ApartInv /\ CallsInv /\ OwnerInv
  BY DEF SurfaceInv
<1>2. arg[t] \in Addresses /\ ProcessOf[t] \in Processes
  BY <1>1 DEF TypesInv, ApartInv, Processes
<1> QED BY <1>1, <1>2 DEF CallsInv, OwnerInv, TypesInv, Struct

LEMMA CallSteps ==
  ASSUME SurfaceInv, NEW t \in Threads, pc[t] # "idle", NEW x \in Steps, NEW s \in Structs,
         (x # "idle" /\ Goto(t, x)) \/ (x = "idle" /\ Return(t)),
         SetStruct(t, s) \/ (s = Struct(t) /\ UNCHANGED surface),
         linked' \in Nat, objects' \in Nat, orphaned' = orphaned
  PROVE  Step(t, x, s)
<1>1. TypesInv
  BY DEF SurfaceInv
<1>2. pc' = [pc EXCEPT ![t] = x]
      /\ arg' = [arg EXCEPT ![t] = IF x = "idle" THEN Nowhere ELSE @]
  BY <1>1 DEF TypesInv, Goto, Return
<1>3. surface' = [surface EXCEPT ![ProcessOf[t]][arg[t]] = s]
  BY <1>1 DEF TypesInv, SetStruct, Struct
<1> QED BY <1>2, <1>3 DEF Step

LEMMA NewObjectKeeps ==
  ASSUME SurfaceInv, NEW t \in Threads, pc[t] \in {"open", "reopen"},
         NewObject(t), Goto(t, "size"), UNCHANGED <<table, orphaned>>
  PROVE  SurfaceInv'
<1> DEFINE s == [object |-> linked', owner |-> TRUE]
<1>1. linked' \in Nat \ {0} /\ objects' \in Nat /\ SetStruct(t, s)
  BY InCallFacts DEF NewObject
<1>2. s \in Structs /\ "size" \in Steps /\ pc[t] \in CreateSteps /\ pc[t] \notin DestroySteps
  BY <1>1 DEF Structs, Steps, CreateSteps, DestroySteps
<1>3. Step(t, "size", s)
  BY <1>1, <1>2, CallSteps
<1>4. Lawful(t, "size", s)
  BY <1>1, <1>2 DEF Lawful, Fits
<1> QED BY <1>2, <1>3, <1>4, StepKeeps

\* A call ends without a surface, of which it is not the last holder.
LEMMA GivesUp ==
  ASSUME SurfaceInv, NEW t \in Threads, pc[t] \in CreateSteps \cup OpenSteps, Return(t),
         SetStruct(t, Unused) \/ (Struct(t) = Unused /\ UNCHANGED surface),
         \/ linked' = 0 /\ pc[t] \in CreateSteps
         \/ linked' = linked /\ ~Struct(t).owner,
         UNCHANGED <<objects, table, orphaned>>
  PROVE  SurfaceInv'
<1>1. pc[t] # "idle" /\ pc[t] \notin DestroySteps
  BY DEF CreateSteps, OpenSteps, DestroySteps
<1>2. Unused \in Structs /\ ~Unused.owner /\ "idle" \in Steps /\ "idle" \notin CreateSteps
  BY DEF Unused, Structs, Steps, CreateSteps
<1>3. linked' \in Nat /\ objects' \in Nat
  BY <1>1, InCallFacts
<1>4. Step(t, "idle", Unused)
  BY <1>1, <1>2, <1>3, CallSteps
<1>5. Lawful(t, "idle", Unused)
  BY <1>2 DEF Lawful
<1> QED BY <1>1, <1>2, <1>4, <1>5, StepKeeps

\* A call goes on with its surface as it is; a creator may free the name before.
LEMMA GoesOn ==
  ASSUME SurfaceInv, NEW t \in Threads, pc[t] # "idle", NEW x \in Steps \ {"idle"},
         Goto(t, x), UNCHANGED <<objects, surface, table, orphaned>>,
         Fits(x, Struct(t), linked'),
         \/ linked' = linked
         \/ linked' = 0 /\ (Struct(t).owner \/ pc[t] \in CreateSteps),
         x \in CreateSteps => pc[t] \in CreateSteps,
         pc[t] \in DestroySteps => x \in DestroySteps /\ Struct(t).object # 0
  PROVE  SurfaceInv'
<1>1. Struct(t) \in Structs /\ (Struct(t).owner => Struct(t).object # 0)
      /\ linked' \in Nat /\ objects' \in Nat
  BY InCallFacts
<1>2. Step(t, x, Struct(t))
  BY <1>1, CallSteps
<1>3. Lawful(t, x, Struct(t))
  BY <1>1 DEF Lawful
<1> QED BY <1>2, <1>3, StepKeeps

LEMMA CreateKeeps ==
  ASSUME SurfaceInv, NEW t \in Threads,
         OpenExclusive(t) \/ UnlinkStale(t) \/ Reopen(t) \/ SizeObject(t) \/ StoreMagic(t)
           \/ StoreFields(t) \/ Abandon(t)
  PROVE  SurfaceInv'
<1>1. /\ pc[t] \in {"open", "unlink", "reopen", "size", "magic", "fields", "abandon"}
      /\ UNCHANGED <<table, orphaned>>
  BY DEF OpenExclusive, UnlinkStale, Reopen, SizeObject, StoreMagic, StoreFields, Abandon, At
<1>2. pc[t] \in CreateSteps /\ pc[t] \notin DestroySteps /\ pc[t] # "idle"
  BY <1>1 DEF CreateSteps, DestroySteps
<1>3. Fits(pc[t], Struct(t), linked)
  BY <1>2, InCallFacts
<1>4. CASE OpenExclusive(t) \/ Reopen(t)
  <2>1. pc[t] \in {"open", "reopen"} /\ Struct(t) = Unused /\ ~Struct(t).owner
    BY <1>3, <1>4 DEF OpenExclusive, Reopen, At, Fits, Unused
  <2>2. CASE NewObject(t) /\ Goto(t, "size")
    BY <2>1, <2>2, <1>1, NewObjectKeeps
  <2>3. CASE Goto(t, "unlink") /\ UNCHANGED <<linked, header, objects, surface>>
    <3>1. "unlink" \in Steps \ {"idle"} /\ Fits("unlink", Struct(t), linked')
      BY <2>1 DEF Steps, CreateSteps, Fits
    <3> QED BY <2>3, <3>1, <1>1, <1>2, GoesOn
  <2>4. CASE Return(t) /\ UNCHANGED <<linked, header, objects, surface>>
    BY <2>1, <2>4, <1>1, <1>2, GivesUp
  <2> QED BY <1>4, <2>2, <2>3, <2>4 DEF OpenExclusive, Reopen
<1>5. CASE UnlinkStale(t)
  <2>1. Goto(t, "reopen") /\ linked' = 0 /\ UNCHANGED <<objects, surface>>
    BY <1>5 DEF UnlinkStale
  <2>2. "reopen" \in Steps \ {"idle"} /\ Fits("reopen", Struct(t), linked')
    BY <1>3, <1>5 DEF UnlinkStale, At, Steps, CreateSteps, Fits
  <2> QED BY <2>1, <2>2, <1>1, <1>2, GoesOn
<1>6. CASE SizeObject(t) \/ StoreMagic(t) \/ StoreFields(t)
  <2>1. PICK x \in {"magic", "fields", "list", "abandon"} : Goto(t, x)
    BY <1>6 DEF SizeObject, StoreMagic, StoreFields
  <2>2. UNCHANGED <<linked, objects, surface>>
    BY <1>6 DEF SizeObject, StoreMagic, StoreFields
  <2>3. x \in Steps \ {"idle"} /\ Fits(x, Struct(t), linked')
    BY <2>2, <1>3, <1>6
       DEF SizeObject, StoreMagic, StoreFields, At, Steps, CreateSteps, Fits
  <2> QED BY <2>1, <2>2, <2>3, <1>1, <1>2, GoesOn
<1>7. CASE Abandon(t)
  <2>1. linked' = 0 /\ SetStruct(t, Unused) /\ Return(t) /\ UNCHANGED <<objects, table, orphaned>>
    BY <1>7 DEF Abandon
  <2>2. pc[t] \in CreateSteps \cup OpenSteps
    BY <1>2
  <2> QED BY <2>1, <2>2, <1>2, GivesUp
<1> QED BY <1>4, <1>5, <1>6, <1>7

LEMMA OpenKeeps ==
  ASSUME SurfaceInv, NEW t \in Threads, OpenExisting(t) \/ Probe(t) PROVE SurfaceInv'
<1>1. /\ pc[t] \in {"lookup", "probe"}
      /\ UNCHANGED <<linked, objects, table, orphaned>>
  BY DEF OpenExisting, Probe, At
<1>2. pc[t] \in OpenSteps /\ pc[t] \notin CreateSteps /\ pc[t] \notin DestroySteps /\ pc[t] # "idle"
  BY <1>1 DEF OpenSteps, CreateSteps, DestroySteps
<1>3. Fits(pc[t], Struct(t), linked) /\ linked \in Nat /\ objects \in Nat
  BY <1>2, InCallFacts
<1>4. ~Struct(t).owner
  BY <1>1, <1>3 DEF Fits, Unused
<1>5. CASE OpenExisting(t) /\ linked # 0
  <2> DEFINE s == [object |-> linked, owner |-> FALSE]
  <2>1. Goto(t, "probe") /\ SetStruct(t, s)
    BY <1>5 DEF OpenExisting
  <2>2. s \in Structs /\ "probe" \in Steps \ {"idle"} /\ "probe" \notin CreateSteps
    BY <1>3 DEF Structs, Steps, OpenSteps, CreateSteps
  <2>3. Step(t, "probe", s)
    BY <2>1, <2>2, <1>1, <1>2, <1>3, CallSteps
  <2>4. Lawful(t, "probe", s)
    BY <2>2, <1>1, <1>4, <1>5 DEF Lawful, Fits
  <2> QED BY <2>3, <2>4, <1>1, <1>2, StepKeeps
<1>6. CASE OpenExisting(t) /\ linked = 0
  BY <1>6, <1>1, <1>2, <1>3, <1>4, GivesUp DEF OpenExisting, At, Fits
<1>7. CASE Probe(t) /\ Goto(t, "note") /\ UNCHANGED surface
  <2>1. "note" \in Steps \ {"idle"} /\ "note" \notin CreateSteps /\ Fits("note", Struct(t), linked')
    BY <1>3, <1>7 DEF Probe, At, Steps, OpenSteps, CreateSteps, Fits
  <2> QED BY <2>1, <1>1, <1>2, <1>7, GoesOn
<1>8. CASE Probe(t) /\ SetStruct(t, Unused) /\ Return(t)
  BY <1>8, <1>1, <1>2, <1>4, GivesUp
<1> QED BY <1>5, <1>6, <1>7, <1>8 DEF Probe

LEMMA DropKeeps ==
  ASSUME SurfaceInv, NEW t \in Threads, DropMapping(t) PROVE SurfaceInv'
<1>1. /\ pc[t] = "drop" /\ Goto(t, "unlist")
      /\ linked' = IF Struct(t).owner THEN 0 ELSE linked
      /\ UNCHANGED <<objects, surface, table, orphaned>>
  BY DEF DropMapping, DropAsOwner, At
<1>2. Fits("drop", Struct(t), linked)
  BY <1>1, InCallFacts
<1>3. Fits("unlist", Struct(t), linked') /\ Struct(t).object # 0
  BY <1>1, <1>2 DEF Fits
<1>4. "unlist" \in Steps \ {"idle"} /\ "unlist" \in DestroySteps /\ "unlist" \notin CreateSteps
  BY DEF Steps, DestroySteps, CreateSteps
<1> QED BY <1>1, <1>3, <1>4, GoesOn

\* A surface enters the table as its call returns.
LEMMA ListKeeps ==
  ASSUME SurfaceInv, NEW t \in Threads, pc[t] \in {"list", "note"},
         List(ProcessOf[t], arg[t]), Return(t),
         UNCHANGED <<linked, objects, surface, orphaned>>
  PROVE  SurfaceInv'
<1> DEFINE P == ProcessOf[t]
           A == arg[t]
           s == Struct(t)
<1>1. pc[t] # "idle" /\ pc[t] \notin DestroySteps /\ "idle" \in Steps /\ "idle" \notin CreateSteps
      /\ (pc[t] = "list" => pc[t] \in CreateSteps)
  BY DEF DestroySteps, Steps, CreateSteps
<1>2. /\ Fits(pc[t], s, linked) /\ s \in Structs /\ linked \in Nat /\ objects \in Nat
      /\ s.owner => s.object # 0
  BY <1>1, InCallFacts
<1>3. s.object # 0 /\ (s.owner => linked = s.object /\ pc[t] \in CreateSteps)
  BY <1>1, <1>2 DEF Fits
<1>4. Step(t, "idle", s)
  BY <1>1, <1>2, CallSteps
<1>5. Lawful(t, "idle", s)
  BY <1>1, <1>3 DEF Lawful
<1>6. CallPart'
  BY <1>4, <1>5, StepKeepsCalls
<1>7. TypesInv /\ ApartInv /\ ListedInv
  BY DEF SurfaceInv
<1>8. /\ A \in Addresses /\ P \in Processes /\ arg'[t] = Nowhere
      /\ \A u \in Threads \ {t} : pc'[u] = pc[u] /\ arg'[u] = arg[u]
      /\ pc' \in [Threads -> Steps] /\ arg' \in [Threads -> Addresses \cup {Nowhere}]
  BY <1>4, <1>7, StepShape
<1>9. A # Nowhere /\ Nowhere \notin Addresses
  BY <1>8, RegistryAssumption
<1>10. \A n \in Slots : table[P][n] # A
  BY <1>1, <1>7, <1>9 DEF ListedInv, Listed
<1>11. PICK k \in Slots : table[P][k] = Nowhere /\ table' = [table EXCEPT ![P][k] = A]
  BY DEF List, Taken
<1> HIDE DEF P, A
<1>12. /\ \A p \in Processes, n \in Slots :
            table'[p][n] = IF p = P /\ n = k THEN A ELSE table[p][n]
       /\ table' \in [Processes -> [Slots -> Addresses \cup {Nowhere}]]
  BY <1>7, <1>8, <1>11 DEF TypesInv
<1>13. TypesInv'
  BY <1>7, <1>8, <1>12 DEF TypesInv
<1>14. ListedInv'
  <2>1. \A p \in Processes : \A n, r \in Slots :
          table'[p][n] = table'[p][r] /\ table'[p][n] # Nowhere => n = r
    BY <1>7, <1>10, <1>12 DEF ListedInv
  <2>2. \A p \in Processes, n \in Slots :
          table'[p][n] # Nowhere => surface[p][table'[p][n]].object # 0
    BY <1>3, <1>7, <1>12 DEF ListedInv, Struct, P, A
  <2>3. ASSUME NEW u \in Threads, NEW n \in Slots, table'[ProcessOf[u]][n] = arg'[u],
               arg'[u] # Nowhere
        PROVE  pc'[u] \in DestroySteps
    <3>1. u # t /\ pc'[u] = pc[u] /\ arg'[u] = arg[u] /\ ProcessOf[u] \in Processes
      BY <2>3, <1>8 DEF Processes
    <3>2. ~(ProcessOf[u] = P /\ arg[u] = A)
      BY <2>3, <3>1, <1>7 DEF ApartInv, P, A
    <3>3. table[ProcessOf[u]][n] = arg[u]
      BY <2>3, <3>1, <3>2, <1>12
    <3> QED BY <2>3, <3>1, <3>3, <1>7 DEF ListedInv, Listed
  <2>4. ASSUME NEW p \in Processes, NEW a \in Addresses, surface[p][a].owner, ~InCall(p, a)'
        PROVE  Listed(p, a)'
    <3>1. CASE p = P /\ a = A
      BY <3>1, <1>12 DEF Listed
    <3>2. CASE ~(p = P /\ a = A)
      <4>1. ~InCall(p, a)
        BY <2>4, <3>2, <1>8 DEF InCall, P, A
      <4>2. PICK n \in Slots : table[p][n] = a
        BY <2>4, <4>1, <1>7 DEF ListedInv, Listed
      <4>3. table'[p][n] = a
        BY <4>2, <1>9, <1>11, <1>12
      <4> QED BY <4>3 DEF Listed
    <3> QED BY <3>1, <3>2
  <2> QED BY <2>1, <2>2, <2>3, <2>4 DEF ListedInv, Listed
<1> QED BY <1>6, <1>13, <1>14 DEF SurfaceInv, CallPart

LEMMA ListOrNotKeeps ==
  ASSUME SurfaceInv, NEW t \in Threads, ListCreated(t) \/ ListOpened(t) PROVE SurfaceInv'
<1>1. pc[t] \in {"list", "note"} /\ UNCHANGED <<linked, objects, surface, orphaned>>
  BY DEF ListCreated, ListOpened, At
<1>2. pc[t] # "idle" /\ pc[t] \notin DestroySteps /\ (pc[t] = "list" => pc[t] \in CreateSteps)
  BY <1>1 DEF DestroySteps, CreateSteps
<1>3. Fits(pc[t], Struct(t), linked) /\ Struct(t) \in Structs /\ linked \in Nat /\ objects \in Nat
  BY <1>2, InCallFacts
<1>4. CASE List(ProcessOf[t], arg[t]) /\ Return(t)
  BY <1>1, <1>4, ListKeeps
<1>5. CASE ListCreated(t) /\ UNCHANGED table /\ Goto(t, "abandon")
  <2>1. "abandon" \in Steps \ {"idle"} /\ Fits("abandon", Struct(t), linked') /\ pc[t] = "list"
    BY <1>1, <1>3, <1>5 DEF ListCreated, At, Steps, CreateSteps, Fits
  <2> QED BY <2>1, <1>1, <1>2, <1>5, GoesOn
<1>6. CASE ListOpened(t) /\ UNCHANGED table /\ Return(t)
  <2>1. "idle" \in Steps /\ "idle" \notin CreateSteps /\ ~Struct(t).owner
    BY <1>3, <1>6 DEF ListOpened, At, Steps, CreateSteps, Fits
  <2>2. Step(t, "idle", Struct(t))
    BY <2>1, <1>1, <1>2, <1>3, <1>6, CallSteps
  <2>3. Lawful(t, "idle", Struct(t))
    BY <2>1, <1>1 DEF Lawful
  <2> QED BY <2>1, <2>2, <2>3, <1>2, <1>6, StepKeeps
<1> QED BY <1>4, <1>5, <1>6 DEF ListCreated, ListOpened

LEMMA FreeKeeps ==
  ASSUME SurfaceInv, NEW t \in Threads, FreeSurface(t) PROVE SurfaceInv'
<1> DEFINE P == ProcessOf[t]
           A == arg[t]
<1>1. /\ pc[t] = "unlist" /\ Unlist(P, A) /\ SetStruct(t, Unused) /\ Return(t)
      /\ UNCHANGED <<linked, objects, orphaned>>
  BY DEF FreeSurface, At
<1>2. /\ Fits(pc[t], Struct(t), linked) /\ linked \in Nat /\ objects \in Nat
  BY <1>1, InCallFacts
<1>3. Unused \in Structs /\ ~Unused.owner /\ "idle" \in Steps /\ "idle" \notin CreateSteps
  BY DEF Unused, Structs, Steps, CreateSteps
<1>4. Step(t, "idle", Unused)
  BY <1>1, <1>2, <1>3, CallSteps
<1>5. linked # 0 => ~Struct(t).owner
  BY <1>1, <1>2 DEF Fits
<1>6. Lawful(t, "idle", Unused)
  BY <1>1, <1>3, <1>5 DEF Lawful
<1>7. CallPart'
  BY <1>4, <1>6, StepKeepsCalls
<1>8. TypesInv /\ ApartInv /\ ListedInv
  BY DEF SurfaceInv
<1>9. /\ A \in Addresses /\ P \in Processes /\ arg'[t] = Nowhere
      /\ \A u \in Threads \ {t} : pc'[u] = pc[u] /\ arg'[u] = arg[u]
      /\ \A p \in Processes, a \in Addresses :
           surface'[p][a] = IF p = P /\ a = A THEN Unused ELSE surface[p][a]
      /\ pc' \in [Threads -> Steps] /\ arg' \in [Threads -> Addresses \cup {Nowhere}]
      /\ surface' \in [Processes -> [Addresses -> Structs]]
  BY <1>4, <1>8, StepShape
<1> HIDE DEF P, A
<1>10. /\ \A p \in Processes, n \in Slots :
            table'[p][n] = IF p = P /\ table[p][n] = A THEN Nowhere ELSE table[p][n]
       /\ table' \in [Processes -> [Slots -> Addresses \cup {Nowhere}]]
  BY <1>1, <1>8, <1>9 DEF TypesInv, Unlist
<1>11. TypesInv'
  BY <1>1, <1>8, <1>9, <1>10 DEF TypesInv
<1>12. ListedInv'
  <2>1. \A p \in Processes : \A n, r \in Slots :
          table'[p][n] = table'[p][r] /\ table'[p][n] # Nowhere => n = r
    BY <1>8, <1>10 DEF ListedInv
  <2>2. ASSUME NEW p \in Processes, NEW n \in Slots, table'[p][n] # Nowhere
        PROVE  surface'[p][table'[p][n]].object # 0
    <3>1. table'[p][n] = table[p][n] /\ ~(p = P /\ table[p][n] = A) /\ table[p][n] \in Addresses
      BY <2>2, <1>8, <1>10 DEF TypesInv
    <3> QED BY <2>2, <3>1, <1>8, <1>9 DEF ListedInv
  <2>3. ASSUME NEW u \in Threads, NEW n \in Slots, table'[ProcessOf[u]][n] = arg'[u],
               arg'[u] # Nowhere
        PROVE  pc'[u] \in DestroySteps
    <3>1. u # t /\ pc'[u] = pc[u] /\ arg'[u] = arg[u] /\ ProcessOf[u] \in Processes
      BY <2>3, <1>9 DEF Processes
    <3>2. table[ProcessOf[u]][n] = arg[u]
      BY <2>3, <3>1, <1>10
    <3> QED BY <2>3, <3>1, <3>2, <1>8 DEF ListedInv, Listed
  <2>4. ASSUME NEW p \in Processes, NEW a \in Addresses, surface'[p][a].owner, ~InCall(p, a)'
        PROVE  Listed(p, a)'
    <3>1. ~(p = P /\ a = A) /\ surface[p][a].owner
      BY <2>4, <1>3, <1>9
    <3>2. ~InCall(p, a)
      BY <2>4, <3>1, <1>9 DEF InCall, P, A
    <3>3. PICK n \in Slots : table[p][n] = a
      BY <3>1, <3>2, <1>8 DEF ListedInv, Listed
    <3>4. table'[p][n] = a
      BY <3>1, <3>3, <1>10
    <3> QED BY <3>4 DEF Listed
  <2> QED BY <2>1, <2>2, <2>3, <2>4 DEF ListedInv, Listed
<1> QED BY <1>7, <1>11, <1>12 DEF SurfaceInv, CallPart

-----------------------------------------------------------------------------
(* A crash, which leaves other processes as they are, and the name.         *)

LEMMA CrashKeeps ==
  ASSUME SurfaceInv, NEW p \in Processes, Crash(p) PROVE SurfaceInv'
<1>1. TypesInv /\ ApartInv /\ CallsInv /\ OwnerInv /\ ListedInv /\ NameFollowsOwner
  BY DEF SurfaceInv
<1>2. /\ surface' = [surface EXCEPT ![p] = [a \in Addresses |-> Unused]]
      /\ table' = [table EXCEPT ![p] = [s \in Slots |-> Nowhere]]
      /\ pc' = [t \in Threads |-> IF ProcessOf[t] = p THEN "idle" ELSE pc[t]]
      /\ arg' = [t \in Threads |-> IF ProcessOf[t] = p THEN Nowhere ELSE arg[t]]
      /\ orphaned' = orphaned \cup
           {surface[p][a].object : a \in {b \in Addresses : surface[p][b].owner}}
      /\ UNCHANGED <<linked, objects>>
  BY DEF Crash
<1>3. Unused \in Structs /\ ~Unused.owner /\ "idle" \in Steps
      /\ "idle" \notin CreateSteps
  BY DEF Unused, Structs, Steps, CreateSteps
<1>4. TypesInv'
  BY <1>1, <1>2, <1>3 DEF TypesInv
<1>5. /\ \A a \in Addresses : surface'[p][a] = Unused
      /\ \A s \in Slots : table'[p][s] = Nowhere
      /\ \A q \in Processes \ {p} : surface'[q] = surface[q] /\ table'[q] = table[q]
      /\ \A t \in Threads : ProcessOf[t] = p => pc'[t] = "idle" /\ arg'[t] = Nowhere
      /\ \A t \in Threads : ProcessOf[t] # p => pc'[t] = pc[t] /\ arg'[t] = arg[t]
      /\ \A t \in Threads : ProcessOf[t] \in Processes
  BY <1>1, <1>2 DEF TypesInv, Processes
<1>6. ApartInv'
  BY <1>1, <1>5 DEF ApartInv
<1>7. CallsInv'
  BY <1>1, <1>2, <1>5 DEF CallsInv, Struct
<1>8. OwnerInv'
  BY <1>1, <1>3, <1>5 DEF OwnerInv
<1>9. \A q \in Processes \ {p}, a \in Addresses : InCall(q, a)' <=> InCall(q, a)
  BY <1>5 DEF InCall
<1>10. ListedInv'
  BY <1>1, <1>3, <1>5, <1>9 DEF ListedInv, Listed
<1>11. NameFollowsOwner'
  <2>1. ASSUME NEW q \in Processes, NEW a \in Addresses, surface'[q][a].owner, ~InCall(q, a)'
        PROVE  linked' = surface'[q][a].object
    BY <2>1, <1>1, <1>2, <1>3, <1>5, <1>9 DEF NameFollowsOwner
  <2>2. ASSUME linked' # 0, linked' \notin orphaned'
        PROVE  \E q \in Processes, a \in Addresses :
                 surface'[q][a] = [object |-> linked', owner |-> TRUE]
    <3>1. PICK q \in Processes, a \in Addresses :
            surface[q][a] = [object |-> linked, owner |-> TRUE]
      BY <2>2, <1>1, <1>2 DEF NameFollowsOwner
    <3>2. q # p
      BY <2>2, <3>1, <1>2
    <3> QED BY <3>1, <3>2, <1>2, <1>5
  <2> QED BY <2>1, <2>2 DEF NameFollowsOwner
<1> QED BY <1>4, <1>6, <1>7, <1>8, <1>10, <1>11 DEF SurfaceInv

-----------------------------------------------------------------------------
(* The theorems.                                                            *)

LEMMA StutterKeeps == SurfaceInv /\ UNCHANGED vars => SurfaceInv'
<1> SUFFICES ASSUME SurfaceInv, UNCHANGED vars PROVE SurfaceInv'  OBVIOUS
<1>1. UNCHANGED <<linked, objects, surface, table, pc, arg, orphaned>>
  BY DEF vars
<1>2. TypesInv' /\ ApartInv' /\ OwnerInv'
  BY <1>1 DEF SurfaceInv, TypesInv, ApartInv, OwnerInv
<1>3. CallsInv'
  BY <1>1 DEF SurfaceInv, CallsInv, Struct
<1>4. ListedInv'
  BY <1>1 DEF SurfaceInv, ListedInv, Listed, InCall
<1>5. NameFollowsOwner'
  BY <1>1 DEF SurfaceInv, NameFollowsOwner, InCall
<1> QED BY <1>2, <1>3, <1>4, <1>5 DEF SurfaceInv

LEMMA StepKeepsSurface == SurfaceInv /\ [Next]_vars => SurfaceInv'
<1> SUFFICES ASSUME SurfaceInv, [Next]_vars PROVE SurfaceInv'  OBVIOUS
<1>1. ASSUME NEW t \in Threads, BeginCreate(t) \/ BeginOpen(t) PROVE SurfaceInv'
  BY <1>1, CallocKeeps
<1>2. ASSUME NEW t \in Threads,
             OpenExclusive(t) \/ UnlinkStale(t) \/ Reopen(t) \/ SizeObject(t)
               \/ StoreMagic(t) \/ StoreFields(t) \/ Abandon(t)
      PROVE  SurfaceInv'
  BY <1>2, CreateKeeps
<1>3. ASSUME NEW t \in Threads, ListCreated(t) \/ ListOpened(t) PROVE SurfaceInv'
  BY <1>3, ListOrNotKeeps
<1>4. ASSUME NEW t \in Threads, OpenExisting(t) \/ Probe(t) PROVE SurfaceInv'
  BY <1>4, OpenKeeps
<1>5. ASSUME NEW t \in Threads, BeginDestroy(t) PROVE SurfaceInv'
  BY <1>5, BeginDestroyKeeps
<1>6. ASSUME NEW t \in Threads, DropMapping(t) PROVE SurfaceInv'
  BY <1>6, DropKeeps
<1>7. ASSUME NEW t \in Threads, FreeSurface(t) PROVE SurfaceInv'
  BY <1>7, FreeKeeps
<1>8. ASSUME NEW p \in Processes, Crash(p) PROVE SurfaceInv'
  BY <1>8, CrashKeeps
<1>9. CASE UNCHANGED vars
  BY <1>9, StutterKeeps
<1> QED BY <1>1, <1>2, <1>3, <1>4, <1>5, <1>6, <1>7, <1>8, <1>9 DEF Next

LEMMA SurfaceInvariant == Spec => []SurfaceInv
<1> QED BY InitSurface, StepKeepsSurface, PTL DEF Spec

\* The table of every process lists its surfaces, each once, and no struct that was
\* freed, however creates, opens, destroys and crashes interleave.
THEOREM TablesTrack == Spec => []TableTracksSurfaces
<1>1. SurfaceInv => TableTracksSurfaces
  BY DEF SurfaceInv, ListedInv, TableTracksSurfaces, Unused
<1> QED BY <1>1, SurfaceInvariant, PTL

\* The name is its owner's: no failed create, no destroy of an opened surface and no
\* crash unlinks a live name or leaves one behind for which nobody answers.
THEOREM NameFollows == Spec => []NameFollowsOwner
<1>1. SurfaceInv => NameFollowsOwner
  BY DEF SurfaceInv
<1> QED BY <1>1, SurfaceInvariant, PTL
=============================================================================
