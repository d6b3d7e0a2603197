---------------------------- MODULE ShmSyncProofs ----------------------------
(***************************************************************************)
(* Theorems about ShmSync, for every number of processes, slots and frames *)
(* and every width of the counters.                                        *)
(***************************************************************************)
EXTENDS ShmSync, FiniteSetTheorems, TLAPS

-----------------------------------------------------------------------------
\* Places on a ring of n cells, numbered from 0, and counters that go round it.

\* The cell i steps after h.
Ahead(n, h, i) == (h + i) % n

LEMMA UniqueRemainder ==
  ASSUME NEW d \in Nat \ {0}, NEW q \in Int, NEW p \in Int,
         NEW r \in 0 .. d - 1, NEW s \in 0 .. d - 1, d * q + r = d * p + s
  PROVE  r = s
<1>1. PICK k \in Int : k = q - p
  OBVIOUS
<1>2. d * k = d * q - d * p
  BY <1>1
<1>3. d * k = s - r
  BY <1>2
<1>4. ASSUME k >= 1 PROVE FALSE
  <2>1. PICK m \in Nat : k = 1 + m
    <3>1. k - 1 \in Nat /\ k = 1 + (k - 1)
      BY <1>4
    <3> QED BY <3>1
  <2>2. d * k = d + d * m /\ d * m \in Nat
    BY <2>1
  <2> QED BY <1>3, <2>2
<1>5. ASSUME k <= -1 PROVE FALSE
  <2>1. PICK m \in Nat : k = -1 - m
    <3>1. -1 - k \in Nat /\ k = -1 - (-1 - k)
      BY <1>5
    <3> QED BY <3>1
  <2>2. d * k = 0 - d - d * m /\ d * m \in Nat
    BY <2>1
  <2> QED BY <1>3, <2>2
<1>6. k = 0
  BY <1>4, <1>5
<1> QED BY <1>3, <1>6

LEMMA RemainderIs ==
  ASSUME NEW d \in Nat \ {0}, NEW q \in Int, NEW r \in 0 .. d - 1,
         NEW a \in Int, a = d * q + r
  PROVE  a % d = r
<1>1. PICK p \in Int, s \in 0 .. d - 1 : a = d * p + s /\ s = a % d
  <2>1. a \div d \in Int /\ a % d \in 0 .. d - 1 /\ a = d * (a \div d) + (a % d)
    OBVIOUS
  <2> QED BY <2>1
<1>2. d * q + r = d * p + s
  BY <1>1
<1>3. r = s
  BY <1>2, UniqueRemainder
<1> QED BY <1>1, <1>3

\* Less than two rounds.
LEMMA Wraps ==
  ASSUME NEW n \in Nat \ {0}, NEW h \in 0 .. n - 1, NEW i \in 0 .. n
  PROVE  /\ Ahead(n, h, i) \in 0 .. n - 1
         /\ h + i < n => Ahead(n, h, i) = h + i
         /\ h + i >= n => Ahead(n, h, i) = (h + i) - n
<1>1. PICK a \in Int : a = h + i
  OBVIOUS
<1>2. Ahead(n, h, i) = a % n
  BY <1>1, Zenon DEF Ahead
<1>3. ASSUME a < n PROVE a % n = a
  <2>1. a \in 0 .. n - 1 /\ a = n * 0 + a
    BY <1>1, <1>3
  <2> QED BY <2>1, RemainderIs
<1>4. ASSUME a >= n PROVE a % n = a - n
  <2>1. a - n \in 0 .. n - 1 /\ a = n * 1 + (a - n)
    BY <1>1, <1>4
  <2>2. PICK r \in 0 .. n - 1 : r = a - n
    BY <2>1
  <2>3. a = n * 1 + r
    BY <2>1, <2>2
  <2>4. a % n = r
    BY <2>3, RemainderIs
  <2> QED BY <2>2, <2>4
<1>5. a % n \in 0 .. n - 1
  BY <1>1
<1> QED BY <1>1, <1>2, <1>3, <1>4, <1>5, Zenon

LEMMA Ends ==
  ASSUME NEW n \in Nat \ {0}, NEW h \in 0 .. n - 1
  PROVE  Ahead(n, h, 0) = h /\ Ahead(n, h, n) = h
<1>1. 0 \in 0 .. n /\ n \in 0 .. n
  OBVIOUS
<1> QED BY <1>1, Wraps

\* Beginning one later is going one further, and so is one more step at the end.
LEMMA Shifts ==
  ASSUME NEW n \in Nat \ {0}, NEW h \in 0 .. n - 1, NEW i \in 0 .. n - 1
  PROVE  /\ Ahead(n, Ahead(n, h, 1), i) = Ahead(n, h, i + 1)
         /\ Ahead(n, Ahead(n, h, i), 1) = Ahead(n, h, i + 1)
<1>1. 1 \in 0 .. n /\ i \in 0 .. n /\ i + 1 \in 0 .. n
  OBVIOUS
<1>2. PICK u \in 0 .. n - 1 : u = Ahead(n, h, 1)
  BY <1>1, Wraps
<1>3. PICK v \in 0 .. n - 1 : v = Ahead(n, h, i)
  BY <1>1, Wraps
<1>4. PICK w \in 0 .. n - 1 : w = Ahead(n, h, i + 1)
  BY <1>1, Wraps
<1>5. (h + 1 < n => u = h + 1) /\ (h + 1 >= n => u = (h + 1) - n)
  BY <1>1, <1>2, Wraps
<1>6. (h + i < n => v = h + i) /\ (h + i >= n => v = (h + i) - n)
  BY <1>1, <1>3, Wraps
<1>7. /\ h + (i + 1) < n => w = h + (i + 1)
      /\ h + (i + 1) >= n => w = (h + (i + 1)) - n
  BY <1>1, <1>4, Wraps
<1>8. /\ u + i < n => Ahead(n, u, i) = u + i
      /\ u + i >= n => Ahead(n, u, i) = (u + i) - n
  BY <1>1, Wraps
<1>9. /\ v + 1 < n => Ahead(n, v, 1) = v + 1
      /\ v + 1 >= n => Ahead(n, v, 1) = (v + 1) - n
  BY <1>1, Wraps
<1>10. Ahead(n, u, i) = w
  BY <1>5, <1>7, <1>8
<1>11. Ahead(n, v, 1) = w
  BY <1>6, <1>7, <1>9
<1> QED BY <1>2, <1>3, <1>4, <1>10, <1>11

\* A round reaches every cell.
LEMMA Reached ==
  ASSUME NEW n \in Nat \ {0}, NEW h \in 0 .. n - 1, NEW s \in 0 .. n - 1
  PROVE  \E i \in 0 .. n - 1 : Ahead(n, h, i) = s
<1>1. PICK i \in 0 .. n - 1 : (s >= h => i = s - h) /\ (s < h => i = (s - h) + n)
  <2>1. CASE s >= h
    <3>1. s - h \in 0 .. n - 1
      BY <2>1
    <3> QED BY <2>1, <3>1
  <2>2. CASE s < h
    <3>1. (s - h) + n \in 0 .. n - 1
      BY <2>2
    <3> QED BY <2>2, <3>1
  <2> QED BY <2>1, <2>2
<1>2. i \in 0 .. n
  OBVIOUS
<1>3. /\ h + i < n => Ahead(n, h, i) = h + i
      /\ h + i >= n => Ahead(n, h, i) = (h + i) - n
  BY <1>2, Wraps
<1>4. Ahead(n, h, i) = s
  BY <1>1, <1>3
<1> QED BY <1>4

\* The remainder of a counter goes round with every step of the counter ...
LEMMA RemainderGoesRound ==
  ASSUME NEW n \in Nat \ {0}, NEW c \in Nat
  PROVE  (c + 1) % n = Ahead(n, c % n, 1)
<1>1. PICK q \in Int, r \in 0 .. n - 1 : c = n * q + r /\ r = c % n
  <2>1. c \div n \in Int /\ c % n \in 0 .. n - 1 /\ c = n * (c \div n) + (c % n)
    OBVIOUS
  <2> QED BY <2>1
<1>2. PICK z \in Int : z = n * q
  OBVIOUS
<1>3. c = z + r
  BY <1>1, <1>2, Zenon
<1>4. PICK a \in Int : a = c + 1
  OBVIOUS
<1>5. 1 \in 0 .. n
  OBVIOUS
<1>6. /\ r + 1 < n => Ahead(n, r, 1) = r + 1
      /\ r + 1 >= n => Ahead(n, r, 1) = (r + 1) - n
  BY <1>5, Wraps
<1>7. a % n = Ahead(n, r, 1)
  <2>1. CASE r + 1 < n
    <3>1. PICK s \in 0 .. n - 1 : s = r + 1
      BY <2>1
    <3>2. a = z + s
      BY <1>3, <1>4, <3>1
    <3>3. a = n * q + s
      BY <1>2, <3>2, Zenon
    <3>4. a % n = s
      BY <3>3, RemainderIs
    <3> QED BY <1>6, <2>1, <3>1, <3>4
  <2>2. CASE r + 1 >= n
    <3>1. r + 1 = n
      BY <2>2
    <3>2. PICK p \in Int : p = q + 1
      OBVIOUS
    <3>3. n * p = z + n
      BY <1>2, <3>2
    <3>4. 0 \in 0 .. n - 1
      OBVIOUS
    <3>5. a = n * p + 0
      BY <1>3, <1>4, <3>1, <3>3
    <3>6. a % n = 0
      BY <3>4, <3>5, RemainderIs
    <3> QED BY <1>6, <2>2, <3>1, <3>6
  <2> QED BY <2>1, <2>2
<1>8. (c + 1) % n = a % n
  BY <1>4, Zenon
<1>9. Ahead(n, c % n, 1) = Ahead(n, r, 1)
  BY <1>1, Zenon
<1> QED BY <1>7, <1>8, <1>9, Zenon

\* A round more makes no difference.
LEMMA RoundMore ==
  ASSUME NEW n \in Nat \ {0}, NEW c \in Nat
  PROVE  (c + n) % n = c % n
<1>1. PICK q \in Int, r \in 0 .. n - 1 : c = n * q + r /\ r = c % n
  <2>1. c \div n \in Int /\ c % n \in 0 .. n - 1 /\ c = n * (c \div n) + (c % n)
    OBVIOUS
  <2> QED BY <2>1
<1>2. PICK p \in Int, a \in Int : p = q + 1 /\ a = c + n
  OBVIOUS
<1>3. PICK y \in Int, z \in Int : y = n * p /\ z = n * q
  OBVIOUS
<1>4. y = z + n
  BY <1>2, <1>3
<1>5. c = z + r
  BY <1>1, <1>3, Zenon
<1>6. a = y + r
  BY <1>2, <1>4, <1>5
<1>7. a = n * p + r
  BY <1>3, <1>6, Zenon
<1>8. a % n = r
  BY <1>7, RemainderIs
<1> QED BY <1>1, <1>2, <1>8, Zenon

\* A wrapped increment counts like one that is not.
LEMMA IncrementCounts ==
  ASSUME NEW n \in Nat \ {0}, NEW c \in 0 .. n - 1, NEW d \in Nat
  PROVE  (((c + 1) % n) + d) % n = (c + (d + 1)) % n
<1>1. CASE c + 1 < n
  <2>1. PICK a \in 0 .. n - 1 : a = c + 1
    BY <1>1
  <2>2. a = n * 0 + a
    OBVIOUS
  <2>3. a % n = a
    BY <2>2, RemainderIs
  <2>4. a + d = c + (d + 1)
    BY <2>1
  <2> QED BY <2>1, <2>3, <2>4, Zenon
<1>2. CASE c + 1 = n
  <2>1. n = n * 1 + 0 /\ 0 \in 0 .. n - 1
    OBVIOUS
  <2>2. n % n = 0
    BY <2>1, RemainderIs
  <2>3. 0 + d = d /\ c + (d + 1) = d + n
    BY <1>2
  <2>4. (d + n) % n = d % n
    BY RoundMore
  <2> QED BY <1>2, <2>2, <2>3, <2>4, Zenon
<1>3. c + 1 < n \/ c + 1 = n
  OBVIOUS
<1> QED BY <1>1, <1>2, <1>3

\* ... and, if it wraps at a multiple of n, with its wrap too.
LEMMA CounterGoesRound ==
  ASSUME NEW n \in Nat \ {0}, NEW m \in Nat, NEW k \in Nat \ {0}, k = n * m,
         NEW c \in 0 .. k - 1
  PROVE  ((c + 1) % k) % n = Ahead(n, c % n, 1)
<1>1. PICK a \in 1 .. k : a = c + 1
  OBVIOUS
<1>2. (a % k) % n = a % n
  <2>1. CASE a < k
    <3>1. a \in 0 .. k - 1 /\ a = k * 0 + a
      BY <2>1
    <3>2. a % k = a
      BY <3>1, RemainderIs
    <3> QED BY <3>2
  <2>2. CASE a = k
    <3>1. a = k * 1 + 0 /\ 0 \in 0 .. k - 1
      BY <2>2
    <3>2. a % k = 0
      BY <3>1, RemainderIs
    <3>3. a = n * m + 0 /\ 0 = n * 0 + 0 /\ 0 \in 0 .. n - 1
      BY <2>2
    <3>4. a % n = 0 /\ 0 % n = 0
      BY <3>3, RemainderIs
    <3> QED BY <3>2, <3>4
  <2> QED BY <2>1, <2>2
<1>3. ((c + 1) % k) % n = (a % k) % n /\ (c + 1) % n = a % n
  BY <1>1, Zenon
<1>4. c \in Nat
  OBVIOUS
<1>5. (c + 1) % n = Ahead(n, c % n, 1)
  BY <1>4, RemainderGoesRound, Zenon
<1> QED BY <1>2, <1>3, <1>5, Zenon

-----------------------------------------------------------------------------
USE DEF Slots, Owning, Publishing, MoveCursor, Claim, StoreLeaving, BeginScan, Take,
        SkipTo

\* The cursor reduced to a slot index is a slot.
LEMMA CursorInRange ==
  ASSUME NEW n \in Nat, NEW d \in Nat \ {0}
  PROVE  n % d \in 0 .. d - 1
  OBVIOUS

\* A generation incremented modulo GenMod is a generation.
LEMMA NextGeneration ==
  \A k \in 0 .. GenMod - 1 : (k + 1) % GenMod \in 0 .. GenMod - 1
  <1> SUFFICES ASSUME NEW k \in 0 .. GenMod - 1
               PROVE  (k + 1) % GenMod \in 0 .. GenMod - 1
    OBVIOUS
  <1>1. k + 1 \in Nat /\ GenMod \in Nat \ {0}
    BY CounterAssumption
  <1>2. QED
    BY <1>1, CursorInRange

LEMMA TypeInit == Init => TypeOK /\ LocalsOK
  BY SlotAssumption, CounterAssumption DEF Init, TypeOK, LocalsOK

\* A step changes the state of slots and the locals of readers only, within their types.
LEMMA ReaderTypes ==
  ASSUME TypeOK, LocalsOK,
         UNCHANGED <<generation, meta, cursor, pixels, wlocal, crashed, published>>,
         state' \in [Slots -> {"FREE", "WRITING", "READY", "READING"}],
         rpc' \in [Readers -> {"idle", "scan", "held"}],
         rslot' \in [Readers -> 0 .. SlotCount], left' \in [Readers -> Nat],
         \A r \in Readers : rpc'[r] = "held" => rslot'[r] \in Slots
  PROVE  TypeOK' /\ LocalsOK'
BY DEF TypeOK, LocalsOK, wlocal

LEMMA TypeReader ==
  ASSUME TypeOK, LocalsOK, NEW r \in Readers, ReaderStep(r)
  PROVE  TypeOK' /\ LocalsOK'
<1>1. /\ state \in [Slots -> {"FREE", "WRITING", "READY", "READING"}]
      /\ rpc \in [Readers -> {"idle", "scan", "held"}]
      /\ rslot \in [Readers -> 0 .. SlotCount] /\ left \in [Readers -> Nat]
      /\ \A q \in Readers : rpc[q] = "held" => rslot[q] \in Slots
  BY DEF TypeOK, LocalsOK
<1>2. UNCHANGED <<generation, meta, cursor, pixels, wlocal, crashed, published>>
  BY DEF ReaderStep, WaitForReady, TakeReady, SkipSlot, PollAgain, TimeOut, ReleaseReadSlot,
     region
<1>3. /\ state' \in [Slots -> {"FREE", "WRITING", "READY", "READING"}]
      /\ rpc' \in [Readers -> {"idle", "scan", "held"}]
      /\ rslot' \in [Readers -> 0 .. SlotCount] /\ left' \in [Readers -> Nat]
      /\ \A q \in Readers : rpc'[q] = "held" => rslot'[q] \in Slots
  <2>1. ASSUME NEW t \in Timeouts, WaitForReady(r, t)
        PROVE  /\ state' \in [Slots -> {"FREE", "WRITING", "READY", "READING"}]
               /\ rpc' \in [Readers -> {"idle", "scan", "held"}]
               /\ rslot' \in [Readers -> 0 .. SlotCount] /\ left' \in [Readers -> Nat]
               /\ \A q \in Readers : rpc'[q] = "held" => rslot'[q] \in Slots
    BY <1>1, <2>1, SlotAssumption, TimeoutAssumption DEF WaitForReady, region
  <2>2. CASE TakeReady(r)
    BY <1>1, <2>2 DEF TakeReady
  <2>3. CASE SkipSlot(r)
    <3>1. PICK next \in 0 .. SlotCount : next = rslot[r] + 1
      BY <1>1, <2>3, SlotAssumption DEF SkipSlot
    <3>2. /\ rpc[r] = "scan" /\ UNCHANGED <<state, rpc, left>>
          /\ rslot' = [rslot EXCEPT ![r] = next]
      BY <2>3, <3>1 DEF SkipSlot, AtReader, region
    <3> QED BY <1>1, <3>1, <3>2
  <2>4. CASE PollAgain(r)
    <3>1. PICK k \in Nat : k = left[r] - 1
      BY <1>1, <2>4 DEF PollAgain
    <3>2. /\ rpc[r] = "scan" /\ UNCHANGED <<state, rpc>>
          /\ rslot' = [rslot EXCEPT ![r] = 0] /\ left' = [left EXCEPT ![r] = k]
      BY <2>4, <3>1 DEF PollAgain, AtReader, region
    <3> QED BY <1>1, <3>1, <3>2, SlotAssumption
  <2>5. CASE TimeOut(r)
    <3>1. /\ UNCHANGED <<state, left>>
          /\ rpc' = [rpc EXCEPT ![r] = "idle"] /\ rslot' = [rslot EXCEPT ![r] = 0]
      BY <2>5 DEF TimeOut, region
    <3> QED BY <1>1, <3>1, SlotAssumption
  <2>6. CASE ReleaseReadSlot(r)
    <3>1. /\ left' = left /\ rslot[r] \in Slots
          /\ rpc' = [rpc EXCEPT ![r] = "idle"] /\ rslot' = [rslot EXCEPT ![r] = 0]
          /\ state' \in {state, [state EXCEPT ![rslot[r]] = "FREE"]}
      BY <1>1, <2>6 DEF ReleaseReadSlot, AtReader
    <3>2. state' \in [Slots -> {"FREE", "WRITING", "READY", "READING"}]
      BY <1>1, <3>1
    <3> QED BY <1>1, <3>1, <3>2, SlotAssumption
  <2> QED BY <2>1, <2>2, <2>3, <2>4, <2>5, <2>6 DEF ReaderStep
<1> QED BY <1>1, <1>2, <1>3, ReaderTypes

LEMMA TypeStep == TypeOK /\ LocalsOK /\ [Next]_vars => TypeOK' /\ LocalsOK'
<1> SUFFICES ASSUME TypeOK, LocalsOK, [Next]_vars PROVE TypeOK' /\ LocalsOK'
  OBVIOUS
<1> USE SlotAssumption, CounterAssumption, TimeoutAssumption DEF TypeOK, LocalsOK
<1>1. ASSUME NEW w \in Writers, AcquireWriteSlot(w) PROVE TypeOK' /\ LocalsOK'
  BY <1>1 DEF AcquireWriteSlot, AtWriter, region, rlocal
<1>2. ASSUME NEW w \in Writers, BumpCursor(w) PROVE TypeOK' /\ LocalsOK'
  <2> cursor \in Nat /\ cursor + 1 \in Nat
    OBVIOUS
  <2>1. cursor % SlotCount \in Slots
    BY CursorInRange
  <2>2. (cursor + 1) % CursorMod \in 0 .. CursorMod - 1
    BY CursorInRange
  <2>3. QED
    BY <1>2, <2>1, <2>2 DEF BumpCursor, AtWriter, rlocal
<1>3. ASSUME NEW w \in Writers, ClaimFree(w) PROVE TypeOK' /\ LocalsOK'
  <2>1. /\ UNCHANGED <<generation, meta, cursor, pixels, wslot, todo, drawn, rpc, rslot, left,
                      crashed, published>>
        /\ state' = [state EXCEPT ![wslot[w]] = "WRITING"]
        /\ wpc' = [wpc EXCEPT ![w] = "claimed"]
        /\ attempt' = [attempt EXCEPT ![w] = 0] /\ tried' = [tried EXCEPT ![w] = {}]
    BY <1>3 DEF ClaimFree, rlocal
  <2>2. state' \in [Slots -> {"FREE", "WRITING", "READY", "READING"}]
    BY <2>1
  <2>3. attempt' \in [Writers -> 0 .. SlotCount] /\ tried' \in [Writers -> SUBSET Slots]
    BY <2>1
  <2>4. /\ wpc' \in [Writers -> {"idle", "bump", "cas", "full"} \cup Owning \cup Publishing]
        /\ \A v \in Writers : wpc'[v] \in {"idle", "bump", "cas"} => attempt'[v] < SlotCount
    BY <2>1
  <2> QED BY <2>1, <2>2, <2>3, <2>4
<1>4. ASSUME NEW w \in Writers, ClaimTaken(w) PROVE TypeOK' /\ LocalsOK'
  <2> USE <1>4 DEF ClaimTaken, AtWriter, region, rlocal
  <2>1. attempt[w] + 1 \in 0 .. SlotCount /\ wslot[w] \in Slots
    OBVIOUS
  <2>2. CASE attempt[w] + 1 < SlotCount
    BY <2>1, <2>2
  <2>3. CASE ~(attempt[w] + 1 < SlotCount)
    BY <2>1, <2>3
  <2>4. QED
    BY <2>2, <2>3
<1>5. ASSUME NEW w \in Writers, GiveUpFrame(w) PROVE TypeOK' /\ LocalsOK'
  BY <1>5 DEF GiveUpFrame, AtWriter, ReturnToCaller, region, rlocal
<1>6. ASSUME NEW w \in Writers, BeginDrawing(w) PROVE TypeOK' /\ LocalsOK'
  BY <1>6 DEF BeginDrawing, AtWriter, rlocal
<1>7. ASSUME NEW w \in Writers, NEW f \in Frames, EndDrawing(w, f) PROVE TypeOK' /\ LocalsOK'
  BY <1>7 DEF EndDrawing, AtWriter, rlocal
<1>8. ASSUME NEW w \in Writers, PublishSlot(w) PROVE TypeOK' /\ LocalsOK'
  <2>1. \A k \in 0 .. GenMod - 1 : (k + 1) % GenMod \in 0 .. GenMod - 1
    BY NextGeneration
  <2>2. CASE state[wslot[w]] = "WRITING"
    <3>1. /\ state' = [state EXCEPT ![wslot[w]] = "READY"]
          /\ published' = [published EXCEPT ![wslot[w]] = (@ + 1) % GenMod]
          /\ todo' = [todo EXCEPT ![w] = Fields]
          /\ wpc' = [wpc EXCEPT ![w] = "stores"]
          /\ UNCHANGED <<generation, meta, cursor, pixels, rlocal, crashed,
                         wslot, attempt, drawn, tried>>
      BY <1>8, <2>2 DEF PublishSlot
    <3>2. published' \in [Slots -> 0 .. GenMod - 1]
      BY <2>1, <3>1
    <3>3. QED
      BY <3>1, <3>2 DEF rlocal
  <2>3. CASE state[wslot[w]] # "WRITING"
    <3>1. /\ ReturnToCaller(w)
          /\ UNCHANGED <<state, published, todo, generation, meta, cursor, pixels,
                         rlocal, crashed>>
      BY <1>8, <2>3 DEF PublishSlot
    <3>2. QED
      BY <3>1 DEF ReturnToCaller, rlocal
  <2>4. QED
    BY <2>2, <2>3
<1>9. ASSUME NEW w \in Writers, NEW x \in Fields, StoreField(w, x) PROVE TypeOK' /\ LocalsOK'
  BY <1>9 DEF StoreField, AtWriter, rlocal
<1>10. ASSUME NEW w \in Writers, BumpGeneration(w) PROVE TypeOK' /\ LocalsOK'
  <2>1. \A k \in 0 .. GenMod - 1 : (k + 1) % GenMod \in 0 .. GenMod - 1
    BY NextGeneration
  <2>2. QED
    BY <1>10, <2>1 DEF BumpGeneration, AtWriter, ReturnToCaller, rlocal
<1>11. ASSUME NEW r \in Readers, ReaderStep(r) PROVE TypeOK' /\ LocalsOK'
  BY <1>11, TypeReader
<1>12. ASSUME NEW p \in MayCrash, Crash(p) PROVE TypeOK' /\ LocalsOK'
  BY <1>12 DEF Crash, region, wlocal, rlocal
<1>13. CASE UNCHANGED vars
  BY <1>13 DEF vars, region, wlocal, rlocal
<1>14. QED
  BY <1>1, <1>2, <1>3, <1>4, <1>5, <1>6, <1>7, <1>8, <1>9, <1>10, <1>11, <1>12,
     <1>13 DEF Next, WriterStep

\* Every variable keeps its type, whatever the number of processes and slots.
THEOREM TypeCorrect == Spec => []TypeOK
  BY TypeInit, TypeStep, PTL DEF Spec

------------------------------------------------------------------------------
(* No two processes inside one slot.                                        *)

\* A step that changes neither the slot states nor who is inside which slot.
KeepsOwners ==
  /\ state' = state
  /\ \A w \in Writers, s \in Slots : Writing(w, s)' <=> Writing(w, s)
  /\ \A r \in Readers, s \in Slots : Reading(r, s)' <=> Reading(r, s)

LEMMA KeepsOwnership == SlotOwnership /\ KeepsOwners => SlotOwnership'
  BY DEF SlotOwnership, KeepsOwners

\* Every step of a writer but its claim and its publication keeps the owners,
\* and so does every step of a reader but its take and its release.
LEMMA QuietSteps ==
  ASSUME TypeOK,
         \/ \E w \in Writers :
              \/ AcquireWriteSlot(w) \/ BumpCursor(w) \/ ClaimTaken(w)
              \/ GiveUpFrame(w) \/ BeginDrawing(w) \/ BumpGeneration(w)
              \/ \E f \in Frames : EndDrawing(w, f)
              \/ \E x \in Fields : StoreField(w, x)
         \/ \E r \in Readers :
              \/ \E t \in Timeouts : WaitForReady(r, t)
              \/ SkipSlot(r) \/ PollAgain(r) \/ TimeOut(r)
         \/ \E p \in MayCrash : Crash(p)
         \/ UNCHANGED vars
  PROVE  KeepsOwners
<1> USE DEF TypeOK, KeepsOwners, Writing, Reading, region, wlocal, rlocal
<1>1. ASSUME NEW w \in Writers,
             \/ AcquireWriteSlot(w) \/ BumpCursor(w) \/ ClaimTaken(w)
             \/ GiveUpFrame(w) \/ BeginDrawing(w) \/ BumpGeneration(w)
      PROVE  KeepsOwners
  BY <1>1 DEF AcquireWriteSlot, BumpCursor, ClaimTaken, GiveUpFrame, BeginDrawing,
              BumpGeneration, ReturnToCaller, AtWriter
<1>2. ASSUME NEW w \in Writers, NEW f \in Frames, EndDrawing(w, f) PROVE KeepsOwners
  BY <1>2 DEF EndDrawing, AtWriter
<1>3. ASSUME NEW w \in Writers, NEW x \in Fields, StoreField(w, x) PROVE KeepsOwners
  BY <1>3 DEF StoreField, AtWriter
<1>4. ASSUME NEW r \in Readers, NEW t \in Timeouts, WaitForReady(r, t) PROVE KeepsOwners
  BY <1>4 DEF WaitForReady, AtReader
<1>5. ASSUME NEW r \in Readers, SkipSlot(r) \/ PollAgain(r) \/ TimeOut(r)
      PROVE  KeepsOwners
  BY <1>5 DEF SkipSlot, PollAgain, TimeOut, AtReader
<1>6. ASSUME NEW p \in MayCrash, Crash(p) PROVE KeepsOwners
  BY <1>6 DEF Crash
<1>7. CASE UNCHANGED vars
  BY <1>7 DEF vars
<1>8. QED
  BY <1>1, <1>2, <1>3, <1>4, <1>5, <1>6, <1>7

LEMMA OwnershipStep == TypeOK /\ LocalsOK /\ SlotOwnership /\ [Next]_vars => SlotOwnership'
<1> SUFFICES ASSUME TypeOK, LocalsOK, SlotOwnership, [Next]_vars PROVE SlotOwnership'
  OBVIOUS
<1>1. ASSUME NEW w \in Writers, ClaimFree(w) PROVE SlotOwnership'
  <2>1. /\ wslot[w] \in Slots /\ state[wslot[w]] = "FREE"
        /\ state' = [state EXCEPT ![wslot[w]] = "WRITING"]
    BY <1>1 DEF ClaimFree, TypeOK
  <2>2. \A v \in Writers, s \in Slots :
          Writing(v, s)' <=> Writing(v, s) \/ (v = w /\ s = wslot[w])
    BY <1>1 DEF ClaimFree, AtWriter, Writing, TypeOK
  <2>3. \A r \in Readers, s \in Slots : Reading(r, s)' <=> Reading(r, s)
    BY <1>1 DEF ClaimFree, Reading, rlocal
  <2>4. /\ \A v \in Writers : ~Writing(v, wslot[w])
        /\ \A r \in Readers : ~Reading(r, wslot[w])
    BY <2>1 DEF SlotOwnership
  <2>5. \A s \in Slots :
          state'[s] = IF s = wslot[w] THEN "WRITING" ELSE state[s]
    BY <2>1 DEF TypeOK
  <2>6. /\ \A v \in Writers, s \in Slots : Writing(v, s)' => state'[s] = "WRITING"
        /\ \A q \in Readers, s \in Slots : Reading(q, s)' => state'[s] = "READING"
    BY <2>2, <2>3, <2>4, <2>5 DEF SlotOwnership
  <2>7. /\ \A s \in Slots : state'[s] = "WRITING" => \E v \in Writers : Writing(v, s)'
        /\ \A s \in Slots : state'[s] = "READING" => \E q \in Readers : Reading(q, s)'
    BY <2>2, <2>3, <2>5 DEF SlotOwnership
  <2>8. /\ \A u, v \in Writers, s \in Slots : Writing(u, s)' /\ Writing(v, s)' => u = v
        /\ \A p, q \in Readers, s \in Slots : Reading(p, s)' /\ Reading(q, s)' => p = q
    BY <2>2, <2>3, <2>4 DEF SlotOwnership
  <2>9. QED
    BY <2>6, <2>7, <2>8 DEF SlotOwnership
<1>2. ASSUME NEW w \in Writers, PublishSlot(w) PROVE SlotOwnership'
  <2>1. wslot[w] \in Slots /\ Writing(w, wslot[w]) /\ state[wslot[w]] = "WRITING"
    BY <1>2 DEF PublishSlot, AtWriter, Writing, TypeOK, SlotOwnership
  <2>2. /\ state' = [state EXCEPT ![wslot[w]] = "READY"]
        /\ wpc' = [wpc EXCEPT ![w] = "stores"]
        /\ UNCHANGED <<wslot, rpc, rslot>>
    BY <1>2, <2>1 DEF PublishSlot, rlocal
  <2>3. \A v \in Writers, s \in Slots : Writing(v, s)' <=> Writing(v, s) /\ v # w
    BY <2>2 DEF Writing, TypeOK
  <2>4. \A r \in Readers, s \in Slots : Reading(r, s)' <=> Reading(r, s)
    BY <2>2 DEF Reading
  <2>5. /\ \A v \in Writers : Writing(v, wslot[w]) => v = w
        /\ \A s \in Slots : Writing(w, s) => s = wslot[w]
        /\ \A r \in Readers : ~Reading(r, wslot[w])
    BY <2>1 DEF SlotOwnership, Writing
  <2>6. \A s \in Slots :
          state'[s] = IF s = wslot[w] THEN "READY" ELSE state[s]
    BY <2>1, <2>2 DEF TypeOK
  <2>7. /\ \A v \in Writers, s \in Slots : Writing(v, s)' => state'[s] = "WRITING"
        /\ \A q \in Readers, s \in Slots : Reading(q, s)' => state'[s] = "READING"
    BY <2>3, <2>4, <2>5, <2>6 DEF SlotOwnership
  <2>8. /\ \A s \in Slots : state'[s] = "WRITING" => \E v \in Writers : Writing(v, s)'
        /\ \A s \in Slots : state'[s] = "READING" => \E q \in Readers : Reading(q, s)'
    BY <2>3, <2>4, <2>5, <2>6 DEF SlotOwnership
  <2>9. /\ \A u, v \in Writers, s \in Slots : Writing(u, s)' /\ Writing(v, s)' => u = v
        /\ \A p, q \in Readers, s \in Slots : Reading(p, s)' /\ Reading(q, s)' => p = q
    BY <2>3, <2>4 DEF SlotOwnership
  <2>10. QED
    BY <2>7, <2>8, <2>9 DEF SlotOwnership
<1>3. ASSUME NEW r \in Readers, TakeReady(r) PROVE SlotOwnership'
  <2>1. /\ rslot[r] \in Slots /\ state[rslot[r]] = "READY"
        /\ state' = [state EXCEPT ![rslot[r]] = "READING"]
    BY <1>3 DEF TakeReady
  <2>2. \A w \in Writers, s \in Slots : Writing(w, s)' <=> Writing(w, s)
    BY <1>3 DEF TakeReady, Writing, wlocal
  <2>3. \A q \in Readers, s \in Slots :
          Reading(q, s)' <=> Reading(q, s) \/ (q = r /\ s = rslot[r])
    BY <1>3 DEF TakeReady, AtReader, Reading, TypeOK
  <2>4. /\ \A w \in Writers : ~Writing(w, rslot[r])
        /\ \A q \in Readers : ~Reading(q, rslot[r])
    BY <2>1 DEF SlotOwnership
  <2>5. \A s \in Slots :
          state'[s] = IF s = rslot[r] THEN "READING" ELSE state[s]
    BY <2>1 DEF TypeOK
  <2>6. /\ \A v \in Writers, s \in Slots : Writing(v, s)' => state'[s] = "WRITING"
        /\ \A q \in Readers, s \in Slots : Reading(q, s)' => state'[s] = "READING"
    BY <2>2, <2>3, <2>4, <2>5 DEF SlotOwnership
  <2>7. /\ \A s \in Slots : state'[s] = "WRITING" => \E v \in Writers : Writing(v, s)'
        /\ \A s \in Slots : state'[s] = "READING" => \E q \in Readers : Reading(q, s)'
    BY <2>2, <2>3, <2>5 DEF SlotOwnership
  <2>8. /\ \A u, v \in Writers, s \in Slots : Writing(u, s)' /\ Writing(v, s)' => u = v
        /\ \A p, q \in Readers, s \in Slots : Reading(p, s)' /\ Reading(q, s)' => p = q
    BY <2>2, <2>3, <2>4 DEF SlotOwnership
  <2>9. QED
    BY <2>6, <2>7, <2>8 DEF SlotOwnership
<1>4. ASSUME NEW r \in Readers, ReleaseReadSlot(r) PROVE SlotOwnership'
  <2>1. rslot[r] \in Slots /\ Reading(r, rslot[r]) /\ state[rslot[r]] = "READING"
    BY <1>4 DEF ReleaseReadSlot, AtReader, Reading, LocalsOK, SlotOwnership
  <2>2. state' = [state EXCEPT ![rslot[r]] = "FREE"]
    BY <1>4, <2>1 DEF ReleaseReadSlot
  <2>3. \A w \in Writers, s \in Slots : Writing(w, s)' <=> Writing(w, s)
    BY <1>4 DEF ReleaseReadSlot, Writing, wlocal
  <2>4. \A q \in Readers, s \in Slots : Reading(q, s)' <=> Reading(q, s) /\ q # r
    BY <1>4 DEF ReleaseReadSlot, AtReader, Reading, TypeOK
  <2>5. /\ \A q \in Readers : Reading(q, rslot[r]) => q = r
        /\ \A s \in Slots : Reading(r, s) => s = rslot[r]
        /\ \A w \in Writers : ~Writing(w, rslot[r])
    BY <2>1 DEF SlotOwnership, Reading
  <2>6. \A s \in Slots :
          state'[s] = IF s = rslot[r] THEN "FREE" ELSE state[s]
    BY <2>1, <2>2 DEF TypeOK
  <2>7. /\ \A v \in Writers, s \in Slots : Writing(v, s)' => state'[s] = "WRITING"
        /\ \A q \in Readers, s \in Slots : Reading(q, s)' => state'[s] = "READING"
    BY <2>3, <2>4, <2>5, <2>6 DEF SlotOwnership
  <2>8. /\ \A s \in Slots : state'[s] = "WRITING" => \E v \in Writers : Writing(v, s)'
        /\ \A s \in Slots : state'[s] = "READING" => \E q \in Readers : Reading(q, s)'
    BY <2>3, <2>4, <2>5, <2>6 DEF SlotOwnership
  <2>9. /\ \A u, v \in Writers, s \in Slots : Writing(u, s)' /\ Writing(v, s)' => u = v
        /\ \A p, q \in Readers, s \in Slots : Reading(p, s)' /\ Reading(q, s)' => p = q
    BY <2>3, <2>4 DEF SlotOwnership
  <2>10. QED
    BY <2>7, <2>8, <2>9 DEF SlotOwnership
<1>5. CASE KeepsOwners
  BY <1>5, KeepsOwnership
<1>6. QED
  BY <1>1, <1>2, <1>3, <1>4, <1>5, QuietSteps DEF Next, WriterStep, ReaderStep

\* Two processes are never inside one slot, and a busy slot has an owner.
THEOREM Ownership == Spec => []SlotOwnership
<1>1. Init => SlotOwnership
  BY DEF Init, SlotOwnership, Writing, Reading
<1>2. QED
  BY <1>1, TypeInit, TypeStep, OwnershipStep, PTL DEF Spec

------------------------------------------------------------------------------
(* Whole frames, and the box exchange of FrameExchange.                     *)

\* Drawing and publishing keep the pixels of the slots that readers can reach.
LEMMA PixelsStep ==
  TypeOK /\ LocalsOK /\ SlotOwnership /\ WholeFrames /\ DrawnFrames /\ [Next]_vars
    => WholeFrames' /\ DrawnFrames'
<1> SUFFICES ASSUME TypeOK, LocalsOK, SlotOwnership, WholeFrames, DrawnFrames,
                    [Next]_vars
             PROVE  WholeFrames' /\ DrawnFrames'
  OBVIOUS
<1> USE DEF TypeOK, WholeFrames, DrawnFrames
<1>1. ASSUME NEW w \in Writers,
             AcquireWriteSlot(w) \/ BumpCursor(w) \/ ClaimTaken(w) \/ GiveUpFrame(w)
      PROVE  WholeFrames' /\ DrawnFrames'
  BY <1>1 DEF AcquireWriteSlot, BumpCursor, ClaimTaken, GiveUpFrame, ReturnToCaller,
              AtWriter, region
<1>2. ASSUME NEW w \in Writers, ClaimFree(w) PROVE WholeFrames' /\ DrawnFrames'
  BY <1>2 DEF ClaimFree, AtWriter
<1>3. ASSUME NEW w \in Writers, BeginDrawing(w) PROVE WholeFrames' /\ DrawnFrames'
  <2>1. wslot[w] \in Slots /\ Writing(w, wslot[w]) /\ state[wslot[w]] = "WRITING"
    BY <1>3 DEF BeginDrawing, AtWriter, Writing, SlotOwnership
  <2>2. \A v \in Writers : v # w /\ wpc[v] = "drawn" => wslot[v] # wslot[w]
    BY <2>1 DEF Writing, SlotOwnership
  <2>3. QED
    BY <1>3, <2>1, <2>2 DEF BeginDrawing, AtWriter
<1>4. ASSUME NEW w \in Writers, NEW f \in Frames, EndDrawing(w, f)
      PROVE  WholeFrames' /\ DrawnFrames'
  <2>1. wslot[w] \in Slots /\ Writing(w, wslot[w]) /\ state[wslot[w]] = "WRITING"
    BY <1>4 DEF EndDrawing, AtWriter, Writing, SlotOwnership
  <2>2. \A v \in Writers : v # w /\ wpc[v] = "drawn" => wslot[v] # wslot[w]
    BY <2>1 DEF Writing, SlotOwnership
  <2>3. QED
    BY <1>4, <2>1, <2>2 DEF EndDrawing, AtWriter
<1>5. ASSUME NEW w \in Writers, PublishSlot(w) PROVE WholeFrames' /\ DrawnFrames'
  <2>1. pixels[wslot[w]] \in Frames
    BY <1>5 DEF PublishSlot, AtWriter
  <2>2. wslot[w] \in Slots /\ state[wslot[w]] = "WRITING"
    BY <1>5 DEF PublishSlot, AtWriter, Writing, SlotOwnership
  <2>3. /\ state' = [state EXCEPT ![wslot[w]] = "READY"]
        /\ wpc' = [wpc EXCEPT ![w] = "stores"]
        /\ UNCHANGED <<pixels, wslot, drawn>>
    BY <1>5, <2>2 DEF PublishSlot
  <2>4. QED
    BY <2>1, <2>3
<1>6. ASSUME NEW w \in Writers, NEW x \in Fields, StoreField(w, x)
      PROVE  WholeFrames' /\ DrawnFrames'
  BY <1>6 DEF StoreField, AtWriter
<1>7. ASSUME NEW w \in Writers, BumpGeneration(w) PROVE WholeFrames' /\ DrawnFrames'
  BY <1>7 DEF BumpGeneration, ReturnToCaller, AtWriter
<1>8. ASSUME NEW r \in Readers,
             \/ \E t \in Timeouts : WaitForReady(r, t)
             \/ SkipSlot(r) \/ PollAgain(r) \/ TimeOut(r)
      PROVE  WholeFrames' /\ DrawnFrames'
  BY <1>8 DEF WaitForReady, SkipSlot, PollAgain, TimeOut, region, wlocal
<1>9. ASSUME NEW r \in Readers, TakeReady(r) PROVE WholeFrames' /\ DrawnFrames'
  BY <1>9 DEF TakeReady, wlocal
<1>10. ASSUME NEW r \in Readers, ReleaseReadSlot(r) PROVE WholeFrames' /\ DrawnFrames'
  BY <1>10 DEF ReleaseReadSlot, wlocal
<1>11. ASSUME NEW p \in MayCrash, Crash(p) PROVE WholeFrames' /\ DrawnFrames'
  BY <1>11 DEF Crash, region, wlocal
<1>12. CASE UNCHANGED vars
  BY <1>12 DEF vars, region, wlocal
<1>13. QED
  BY <1>1, <1>2, <1>3, <1>4, <1>5, <1>6, <1>7, <1>8, <1>9, <1>10, <1>11, <1>12
     DEF Next, WriterStep, ReaderStep

LEMMA InvInit == Init => ExchangeInv
<1>1. Init => SlotOwnership /\ WholeFrames /\ DrawnFrames
  BY DEF Init, SlotOwnership, Writing, Reading, WholeFrames, DrawnFrames
<1>2. QED
  BY <1>1, TypeInit DEF ExchangeInv

LEMMA InvStep == ExchangeInv /\ [Next]_vars => ExchangeInv'
  BY TypeStep, OwnershipStep, PixelsStep DEF ExchangeInv

\* A reader is never given, and never uses, a half-drawn frame.
THEOREM ReadersSeeWholeFrames == Spec => []WholeFrames
<1>1. ExchangeInv => WholeFrames
  BY DEF ExchangeInv
<1>2. QED
  BY <1>1, InvInit, InvStep, PTL DEF Spec

\* A step that changes no published pixels, no slot state and no reader's slot
\* is invisible to the exchange.
LEMMA InvisibleStep ==
  ASSUME ExchangeInv, state' = state, rpc' = rpc,
         \A r \in Readers : rpc[r] = "held" => rslot'[r] = rslot[r],
         \A s \in Slots : state[s] \in {"READY", "READING"} => pixels'[s] = pixels[s]
  PROVE  Box' = Box /\ Held' = Held
<1>1. \A s \in Slots : Box'[s] = Box[s]
  BY DEF Box
<1>2. \A r \in Readers : rpc[r] = "held" =>
        rslot[r] \in Slots /\ state[rslot[r]] = "READING"
  BY DEF ExchangeInv, LocalsOK, SlotOwnership, Reading
<1>3. \A r \in Readers : Held'[r] = Held[r]
  BY <1>2 DEF Held
<1>4. QED
  BY <1>1, <1>3 DEF Box, Held

LEMMA ExchangeStep == ExchangeInv /\ [Next]_vars => [Exchange!Next]_(Exchange!vars)
<1> SUFFICES ASSUME ExchangeInv, [Next]_vars
             PROVE  Exchange!Next \/ (Box' = Box /\ Held' = Held)
  BY DEF Exchange!vars
<1>1. ASSUME NEW w \in Writers, PublishSlot(w) PROVE Exchange!Next
  <2> DEFINE s == wslot[w]
  <2>1. s \in Slots /\ wpc[w] = "drawn" /\ state[s] = "WRITING" /\ pixels[s] \in Frames
    BY <1>1 DEF PublishSlot, AtWriter, ExchangeInv, TypeOK, SlotOwnership, Writing,
                DrawnFrames
  <2>2. /\ state' = [state EXCEPT ![s] = "READY"]
        /\ UNCHANGED <<pixels, rpc, rslot>>
    BY <1>1, <2>1 DEF PublishSlot, rlocal
  <2>3. Box[s] = Empty
    BY <2>1 DEF Box
  <2>4. Box' = [Box EXCEPT ![s] = pixels[s]]
    BY <2>1, <2>2 DEF Box, ExchangeInv, TypeOK
  <2>5. Held' = Held
    BY <2>2 DEF Held
  <2>6. QED
    BY <2>1, <2>3, <2>4, <2>5 DEF Exchange!Next, Exchange!Put
<1>2. ASSUME NEW r \in Readers, TakeReady(r) PROVE Exchange!Next
  <2> DEFINE s == rslot[r]
  <2>1. /\ s \in Slots /\ rpc[r] = "scan" /\ state[s] = "READY"
        /\ state' = [state EXCEPT ![s] = "READING"]
        /\ rpc' = [rpc EXCEPT ![r] = "held"]
        /\ UNCHANGED <<pixels, rslot>>
    BY <1>2 DEF TakeReady, AtReader
  <2>2. pixels[s] \in Frames
    BY <2>1 DEF ExchangeInv, WholeFrames
  <2>3. Box[s] = pixels[s] /\ Box[s] # Empty /\ Held[r] = Empty
    BY <2>1, <2>2, FrameAssumption DEF Box, Held
  <2>4. Box' = [Box EXCEPT ![s] = Empty]
    BY <2>1 DEF Box, ExchangeInv, TypeOK
  <2>5. Held' = [Held EXCEPT ![r] = Box[s]]
    BY <2>1, <2>3 DEF Held, ExchangeInv, TypeOK
  <2>6. QED
    BY <2>1, <2>3, <2>4, <2>5 DEF Exchange!Next, Exchange!Take
<1>3. ASSUME NEW r \in Readers, ReleaseReadSlot(r) PROVE Exchange!Next
  <2> DEFINE s == rslot[r]
  <2>1. s \in Slots /\ rpc[r] = "held" /\ state[s] = "READING"
    BY <1>3 DEF ReleaseReadSlot, AtReader, ExchangeInv, LocalsOK, SlotOwnership, Reading
  <2>2. /\ state' = [state EXCEPT ![s] = "FREE"]
        /\ rpc' = [rpc EXCEPT ![r] = "idle"]
        /\ rslot' = [rslot EXCEPT ![r] = 0]
        /\ pixels' = pixels
    BY <1>3, <2>1 DEF ReleaseReadSlot
  <2>3. pixels[s] \in Frames
    BY <2>1 DEF ExchangeInv, WholeFrames
  <2>4. Held[r] # Empty
    BY <2>1, <2>3, FrameAssumption DEF Held
  <2>5. Box' = Box
    BY <2>1, <2>2 DEF Box, ExchangeInv, TypeOK
  <2>6. Held' = [Held EXCEPT ![r] = Empty]
    BY <2>1, <2>2 DEF Held, ExchangeInv, TypeOK
  <2>7. QED
    BY <2>4, <2>5, <2>6 DEF Exchange!Next, Exchange!GiveBack
<1>4. ASSUME NEW w \in Writers, ClaimFree(w) PROVE Box' = Box /\ Held' = Held
  <2>1. /\ wslot[w] \in Slots /\ state[wslot[w]] = "FREE"
        /\ state' = [state EXCEPT ![wslot[w]] = "WRITING"]
        /\ UNCHANGED <<pixels, rpc, rslot>>
    BY <1>4 DEF ClaimFree, rlocal, ExchangeInv, TypeOK
  <2>2. QED
    BY <2>1 DEF Box, Held, ExchangeInv, TypeOK
<1>5. ASSUME NEW w \in Writers, BeginDrawing(w) \/ \E f \in Frames : EndDrawing(w, f)
      PROVE  Box' = Box /\ Held' = Held
  <2>1. wslot[w] \in Slots /\ state[wslot[w]] = "WRITING"
    BY <1>5 DEF BeginDrawing, EndDrawing, AtWriter, ExchangeInv, TypeOK, SlotOwnership,
                Writing
  <2>2. /\ UNCHANGED <<state, rpc, rslot>>
        /\ \A s \in Slots : s # wslot[w] => pixels'[s] = pixels[s]
    BY <1>5 DEF BeginDrawing, EndDrawing, rlocal, ExchangeInv, TypeOK
  <2>3. QED
    BY <2>1, <2>2, InvisibleStep
<1>6. ASSUME NEW w \in Writers,
             \/ AcquireWriteSlot(w) \/ BumpCursor(w) \/ ClaimTaken(w) \/ GiveUpFrame(w)
             \/ BumpGeneration(w) \/ \E x \in Fields : StoreField(w, x)
      PROVE  Box' = Box /\ Held' = Held
  BY <1>6, InvisibleStep DEF AcquireWriteSlot, BumpCursor, ClaimTaken, GiveUpFrame,
     BumpGeneration, StoreField, region, rlocal
<1>7. ASSUME NEW r \in Readers,
             \/ \E t \in Timeouts : WaitForReady(r, t)
             \/ SkipSlot(r) \/ PollAgain(r) \/ TimeOut(r)
      PROVE  Box' = Box /\ Held' = Held
  <2>1. /\ rpc[r] # "held"
        /\ rpc' = [rpc EXCEPT ![r] = rpc'[r]] /\ rpc'[r] # "held"
        /\ \A q \in Readers : q # r => rslot'[q] = rslot[q]
        /\ UNCHANGED <<state, pixels>>
    BY <1>7 DEF WaitForReady, SkipSlot, PollAgain, TimeOut, AtReader, region, ExchangeInv,
                TypeOK
  <2>2. QED
    BY <2>1 DEF Box, Held, ExchangeInv, TypeOK
<1>8. ASSUME NEW p \in MayCrash, Crash(p) PROVE Box' = Box /\ Held' = Held
  BY <1>8, InvisibleStep DEF Crash, region, rlocal
<1>9. CASE UNCHANGED vars
  BY <1>9, InvisibleStep DEF vars, region, rlocal
<1>10. QED
  BY <1>1, <1>2, <1>3, <1>4, <1>5, <1>6, <1>7, <1>8, <1>9
     DEF Next, WriterStep, ReaderStep

\* The slot table implements the box exchange.
THEOREM ImplementsExchange == Spec => ExchangeSpec
<1>1. Init => Exchange!Init
  BY DEF Init, Exchange!Init, Box, Held
<1>2. QED
  BY <1>1, InvInit, InvStep, ExchangeStep, PTL DEF Spec, ExchangeSpec, Exchange!Spec

------------------------------------------------------------------------------
(* The metadata of a settled slot, when there is one publisher.             *)

OnePublisher == \A v, w \in Writers : v = w

\* Settled(s): nobody is storing metadata in slot s.
Settled(s) == \A w \in Writers : ~Announcing(w, s)

\* A publisher at its stores is the only one to have drawn in its slot; words it
\* has stored are those of what it drew.
MetaInv ==
  /\ \A w \in Writers :
       wpc[w] \in Publishing =>
         /\ pixels[wslot[w]] = drawn[w]
         /\ \A x \in Fields \ todo[w] : meta[wslot[w]][x] = drawn[w]
         /\ wpc[w] = "count" => todo[w] = {}
  /\ \A s \in Slots :
       state[s] \in {"READY", "READING"} /\ Settled(s) =>
         \A x \in Fields : meta[s][x] = pixels[s]

LEMMA MetaInit == Init => MetaInv
BY SlotAssumption DEF Init, MetaInv

\* Steps that leave alone what the invariant speaks of, or only take slots.
LEMMA MetaUntouched ==
  ASSUME MetaInv, UNCHANGED <<meta, pixels, wslot, todo, drawn>>,
         \A w \in Writers : wpc'[w] \in Publishing <=> wpc[w] \in Publishing,
         \A w \in Writers : wpc'[w] = "count" => wpc[w] = "count",
         \A s \in Slots : state'[s] \in {"READY", "READING"} =>
                            state[s] \in {"READY", "READING"}
  PROVE  MetaInv'
BY DEF MetaInv, Settled, Announcing

LEMMA MetaWriter ==
  ASSUME OnePublisher, ExchangeInv, MetaInv, NEW w \in Writers,
         AcquireWriteSlot(w) \/ WriterStep(w)
  PROVE  MetaInv'
<1>1. TypeOK /\ \A v \in Writers : v = w
  BY DEF ExchangeInv, OnePublisher
<1>2. CASE AcquireWriteSlot(w)
  BY <1>1, <1>2, MetaUntouched DEF AcquireWriteSlot, AtWriter, region, TypeOK
<1>3. CASE BumpCursor(w)
  BY <1>1, <1>3 DEF BumpCursor, AtWriter, TypeOK, MetaInv, Settled, Announcing
<1>4. CASE ClaimFree(w)
  BY <1>1, <1>4, MetaUntouched DEF ClaimFree, AtWriter, TypeOK
<1>5. CASE ClaimTaken(w)
  BY <1>1, <1>5, MetaUntouched DEF ClaimTaken, AtWriter, region, TypeOK
<1>6. CASE GiveUpFrame(w)
  BY <1>1, <1>6 DEF GiveUpFrame, ReturnToCaller, AtWriter, region, TypeOK, MetaInv, Settled,
     Announcing
<1>7. CASE BeginDrawing(w) \/ \E f \in Frames : EndDrawing(w, f)
  <2>1. Writing(w, wslot[w]) /\ state[wslot[w]] = "WRITING" /\ wslot[w] \in Slots
    BY <1>1, <1>7 DEF BeginDrawing, EndDrawing, AtWriter, Writing, ExchangeInv, SlotOwnership,
       TypeOK
  <2>2. /\ wpc'[w] \notin Publishing /\ UNCHANGED <<state, meta, wslot>>
        /\ wpc[w] \notin Publishing
        /\ \A s \in Slots : s # wslot[w] => pixels'[s] = pixels[s]
    BY <1>1, <1>7 DEF BeginDrawing, EndDrawing, AtWriter, TypeOK
  <2> QED BY <1>1, <2>1, <2>2 DEF MetaInv, Settled, Announcing
<1>8. CASE PublishSlot(w)
  <2>1. Writing(w, wslot[w]) /\ state[wslot[w]] = "WRITING" /\ wslot[w] \in Slots
        /\ pixels[wslot[w]] = drawn[w]
    BY <1>1, <1>8 DEF PublishSlot, AtWriter, Writing, ExchangeInv, SlotOwnership, DrawnFrames,
       TypeOK
  <2>2. /\ wpc'[w] = "stores" /\ todo'[w] = Fields
        /\ UNCHANGED <<meta, pixels, wslot, drawn>>
        /\ \A s \in Slots : s # wslot[w] => state'[s] = state[s]
        /\ wpc[w] \notin Publishing
    BY <1>1, <1>8, <2>1 DEF PublishSlot, AtWriter, TypeOK
  <2> QED BY <1>1, <2>1, <2>2 DEF MetaInv, Settled, Announcing
<1>9. ASSUME NEW x \in Fields, StoreField(w, x) PROVE MetaInv'
  <2>1. /\ wslot[w] \in Slots /\ wpc[w] = "stores"
        /\ UNCHANGED <<state, pixels, wslot, drawn>>
        /\ todo'[w] = todo[w] \ {x}
        /\ wpc'[w] \in {"stores", "count"} /\ (wpc'[w] = "count" => todo'[w] = {})
        /\ meta'[wslot[w]][x] = drawn[w]
        /\ \A y \in Fields : y # x => meta'[wslot[w]][y] = meta[wslot[w]][y]
        /\ \A s \in Slots : s # wslot[w] => meta'[s] = meta[s]
    BY <1>1, <1>9 DEF StoreField, AtWriter, TypeOK
  <2> QED BY <1>1, <2>1 DEF MetaInv, Settled, Announcing
<1>10. CASE BumpGeneration(w)
  <2>1. /\ wslot[w] \in Slots /\ wpc[w] = "count" /\ wpc'[w] = "idle"
        /\ UNCHANGED <<state, meta, pixels>>
    BY <1>1, <1>10 DEF BumpGeneration, ReturnToCaller, AtWriter, TypeOK
  <2> QED BY <1>1, <2>1 DEF MetaInv, Settled, Announcing
<1> QED BY <1>2, <1>3, <1>4, <1>5, <1>6, <1>7, <1>8, <1>9, <1>10 DEF WriterStep

LEMMA MetaStep == OnePublisher /\ ExchangeInv /\ MetaInv /\ [Next]_vars => MetaInv'
<1> SUFFICES ASSUME OnePublisher, ExchangeInv, MetaInv, [Next]_vars PROVE MetaInv'
  OBVIOUS
<1>1. ASSUME NEW r \in Readers, ReaderStep(r) PROVE MetaInv'
  <2>1. /\ UNCHANGED <<meta, pixels, wpc, wslot, todo, drawn>>
        /\ \A s \in Slots : state'[s] \in {"READY", "READING"} =>
                              state[s] \in {"READY", "READING"}
    <3>1. UNCHANGED <<meta, pixels, wpc, wslot, todo, drawn>>
      BY <1>1 DEF ReaderStep, WaitForReady, TakeReady, SkipSlot, PollAgain, TimeOut,
         ReleaseReadSlot, region, wlocal
    <3>2. UNCHANGED state \/ TakeReady(r) \/ ReleaseReadSlot(r)
      BY <1>1 DEF ReaderStep, WaitForReady, SkipSlot, PollAgain, TimeOut, region
    <3> QED BY <3>1, <3>2 DEF TakeReady, ReleaseReadSlot, ExchangeInv, TypeOK
  <2> QED BY <2>1, MetaUntouched
<1>2. ASSUME NEW p \in MayCrash, Crash(p) PROVE MetaInv'
  BY <1>2, MetaUntouched DEF Crash, region, wlocal
<1>3. CASE UNCHANGED vars
  BY <1>3, MetaUntouched DEF vars, region, wlocal
<1> QED BY <1>1, <1>2, <1>3, MetaWriter DEF Next

\* qmv_shm_sync_get_slot_info tells the truth of settled slots: with one publisher,
\* the words of a slot a reader holds are those of its frame, for any number of words,
\* slots, readers and crashes.
THEOREM SettledMetadata == OnePublisher => (Spec => []MetadataSettled)
<1> SUFFICES ASSUME OnePublisher PROVE Spec => []MetadataSettled
  OBVIOUS
<1>1. ExchangeInv /\ MetaInv => MetadataSettled
  BY DEF ExchangeInv, SlotOwnership, MetaInv, MetadataSettled, SlotInfo, Settled
<1>2. ExchangeInv /\ MetaInv /\ [Next]_vars => ExchangeInv' /\ MetaInv'
  BY InvStep, MetaStep
<1> QED BY <1>1, <1>2, InvInit, MetaInit, PTL DEF Spec

------------------------------------------------------------------------------
(* A full table.  The cursor of one publisher goes round the table, also    *)
(* when it wraps, and the n-th attempt of a call looks at the n-th slot of  *)
(* the round.                                                               *)

EvenRounds == \E m \in Nat : CursorMod = SlotCount * m

\* The slots of the first n attempts of a call that began at slot h.
Seen(h, n) == {Ahead(SlotCount, h, i) : i \in 0 .. n - 1}

\* What a call that began at slot h has done so far.
Round(w, h) ==
  /\ tried[w] = Seen(h, attempt[w])
  /\ wpc[w] = "bump" => cursor % SlotCount = Ahead(SlotCount, h, attempt[w])
  /\ wpc[w] = "cas" => /\ wslot[w] = Ahead(SlotCount, h, attempt[w])
                       /\ cursor % SlotCount = Ahead(SlotCount, h, attempt[w] + 1)

Trying == {"bump", "cas", "full"}

RoundInv ==
  \A w \in Writers :
    /\ wpc[w] \notin Trying => tried[w] = {} /\ attempt[w] = 0
    /\ wpc[w] \in Trying => \E h \in Slots : Round(w, h)
    /\ wpc[w] = "full" => attempt[w] = SlotCount

LEMMA RoundInit == Init => RoundInv
BY DEF Init, RoundInv, Trying

LEMMA RoundUntouched ==
  ASSUME RoundInv, UNCHANGED <<wpc, tried, attempt, wslot, cursor>>
  PROVE  RoundInv'
BY DEF RoundInv, Round

LEMMA NothingSeen == \A h \in Slots : Seen(h, 0) = {}
BY DEF Seen

LEMMA OneMoreSeen ==
  ASSUME NEW h \in Slots, NEW n \in 0 .. SlotCount - 1
  PROVE  Seen(h, n + 1) = Seen(h, n) \cup {Ahead(SlotCount, h, n)}
<1>1. 0 .. (n + 1) - 1 = (0 .. n - 1) \cup {n}
  BY SlotAssumption
<1> QED BY <1>1, Zenon DEF Seen

LEMMA AllSeen == \A h \in Slots : Seen(h, SlotCount) = Slots
<1> SUFFICES ASSUME NEW h \in Slots PROVE Seen(h, SlotCount) = Slots
  OBVIOUS
<1>1. \A i \in 0 .. SlotCount - 1 : Ahead(SlotCount, h, i) \in Slots
  <2>1. \A i \in 0 .. SlotCount - 1 : i \in 0 .. SlotCount
    BY SlotAssumption
  <2> QED BY <2>1, SlotAssumption, Wraps
<1>2. \A s \in Slots : \E i \in 0 .. SlotCount - 1 : Ahead(SlotCount, h, i) = s
  BY SlotAssumption, Reached
<1> QED BY <1>1, <1>2, Zenon DEF Seen

LEMMA RoundWriter ==
  ASSUME OnePublisher, EvenRounds, TypeOK, LocalsOK, RoundInv, NEW w \in Writers,
         AcquireWriteSlot(w) \/ WriterStep(w)
  PROVE  RoundInv'
<1>1. \A v \in Writers : v = w
  BY DEF OnePublisher
<1> SUFFICES /\ wpc'[w] \notin Trying => tried'[w] = {} /\ attempt'[w] = 0
             /\ wpc'[w] \in Trying => \E h \in Slots : Round(w, h)'
             /\ wpc'[w] = "full" => attempt'[w] = SlotCount
  BY <1>1 DEF RoundInv
<1>2. CASE AcquireWriteSlot(w)
  <2>1. PICK h \in Slots : h = cursor % SlotCount
    BY SlotAssumption, CursorInRange DEF TypeOK
  <2>2. wpc'[w] = "bump" /\ UNCHANGED <<tried, attempt, cursor>> /\ tried[w] = {} /\ attempt[w] = 0
    BY <1>2 DEF AcquireWriteSlot, AtWriter, TypeOK, region, RoundInv, Trying
  <2>3. Ahead(SlotCount, h, 0) = h
    BY SlotAssumption, Ends
  <2>4. Round(w, h)'
    BY <2>1, <2>2, <2>3, NothingSeen DEF Round
  <2> QED BY <2>2, <2>4
<1>3. CASE BumpCursor(w)
  <2>1. PICK h \in Slots : Round(w, h)
    BY <1>3 DEF BumpCursor, AtWriter, RoundInv, Trying
  <2>2. /\ wpc[w] = "bump" /\ wpc'[w] = "cas" /\ UNCHANGED <<tried, attempt>>
        /\ wslot'[w] = cursor % SlotCount /\ cursor' = (cursor + 1) % CursorMod
    BY <1>3 DEF BumpCursor, AtWriter, TypeOK
  <2>3. attempt[w] \in 0 .. SlotCount - 1
    BY <2>2, SlotAssumption DEF TypeOK, LocalsOK
  <2>4. cursor' % SlotCount = Ahead(SlotCount, cursor % SlotCount, 1)
    BY <2>2, SlotAssumption, CounterAssumption, CounterGoesRound DEF EvenRounds, TypeOK
  <2>5. cursor % SlotCount = Ahead(SlotCount, h, attempt[w])
    BY <2>1, <2>2 DEF Round
  <2>6. cursor' % SlotCount = Ahead(SlotCount, h, attempt[w] + 1)
    BY <2>3, <2>4, <2>5, SlotAssumption, Shifts
  <2>7. Round(w, h)'
    BY <2>1, <2>2, <2>5, <2>6 DEF Round
  <2> QED BY <2>2, <2>7 DEF Trying
<1>4. CASE ClaimFree(w)
  BY <1>4 DEF ClaimFree, AtWriter, TypeOK, Trying
<1>5. CASE ClaimTaken(w)
  <2>1. PICK h \in Slots : Round(w, h)
    BY <1>5 DEF ClaimTaken, AtWriter, RoundInv, Trying
  <2>2. /\ wpc[w] = "cas" /\ UNCHANGED <<wslot, cursor>>
        /\ tried'[w] = tried[w] \cup {wslot[w]} /\ attempt'[w] = attempt[w] + 1
        /\ wpc'[w] = IF attempt[w] + 1 < SlotCount THEN "bump" ELSE "full"
    BY <1>5 DEF ClaimTaken, AtWriter, TypeOK, region
  <2>3. attempt[w] \in 0 .. SlotCount - 1
    BY <2>2, SlotAssumption DEF TypeOK, LocalsOK
  <2>4. tried'[w] = Seen(h, attempt[w] + 1)
    BY <2>1, <2>2, <2>3, OneMoreSeen DEF Round
  <2>5. Round(w, h)'
    BY <2>1, <2>2, <2>4 DEF Round
  <2>6. wpc'[w] = "full" => attempt'[w] = SlotCount
    BY <2>2, <2>3, SlotAssumption
  <2> QED BY <2>2, <2>5, <2>6 DEF Trying
<1>6. CASE GiveUpFrame(w)
  BY <1>6 DEF GiveUpFrame, ReturnToCaller, AtWriter, TypeOK, Trying
<1>7. CASE PublishSlot(w)
  BY <1>7 DEF PublishSlot, ReturnToCaller, AtWriter, TypeOK, RoundInv, Trying
<1>8. CASE \/ BeginDrawing(w) \/ (\E f \in Frames : EndDrawing(w, f))
           \/ (\E x \in Fields : StoreField(w, x))
  BY <1>8 DEF BeginDrawing, EndDrawing, StoreField, AtWriter, TypeOK, RoundInv, Trying
<1>9. CASE BumpGeneration(w)
  BY <1>9 DEF BumpGeneration, ReturnToCaller, AtWriter, TypeOK, Trying
<1> QED BY <1>2, <1>3, <1>4, <1>5, <1>6, <1>7, <1>8, <1>9 DEF WriterStep

LEMMA RoundStep ==
  OnePublisher /\ EvenRounds /\ TypeOK /\ LocalsOK /\ RoundInv /\ [Next]_vars => RoundInv'
<1> SUFFICES ASSUME OnePublisher, EvenRounds, TypeOK, LocalsOK, RoundInv, [Next]_vars
             PROVE  RoundInv'
  OBVIOUS
<1>1. ASSUME NEW r \in Readers, ReaderStep(r) PROVE RoundInv'
  BY <1>1, RoundUntouched DEF ReaderStep, WaitForReady, TakeReady, SkipSlot, PollAgain, TimeOut,
     ReleaseReadSlot, region, wlocal
<1>2. ASSUME NEW p \in MayCrash, Crash(p) PROVE RoundInv'
  BY <1>2, RoundUntouched DEF Crash, region, wlocal
<1>3. CASE UNCHANGED vars
  BY <1>3, RoundUntouched DEF vars, region, wlocal
<1> QED BY <1>1, <1>2, <1>3, RoundWriter DEF Next

\* qmv_shm_sync_acquire_write_slot says "full" only after every slot was found taken: with
\* one publisher and a number of slots that divides the cursor's modulus, however many
\* slots there are and wherever the cursor stands or wraps.
THEOREM FullIsSeen == OnePublisher /\ EvenRounds => (Spec => []FullTableSeen)
<1> SUFFICES ASSUME OnePublisher, EvenRounds PROVE Spec => []FullTableSeen
  OBVIOUS
<1>1. RoundInv => FullTableSeen
  BY AllSeen DEF RoundInv, Round, FullTableSeen, Trying
<1>2. TypeOK /\ LocalsOK /\ RoundInv /\ [Next]_vars => TypeOK' /\ LocalsOK' /\ RoundInv'
  BY TypeStep, RoundStep
<1> QED BY <1>1, <1>2, TypeInit, RoundInit, PTL DEF Spec

------------------------------------------------------------------------------
(* Generations.  Each publisher that has made its slot READY owes it one    *)
(* increment; the counters wrap, the debt does not get lost.                *)

Announcers(s) == {w \in Writers : Announcing(w, s)}

CountInv == GenerationCounts /\ \A s \in Slots : IsFiniteSet(Announcers(s))

LEMMA CountInit == Init => CountInv
<1> SUFFICES ASSUME Init, NEW s \in Slots
             PROVE  /\ IsFiniteSet(Announcers(s))
                    /\ (generation[s] + Cardinality(Announcers(s))) % GenMod = published[s]
  BY DEF CountInv, GenerationCounts, Announcers
<1>1. Announcers(s) = {} /\ generation[s] = 0 /\ published[s] = 0
  BY DEF Init, Announcers, Announcing
<1>2. IsFiniteSet({}) /\ Cardinality({}) = 0
  BY FS_EmptySet
<1>3. 0 + 0 = GenMod * 0 + 0 /\ 0 \in 0 .. GenMod - 1 /\ 0 + 0 = 0
  BY CounterAssumption
<1>4. (0 + 0) % GenMod = 0
  BY <1>3, CounterAssumption, RemainderIs
<1> QED BY <1>1, <1>2, <1>4, Zenon

LEMMA CountUntouched ==
  ASSUME CountInv, UNCHANGED <<generation, published>>,
         \A w \in Writers, s \in Slots : Announcing(w, s)' <=> Announcing(w, s)
  PROVE  CountInv'
<1>1. \A s \in Slots : Announcers(s)' = Announcers(s)
  BY DEF Announcers
<1> QED BY <1>1 DEF CountInv, GenerationCounts, Announcers

\* One slot has one announcer more and one publication more ...
LEMMA PublishCounts ==
  ASSUME TypeOK, CountInv, NEW w \in Writers, PublishSlot(w), state[wslot[w]] = "WRITING"
  PROVE  CountInv'
<1> PICK s \in Slots : s = wslot[w]
  BY DEF TypeOK
<1>1. /\ wslot[w] = s /\ generation' = generation /\ wslot' = wslot
      /\ published' = [published EXCEPT ![s] = (@ + 1) % GenMod]
      /\ wpc[w] = "drawn" /\ wpc' = [wpc EXCEPT ![w] = "stores"]
  BY DEF PublishSlot, AtWriter, TypeOK
<1>2. w \notin Announcers(s) /\ Announcers(s)' = Announcers(s) \cup {w}
  BY <1>1 DEF Announcers, Announcing, TypeOK
<1>3. \A t \in Slots \ {s} : Announcers(t)' = Announcers(t) /\ published'[t] = published[t]
  BY <1>1 DEF Announcers, Announcing, TypeOK
<1>4. PICK d \in Nat : d = Cardinality(Announcers(s))
  BY <1>1, FS_CardinalityType DEF CountInv
<1>5. IsFiniteSet(Announcers(s)') /\ Cardinality(Announcers(s)') = d + 1
  BY <1>1, <1>2, <1>4, FS_AddElement DEF CountInv
<1>6. PICK g \in 0 .. GenMod - 1, p \in 0 .. GenMod - 1 :
        g = generation[s] /\ p = published[s]
  BY <1>1 DEF TypeOK
<1>7. (g + d) % GenMod = p
  BY <1>1, <1>4, <1>6, Zenon DEF CountInv, GenerationCounts, Announcers
<1>8. PICK c \in Nat : c = g + d
  BY CounterAssumption
<1>9. (c + 1) % GenMod = ((c % GenMod) + 1) % GenMod
  BY CounterAssumption, RemainderGoesRound, Zenon DEF Ahead
<1>10. c + 1 = g + (d + 1)
  BY <1>8, CounterAssumption
<1>11. (g + (d + 1)) % GenMod = (p + 1) % GenMod
  BY <1>7, <1>8, <1>9, <1>10, Zenon
<1>12. generation'[s] = g /\ published'[s] = (p + 1) % GenMod
  BY <1>1, <1>6 DEF TypeOK
<1>13. (generation'[s] + Cardinality(Announcers(s)')) % GenMod = published'[s]
  BY <1>5, <1>11, <1>12, Zenon
<1>14. \A t \in Slots \ {s} :
         /\ IsFiniteSet(Announcers(t)')
         /\ (generation'[t] + Cardinality(Announcers(t)')) % GenMod = published'[t]
  BY <1>1, <1>3, Zenon DEF CountInv, GenerationCounts, Announcers
<1>15. ASSUME NEW t \in Slots
       PROVE  /\ IsFiniteSet(Announcers(t)')
              /\ (generation'[t] + Cardinality(Announcers(t)')) % GenMod = published'[t]
  <2>1. CASE t = s
    BY <1>5, <1>13, <2>1, Zenon
  <2>2. CASE t # s
    BY <1>14, <2>2, Zenon
  <2> QED BY <2>1, <2>2
<1> QED BY <1>15, Zenon DEF CountInv, GenerationCounts, Announcers

\* ... or one less and one increment more.
LEMMA BumpCounts ==
  ASSUME TypeOK, CountInv, NEW w \in Writers, BumpGeneration(w)
  PROVE  CountInv'
<1> PICK s \in Slots : s = wslot[w]
  BY DEF TypeOK
<1>1. /\ wslot[w] = s /\ generation' = [generation EXCEPT ![s] = (@ + 1) % GenMod]
      /\ published' = published /\ wslot' = [wslot EXCEPT ![w] = 0]
      /\ wpc[w] = "count" /\ wpc' = [wpc EXCEPT ![w] = "idle"]
  BY DEF BumpGeneration, ReturnToCaller, AtWriter, TypeOK
<1>2. w \in Announcers(s) /\ Announcers(s)' = Announcers(s) \ {w}
  <2>1. Announcing(w, s) /\ ~Announcing(w, s)'
    BY <1>1 DEF Announcing, TypeOK
  <2>2. \A v \in Writers \ {w} : Announcing(v, s)' <=> Announcing(v, s)
    BY <1>1 DEF Announcing, TypeOK
  <2> QED BY <2>1, <2>2, Zenon DEF Announcers
<1>3. \A t \in Slots \ {s} : Announcers(t)' = Announcers(t) /\ generation'[t] = generation[t]
  BY <1>1 DEF Announcers, Announcing, TypeOK
<1>4. /\ IsFiniteSet(Announcers(s)') /\ Cardinality(Announcers(s)') \in Nat
      /\ Cardinality(Announcers(s)) = Cardinality(Announcers(s)') + 1
  <2>1. IsFiniteSet(Announcers(s))
    BY <1>1 DEF CountInv
  <2>2. /\ IsFiniteSet(Announcers(s) \ {w})
        /\ Cardinality(Announcers(s) \ {w}) = Cardinality(Announcers(s)) - 1
    BY <1>2, <2>1, FS_RemoveElement
  <2>3. Cardinality(Announcers(s)) \in Nat /\ Cardinality(Announcers(s) \ {w}) \in Nat
    BY <2>1, <2>2, FS_CardinalityType
  <2> QED BY <1>2, <2>2, <2>3
<1>5. PICK d \in Nat : d = Cardinality(Announcers(s)')
  BY <1>4
<1>6. PICK g \in 0 .. GenMod - 1 : g = generation[s]
  BY <1>1 DEF TypeOK
<1>7. (g + (d + 1)) % GenMod = published[s]
  BY <1>1, <1>4, <1>5, <1>6, Zenon DEF CountInv, GenerationCounts, Announcers
<1>8. (((g + 1) % GenMod) + d) % GenMod = (g + (d + 1)) % GenMod
  BY CounterAssumption, IncrementCounts
<1>9. generation'[s] = (g + 1) % GenMod
  BY <1>1, <1>6 DEF TypeOK
<1>10. (generation'[s] + Cardinality(Announcers(s)')) % GenMod = published'[s]
  BY <1>1, <1>5, <1>7, <1>8, <1>9, Zenon
<1>11. \A t \in Slots \ {s} :
         /\ IsFiniteSet(Announcers(t)')
         /\ (generation'[t] + Cardinality(Announcers(t)')) % GenMod = published'[t]
  BY <1>1, <1>3, Zenon DEF CountInv, GenerationCounts, Announcers
<1>12. ASSUME NEW t \in Slots
       PROVE  /\ IsFiniteSet(Announcers(t)')
              /\ (generation'[t] + Cardinality(Announcers(t)')) % GenMod = published'[t]
  <2>1. CASE t = s
    BY <1>4, <1>10, <2>1, Zenon
  <2>2. CASE t # s
    BY <1>11, <2>2, Zenon
  <2> QED BY <2>1, <2>2
<1> QED BY <1>12, Zenon DEF CountInv, GenerationCounts, Announcers

LEMMA CountStep == TypeOK /\ CountInv /\ [Next]_vars => CountInv'
<1> SUFFICES ASSUME TypeOK, CountInv, [Next]_vars PROVE CountInv'
  OBVIOUS
<1>1. ASSUME NEW w \in Writers, AcquireWriteSlot(w) \/ WriterStep(w) PROVE CountInv'
  <2>1. CASE PublishSlot(w)
    <3>1. CASE state[wslot[w]] = "WRITING"
      BY <2>1, <3>1, PublishCounts
    <3>2. CASE state[wslot[w]] # "WRITING"
      <4>1. UNCHANGED <<generation, published>> /\ wpc[w] = "drawn"
            /\ wpc' = [wpc EXCEPT ![w] = "idle"] /\ wslot' = [wslot EXCEPT ![w] = 0]
        BY <2>1, <3>2 DEF PublishSlot, ReturnToCaller, AtWriter
      <4> QED BY <4>1, CountUntouched DEF Announcing, TypeOK
    <3> QED BY <3>1, <3>2
  <2>2. CASE BumpGeneration(w)
    BY <2>2, BumpCounts
  <2>3. ASSUME NEW x \in Fields, StoreField(w, x) PROVE CountInv'
    <3>1. /\ UNCHANGED <<generation, published, wslot>> /\ wpc[w] = "stores"
          /\ wpc'[w] \in {"stores", "count"}
          /\ \A v \in Writers : v # w => wpc'[v] = wpc[v]
      BY <2>3 DEF StoreField, AtWriter, TypeOK
    <3> QED BY <3>1, CountUntouched DEF Announcing
  <2>4. CASE AcquireWriteSlot(w) \/ BumpCursor(w) \/ ClaimFree(w) \/ ClaimTaken(w)
             \/ GiveUpFrame(w) \/ BeginDrawing(w) \/ \E f \in Frames : EndDrawing(w, f)
    <3>1. /\ UNCHANGED <<generation, published>>
          /\ wpc[w] \notin Publishing /\ wpc'[w] \notin Publishing
          /\ \A v \in Writers : v # w => wpc'[v] = wpc[v] /\ wslot'[v] = wslot[v]
      BY <2>4 DEF AcquireWriteSlot, BumpCursor, ClaimFree, ClaimTaken, GiveUpFrame, BeginDrawing,
         EndDrawing, ReturnToCaller, AtWriter, region, TypeOK
    <3> QED BY <3>1, CountUntouched DEF Announcing
  <2> QED BY <1>1, <2>1, <2>2, <2>3, <2>4 DEF WriterStep
<1>2. ASSUME NEW r \in Readers, ReaderStep(r) PROVE CountInv'
  <2>1. UNCHANGED <<generation, published, wpc, wslot>>
    BY <1>2 DEF ReaderStep, WaitForReady, TakeReady, SkipSlot, PollAgain, TimeOut,
       ReleaseReadSlot, region, wlocal
  <2> QED BY <2>1, CountUntouched DEF Announcing
<1>3. ASSUME NEW p \in MayCrash, Crash(p) PROVE CountInv'
  BY <1>3, CountUntouched DEF Crash, region, wlocal, Announcing
<1>4. CASE UNCHANGED vars
  BY <1>4, CountUntouched DEF vars, region, wlocal, Announcing
<1> QED BY <1>1, <1>2, <1>3, <1>4 DEF Next

\* No increment of a slot's generation is lost, whatever publishers and crashes do: it
\* lags the publications by those whose publish_slot has not returned, modulo its width.
THEOREM CountsPublications == Spec => []GenerationCounts
<1>1. TypeOK /\ LocalsOK /\ CountInv /\ [Next]_vars => TypeOK' /\ LocalsOK' /\ CountInv'
  BY TypeStep, CountStep
<1>2. CountInv => GenerationCounts
  BY DEF CountInv
<1> QED BY <1>1, <1>2, TypeInit, CountInit, PTL DEF Spec
==============================================================================
