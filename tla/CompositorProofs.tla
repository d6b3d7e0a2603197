-------------------------- MODULE CompositorProofs ---------------------------
(***************************************************************************)
(* Theorems about Compositor, for any clients, consumers, sizes of port,   *)
(* queue and table, and bounds.  TypeOK needs that the queue's counters    *)
(* agree and that what they enclose are frames (QueueInv), and that a      *)
(* frame being sent has been counted (ClientsInv).  What the application   *)
(* was told of a client differs from the table only while a callback is    *)
(* due (NotifyInv), which a thread started twice would break: ThreadInv.   *)
(* The order of frames rests on where each message stands between a client *)
(* and the consumers (WayInv), which also keeps the four places of a right *)
(* apart (RightsInv); what the table says of a client, on where the latest *)
(* hello of its connection is (CurrentInv).                                *)
(***************************************************************************)
EXTENDS Compositor, SequenceTheorems, FiniteSetTheorems, TLAPS

-----------------------------------------------------------------------------
\* Places on a ring of n cells, numbered from 0.

\* The cell i steps after h.
Ahead(n, h, i) == (h + i) % n

LEMMA UniqueRemainder ==
  ASSUME NEW d \in Nat \ {0}, NEW q \in Int, NEW p \in Int,
         NEW r \in 0 .. d - 1, NEW s \in 0 .. d - 1, d * q + r = d * p + s
  PROVE  r = s
<1>1. PICK k \in Int : k = q - p
  OBVIOUS
<1>2. d * k = d * q - d * p
  BY <1>1
<1>3. d * k = s - r
  BY <1>2
<1>4. ASSUME k >= 1 PROVE FALSE
  <2>1. PICK m \in Nat : k = 1 + m
    <3>1. k - 1 \in Nat /\ k = 1 + (k - 1)
      BY <1>4
    <3> QED BY <3>1
  <2>2. d * k = d + d * m /\ d * m \in Nat
    BY <2>1
  <2> QED BY <1>3, <2>2
<1>5. ASSUME k <= -1 PROVE FALSE
  <2>1. PICK m \in Nat : k = -1 - m
    <3>1. -1 - k \in Nat /\ k = -1 - (-1 - k)
      BY <1>5
    <3> QED BY <3>1
  <2>2. d * k = 0 - d - d * m /\ d * m \in Nat
    BY <2>1
  <2> QED BY <1>3, <2>2
<1>6. k = 0
  BY <1>4, <1>5
<1> QED BY <1>3, <1>6

LEMMA RemainderIs ==
  ASSUME NEW d \in Nat \ {0}, NEW q \in Int, NEW r \in 0 .. d - 1,
         NEW a \in Int, a = d * q + r
  PROVE  a % d = r
<1>1. PICK p \in Int, s \in 0 .. d - 1 : a = d * p + s /\ s = a % d
  <2>1. a \div d \in Int /\ a % d \in 0 .. d - 1 /\ a = d * (a \div d) + (a % d)
    OBVIOUS
  <2> QED BY <2>1
<1>2. d * q + r = d * p + s
  BY <1>1
<1>3. r = s
  BY <1>2, UniqueRemainder
<1> QED BY <1>1, <1>3

\* Less than two rounds.
LEMMA Wraps ==
  ASSUME NEW n \in Nat \ {0}, NEW h \in 0 .. n - 1, NEW i \in 0 .. n
  PROVE  /\ Ahead(n, h, i) \in 0 .. n - 1
         /\ h + i < n => Ahead(n, h, i) = h + i
         /\ h + i >= n => Ahead(n, h, i) = (h + i) - n
<1>1. PICK a \in Int : a = h + i
  OBVIOUS
<1>2. Ahead(n, h, i) = a % n
  BY <1>1, Zenon DEF Ahead
<1>3. ASSUME a < n PROVE a % n = a
  <2>1. a \in 0 .. n - 1 /\ a = n * 0 + a
    BY <1>1, <1>3
  <2> QED BY <2>1, RemainderIs
<1>4. ASSUME a >= n PROVE a % n = a - n
  <2>1. a - n \in 0 .. n - 1 /\ a = n * 1 + (a - n)
    BY <1>1, <1>4
  <2>2. PICK r \in 0 .. n - 1 : r = a - n
    BY <2>1
  <2>3. a = n * 1 + r
    BY <2>1, <2>2
  <2>4. a % n = r
    BY <2>3, RemainderIs
  <2> QED BY <2>2, <2>4
<1>5. a % n \in 0 .. n - 1
  BY <1>1
<1> QED BY <1>1, <1>2, <1>3, <1>4, <1>5, Zenon

LEMMA Ends ==
  ASSUME NEW n \in Nat \ {0}, NEW h \in 0 .. n - 1
  PROVE  Ahead(n, h, 0) = h /\ Ahead(n, h, n) = h
<1>1. 0 \in 0 .. n /\ n \in 0 .. n
  OBVIOUS
<1> QED BY <1>1, Wraps

\* Beginning one later is going one further, and so is one more step at the end.
LEMMA Shifts ==
  ASSUME NEW n \in Nat \ {0}, NEW h \in 0 .. n - 1, NEW i \in 0 .. n - 1
  PROVE  /\ Ahead(n, Ahead(n, h, 1), i) = Ahead(n, h, i + 1)
         /\ Ahead(n, Ahead(n, h, i), 1) = Ahead(n, h, i + 1)
<1>1. 1 \in 0 .. n /\ i \in 0 .. n /\ i + 1 \in 0 .. n
  OBVIOUS
<1>2. PICK u \in 0 .. n - 1 : u = Ahead(n, h, 1)
  BY <1>1, Wraps
<1>3. PICK v \in 0 .. n - 1 : v = Ahead(n, h, i)
  BY <1>1, Wraps
<1>4. PICK w \in 0 .. n - 1 : w = Ahead(n, h, i + 1)
  BY <1>1, Wraps
<1>5. (h + 1 < n => u = h + 1) /\ (h + 1 >= n => u = (h + 1) - n)
  BY <1>1, <1>2, Wraps
<1>6. (h + i < n => v = h + i) /\ (h + i >= n => v = (h + i) - n)
  BY <1>1, <1>3, Wraps
<1>7. /\ h + (i + 1) < n => w = h + (i + 1)
      /\ h + (i + 1) >= n => w = (h + (i + 1)) - n
  BY <1>1, <1>4, Wraps
<1>8. /\ u + i < n => Ahead(n, u, i) = u + i
      /\ u + i >= n => Ahead(n, u, i) = (u + i) - n
  BY <1>1, Wraps
<1>9. /\ v + 1 < n => Ahead(n, v, 1) = v + 1
      /\ v + 1 >= n => Ahead(n, v, 1) = (v + 1) - n
  BY <1>1, Wraps
<1>10. Ahead(n, u, i) = w
  BY <1>5, <1>7, <1>8
<1>11. Ahead(n, v, 1) = w
  BY <1>6, <1>7, <1>9
<1> QED BY <1>2, <1>3, <1>4, <1>10, <1>11

\* Within one round all cells are different.
LEMMA Apart ==
  ASSUME NEW n \in Nat \ {0}, NEW h \in 0 .. n - 1,
         NEW i \in 0 .. n - 1, NEW j \in 0 .. n - 1, i # j
  PROVE  Ahead(n, h, i) # Ahead(n, h, j)
<1>1. i \in 0 .. n /\ j \in 0 .. n
  OBVIOUS
<1>2. PICK u \in 0 .. n - 1 : u = Ahead(n, h, i)
  BY <1>1, Wraps
<1>3. PICK v \in 0 .. n - 1 : v = Ahead(n, h, j)
  BY <1>1, Wraps
<1>4. (h + i < n => u = h + i) /\ (h + i >= n => u = (h + i) - n)
  BY <1>1, <1>2, Wraps
<1>5. (h + j < n => v = h + j) /\ (h + j >= n => v = (h + j) - n)
  BY <1>1, <1>3, Wraps
<1>6. u # v
  BY <1>4, <1>5
<1> QED BY <1>2, <1>3, <1>6

-----------------------------------------------------------------------------
\* The inductive invariant.

ClientsInv ==
  \A c \in Clients :
    /\ spc[c] = "checked" => submits[c] < MaxFrames
    /\ spc[c] = "blocked" => submits[c] > 0

Handling == {"hello", "hello_cb", "goodbye", "goodbye_cb", "frame", "push", "frame_cb"}

\* The service thread has a message exactly while it handles one, of the right kind,
\* and there is no thread while the owner may start one or when the host is gone.
ThreadInv ==
  /\ msg # NoMsg <=> hpc \in Handling
  /\ hpc \in {"hello", "hello_cb"} => msg \in Hellos
  /\ hpc \in {"frame", "push", "frame_cb"} => msg \in Surfaces
  /\ (owner = "free" /\ ~running) \/ owner = "gone" => hpc = "none"

\* The place of the i-th frame in a queue that begins at h.
Place(h, i) == Ahead(Capacity, h, i)

QueueInv ==
  /\ tail = Place(head, count)
  /\ \A i \in 0 .. Capacity : i < count => ring[Place(head, i)] \in Surfaces

\* The callbacks are one behind the table while one is due.
Due(c, step) == hpc = step /\ msg.client = c
NotifyInv ==
  /\ owner # "gone" =>
       \A c \in Clients :
         notified[c] = IF Active(c) THEN (IF Due(c, "hello_cb") THEN 0 ELSE 1)
                       ELSE (IF Due(c, "goodbye_cb") THEN 1 ELSE 0)
  /\ hpc = "hello_cb" => Active(msg.client)
  /\ hpc = "goodbye_cb" => ~Active(msg.client)

HostInv == TypeOK /\ ClientsInv /\ ThreadInv /\ QueueInv /\ NotifyInv
-----------------------------------------------------------------------------
(* Messages, the port and the ring's arithmetic.                            *)

LEMMA MessageKinds ==
  ASSUME NEW m \in Messages
  PROVE  /\ m.client \in Clients /\ m.kind \in {"hello", "frame", "goodbye"}
         /\ m.kind = "hello" => m \in Hellos
         /\ m.kind = "frame" => m \in Surfaces
<1>1. CASE m \in Hellos
  BY <1>1 DEF Hellos, Hello
<1>2. CASE m \in Surfaces
  BY <1>2 DEF Surfaces, Frame
<1>3. CASE m \in {Goodbye(c) : c \in Clients}
  BY <1>3 DEF Goodbye
<1> QED BY <1>1, <1>2, <1>3 DEF Messages

LEMMA SurfaceParts ==
  ASSUME NEW m \in Surfaces
  PROVE  m \in Messages /\ m \in Rights /\ m.client \in Clients /\ m.index \in 0 .. MaxFrames
<1>1. PICK c \in Clients, n \in 1 .. MaxFrames : m = Frame(c, n)
  BY DEF Surfaces
<1>2. m.client = c /\ m.index = n
  BY <1>1 DEF Frame
<1> QED BY <1>1, <1>2, BoundsAssumption DEF Messages, Rights

LEMMA PostKeeps ==
  ASSUME HostTypeOK, NEW m \in Messages, Post(m)
  PROVE  inbox' \in Seq(Messages) /\ Len(inbox') <= PortLimit /\ portOpen' \in BOOLEAN
<1>1. inbox \in Seq(Messages) /\ Len(inbox) < PortLimit /\ PortLimit \in Nat
      /\ inbox' = Append(inbox, m) /\ portOpen' = portOpen
  BY PortAssumption DEF HostTypeOK, Post
<1>2. Len(inbox') = Len(inbox) + 1 /\ Len(inbox) \in Nat /\ inbox' \in Seq(Messages)
  BY <1>1
<1> QED BY <1>1, <1>2 DEF HostTypeOK

LEMMA Wrap ==
  ASSUME NEW h \in Cells, NEW i \in 0 .. Capacity
  PROVE  /\ Place(h, i) \in Cells
         /\ h + i < Capacity => Place(h, i) = h + i
         /\ h + i >= Capacity => Place(h, i) = (h + i) - Capacity
BY HostAssumption, Wraps, Zenon DEF Place, Cells

LEMMA FollowingIs ==
  ASSUME NEW h \in Cells
  PROVE  /\ Following(h) = Place(h, 1)
         /\ Following(h) \in Cells
         /\ Place(h, 0) = h
         /\ Place(h, Capacity) = h
<1>1. Following(h) = Place(h, 1)
  BY DEF Following, Place, Ahead
<1>2. 1 \in 0 .. Capacity
  BY HostAssumption
<1>3. Place(h, 1) \in Cells
  BY <1>2, Wrap
<1>4. Place(h, 0) = h /\ Place(h, Capacity) = h
  BY HostAssumption, Ends, Zenon DEF Place, Cells
<1> QED BY <1>1, <1>3, <1>4

LEMMA Shift ==
  ASSUME NEW h \in Cells, NEW i \in 0 .. Capacity - 1
  PROVE  /\ Place(Following(h), i) = Place(h, i + 1)
         /\ Following(Place(h, i)) = Place(h, i + 1)
<1>1. i \in 0 .. Capacity
  BY HostAssumption
<1>2. Following(h) = Place(h, 1) /\ Following(Place(h, i)) = Place(Place(h, i), 1)
  BY <1>1, Wrap, FollowingIs
<1>3. /\ Place(Place(h, 1), i) = Place(h, i + 1)
      /\ Place(Place(h, i), 1) = Place(h, i + 1)
  BY HostAssumption, Shifts, Zenon DEF Place, Cells
<1> QED BY <1>2, <1>3

LEMMA Distinct ==
  ASSUME NEW h \in Cells, NEW i \in 0 .. Capacity - 1, NEW j \in 0 .. Capacity - 1,
         i # j
  PROVE  Place(h, i) # Place(h, j)
BY HostAssumption, Apart, Zenon DEF Place, Cells
-----------------------------------------------------------------------------
(* The clients.                                                             *)

\* A client's step that leaves the host's own state alone and the port well formed.
LEMMA HostUntouched ==
  ASSUME HostInv, UNCHANGED hostVars,
         inbox' \in Seq(Messages), Len(inbox') <= PortLimit, portOpen' \in BOOLEAN,
         ClientTypeOK', ClientsInv'
  PROVE  HostInv'
<1>1. UNCHANGED <<ring, head, tail, count, hpc, msg, reply, running, owner, hands,
                  rights, notified, popped>>
  BY DEF HostInv, hostVars, queueVars, threadVars
<1>2. TypeOK'
  BY <1>1 DEF HostInv, TypeOK, HostTypeOK
<1>3. ThreadInv'
  BY <1>1, Zenon DEF HostInv, ThreadInv
<1>4. QueueInv'
  BY <1>1, Zenon DEF HostInv, QueueInv, Place, Ahead
<1>5. NotifyInv'
  BY <1>1, Zenon DEF HostInv, NotifyInv, Active, Due
<1> QED BY <1>2, <1>3, <1>4, <1>5 DEF HostInv

LEMMA ClientKeeps ==
  ASSUME HostInv, ClientNext, UNCHANGED hostVars
  PROVE  HostInv'
<1>1. HostTypeOK /\ ClientTypeOK /\ ClientsInv /\ MaxConnects \in Nat /\ MaxFrames \in Nat
  BY BoundsAssumption DEF HostInv, TypeOK
<1>2. PICK c \in Clients :
        \/ Connect(c) \/ Disconnect(c) \/ CheckConnection(c) \/ BeginSend(c)
        \/ FailSend(c) \/ FinishSend(c) \/ RestartClient(c)
  BY DEF ClientNext
<1> DEFINE PortKept == inbox' \in Seq(Messages) /\ Len(inbox') <= PortLimit
                       /\ portOpen' \in BOOLEAN
<1>3. ASSUME UNCHANGED port PROVE PortKept
  BY <1>1, <1>3 DEF HostTypeOK, port
<1>4. ClientTypeOK' /\ ClientsInv' /\ PortKept
  <2>1. CASE Connect(c)
    <3>1. connects[c] + 1 \in 1 .. MaxConnects
      BY <1>1, <2>1 DEF Connect, ClientTypeOK
    <3>2. Hello(c, connects[c] + 1) \in Messages
      BY <3>1 DEF Messages, Hellos
    <3>3. PortKept
      BY <1>1, <2>1, <3>2, PostKeeps DEF Connect
    <3>4. ClientTypeOK' /\ ClientsInv'
      BY <1>1, <2>1, <3>1 DEF Connect, ClientTypeOK, ClientsInv
    <3> QED BY <3>3, <3>4
  <2>2. CASE Disconnect(c)
    <3>1. Goodbye(c) \in Messages
      BY DEF Messages
    <3>2. PortKept
      BY <1>1, <1>3, <2>2, <3>1, PostKeeps DEF Disconnect
    <3>3. ClientTypeOK' /\ ClientsInv'
      BY <1>1, <2>2 DEF Disconnect, ClientTypeOK, ClientsInv
    <3> QED BY <3>2, <3>3
  <2>3. CASE CheckConnection(c)
    BY <1>1, <1>3, <2>3 DEF CheckConnection, ClientTypeOK, ClientsInv
  <2>4. CASE BeginSend(c)
    BY <1>1, <1>3, <2>4 DEF BeginSend, ClientTypeOK, ClientsInv
  <2>5. CASE FailSend(c)
    <3>1. submits' \in [Clients -> 0 .. MaxFrames]
      <4>1. CASE UNCHANGED submits
        BY <1>1, <4>1 DEF ClientTypeOK
      <4>2. CASE spc[c] = "checked" /\ submits' = [submits EXCEPT ![c] = @ + 1]
        BY <1>1, <4>2 DEF ClientTypeOK, ClientsInv
      <4> QED BY <2>5, <4>1, <4>2 DEF FailSend
    <3>2. /\ spc' = [spc EXCEPT ![c] = "idle"] /\ usedConn' = [usedConn EXCEPT ![c] = 0]
          /\ UNCHANGED <<port, connected, connects>>
          /\ \A d \in Clients : d # c => submits'[d] = submits[d]
      BY <1>1, <2>5 DEF FailSend, ClientTypeOK
    <3>3. ClientTypeOK'
      BY <1>1, <3>1, <3>2 DEF ClientTypeOK
    <3>4. ClientsInv'
      BY <1>1, <3>2 DEF ClientTypeOK, ClientsInv
    <3> QED BY <1>3, <3>2, <3>3, <3>4
  <2>6. CASE FinishSend(c)
    <3>1. submits[c] \in 1 .. MaxFrames
      BY <1>1, <2>6 DEF FinishSend, ClientTypeOK, ClientsInv
    <3>2. Frame(c, submits[c]) \in Messages
      BY <3>1 DEF Messages, Surfaces
    <3>3. PortKept
      BY <1>1, <2>6, <3>2, PostKeeps DEF FinishSend
    <3>4. ClientTypeOK' /\ ClientsInv'
      BY <1>1, <2>6 DEF FinishSend, ClientTypeOK, ClientsInv
    <3> QED BY <3>3, <3>4
  <2>7. CASE RestartClient(c)
    BY <1>1, <1>3, <2>7 DEF RestartClient, ClientTypeOK, ClientsInv
  <2> QED BY <1>2, <2>1, <2>2, <2>3, <2>4, <2>5, <2>6, <2>7
<1> QED BY <1>4, HostUntouched
-----------------------------------------------------------------------------
(* The service thread.                                                      *)

\* Steps that leave the queue, the callbacks' count and the owner alone.
LEMMA QueueUntouched ==
  ASSUME QueueInv, UNCHANGED queueVars
  PROVE  QueueInv'
BY Zenon DEF QueueInv, queueVars, Place, Ahead

\* The message that is handled, and its client.
LEMMA InHand ==
  ASSUME HostInv, hpc \in Handling
  PROVE  /\ msg \in Messages /\ msg # NoMsg /\ msg.client \in Clients
         /\ hpc \in {"hello", "hello_cb"} => msg \in Hellos /\ msg \in Rights
         /\ hpc \in {"frame", "push", "frame_cb"} => msg \in Surfaces /\ msg \in Rights
         /\ owner # "gone" /\ ~(owner = "free" /\ ~running)
<1>1. msg \in Messages /\ msg # NoMsg
  BY HostAssumption DEF HostInv, TypeOK, HostTypeOK, ThreadInv
<1>2. msg.client \in Clients
  BY <1>1, MessageKinds
<1> QED BY <1>1, <1>2 DEF HostInv, ThreadInv, Handling, Rights

\* Going round the loop, and a frame's callback.
LEMMA LoopKeeps ==
  ASSUME HostInv, EnterLoop \/ ReceiveTimesOut \/ FrameCallback,
         UNCHANGED clientVars
  PROVE  HostInv'
<1>1. /\ UNCHANGED <<inbox, portOpen, ring, head, tail, count, reply, running, owner,
                     hands, rights, notified, popped>>
      /\ UNCHANGED queueVars
      /\ msg' = NoMsg
      /\ hpc' \in {"none", "loop", "receive"} /\ hpc \in {"loop", "receive", "frame_cb"}
  BY DEF HostInv, ThreadInv, Handling, EnterLoop, ReceiveTimesOut, FrameCallback, At, Goto, Return,
         port, queueVars
<1>2. TypeOK' /\ ClientsInv'
  BY <1>1 DEF HostInv, TypeOK, HostTypeOK, Steps, clientVars, ClientTypeOK, ClientsInv
<1>3. ThreadInv'
  BY <1>1 DEF HostInv, ThreadInv, Handling
<1>4. QueueInv'
  BY <1>1, QueueUntouched DEF HostInv
<1>5. NotifyInv'
  BY <1>1 DEF HostInv, NotifyInv, Active, Due
<1> QED BY <1>2, <1>3, <1>4, <1>5 DEF HostInv

LEMMA ReceiveKeeps ==
  ASSUME HostInv, Receive, UNCHANGED clientVars
  PROVE  HostInv'
<1>1. /\ UNCHANGED <<portOpen, ring, head, tail, count, reply, running, owner,
                     hands, notified, popped>>
      /\ UNCHANGED queueVars
      /\ hpc = "receive" /\ inbox # <<>> /\ inbox \in Seq(Messages)
      /\ Len(inbox) <= PortLimit
      /\ msg' = Head(inbox) /\ inbox' = Tail(inbox) /\ hpc' = Head(inbox).kind
      /\ rights' = rights \cup ({Head(inbox)} \cap Rights)
  BY DEF HostInv, TypeOK, HostTypeOK, Receive, At, queueVars
<1>2. msg' \in Messages /\ inbox' \in Seq(Messages) /\ Len(inbox') = Len(inbox) - 1
  BY <1>1
<1>3. /\ hpc' \in {"hello", "frame", "goodbye"}
      /\ hpc' = "hello" => msg' \in Hellos
      /\ hpc' = "frame" => msg' \in Surfaces
  BY <1>1, <1>2, MessageKinds
<1>4. Len(inbox') <= PortLimit
  BY <1>1, <1>2, PortAssumption
<1>5. TypeOK' /\ ClientsInv'
  <2>1. HostTypeOK'
    BY <1>1, <1>2, <1>3, <1>4 DEF HostInv, TypeOK, HostTypeOK, Steps
  <2>2. ClientTypeOK' /\ ClientsInv'
    BY DEF HostInv, TypeOK, clientVars, ClientTypeOK, ClientsInv
  <2> QED BY <2>1, <2>2 DEF TypeOK
<1>6. ThreadInv'
  <2>1. msg' # NoMsg
    BY <1>2, HostAssumption
  <2>2. owner # "gone" /\ ~(owner = "free" /\ ~running)
    BY <1>1 DEF HostInv, ThreadInv
  <2> QED BY <1>1, <1>3, <2>1, <2>2 DEF ThreadInv, Handling
<1>7. QueueInv'
  BY <1>1, QueueUntouched DEF HostInv
<1>8. NotifyInv'
  BY <1>1, <1>3 DEF HostInv, NotifyInv, Active, Due
<1> QED BY <1>5, <1>6, <1>7, <1>8 DEF HostInv

\* HELLO: the table and the rights change, and a new client's callback becomes due.
LEMMA HelloKeeps ==
  ASSUME HostInv, RefreshClient \/ AdmitClient \/ RefuseClient, UNCHANGED clientVars
  PROVE  HostInv'
<1>1. hpc = "hello" /\ UNCHANGED <<inbox, portOpen, ring, head, tail, count, running,
                                   owner, hands, notified, popped>>
      /\ UNCHANGED queueVars
  BY DEF RefreshClient, Refresh, AdmitClient, RefuseClient, At, port, queueVars
<1>2. /\ msg \in Messages /\ msg # NoMsg /\ msg.client \in Clients
      /\ msg \in Hellos /\ msg \in Rights
      /\ owner # "gone" /\ ~(owner = "free" /\ ~running)
  BY <1>1, InHand DEF Handling
<1>3. HostTypeOK /\ ThreadInv /\ NotifyInv
  BY DEF HostInv, TypeOK
<1>4. /\ rights' \subseteq rights
      /\ \/ /\ reply' = [reply EXCEPT ![msg.client] = msg]
            /\ Active(msg.client) /\ hpc' = "loop" /\ msg' = NoMsg
         \/ /\ reply' = [reply EXCEPT ![msg.client] = msg]
            /\ ~Active(msg.client) /\ hpc' = "hello_cb" /\ msg' = msg
         \/ reply' = reply /\ hpc' = "loop" /\ msg' = NoMsg
  BY DEF RefreshClient, Refresh, AdmitClient, RefuseClient, Goto, Return
<1>5. TypeOK' /\ ClientsInv'
  <2>1. reply' \in [Clients -> Hellos \cup {NoMsg}]
    BY <1>2, <1>3, <1>4 DEF HostTypeOK
  <2>2. hpc' \in Steps /\ msg' \in Messages \cup {NoMsg} /\ rights' \subseteq Rights
    BY <1>2, <1>3, <1>4 DEF HostTypeOK, Steps
  <2>3. HostTypeOK'
    BY <1>1, <1>3, <2>1, <2>2 DEF HostTypeOK
  <2>4. ClientTypeOK' /\ ClientsInv'
    BY DEF HostInv, TypeOK, clientVars, ClientTypeOK, ClientsInv
  <2> QED BY <2>3, <2>4 DEF TypeOK
<1>6. ThreadInv'
  BY <1>1, <1>2, <1>4 DEF ThreadInv, Handling
<1>7. QueueInv'
  BY <1>1, QueueUntouched DEF HostInv
<1>8. NotifyInv'
  <2>1. ASSUME NEW c \in Clients, c # msg.client PROVE reply'[c] # NoMsg <=> Active(c)
    BY <1>2, <1>3, <1>4, <2>1 DEF HostTypeOK, Active
  <2>2. hpc' = "hello_cb" => reply'[msg.client] # NoMsg /\ ~Active(msg.client) /\ msg' = msg
    BY <1>2, <1>3, <1>4 DEF HostTypeOK, Active
  <2>3. hpc' # "hello_cb" => (reply'[msg.client] # NoMsg <=> Active(msg.client)) /\ hpc' = "loop"
    BY <1>2, <1>3, <1>4 DEF HostTypeOK, Active
  <2>4. hpc' # "goodbye_cb" /\ hpc # "hello_cb" /\ hpc # "goodbye_cb"
    BY <1>1, <1>4
  <2>5. ASSUME NEW c \in Clients
        PROVE  notified'[c] =
                 IF reply'[c] # NoMsg
                   THEN (IF hpc' = "hello_cb" /\ msg'.client = c THEN 0 ELSE 1)
                   ELSE (IF hpc' = "goodbye_cb" /\ msg'.client = c THEN 1 ELSE 0)
    <3>1. notified'[c] = IF Active(c) THEN 1 ELSE 0
      BY <1>1, <1>2, <1>3, <2>4 DEF NotifyInv, Due
    <3>2. CASE c = msg.client /\ hpc' = "hello_cb"
      BY <2>2, <3>1, <3>2 DEF Due
    <3>3. CASE c # msg.client
      <4>1. /\ ~(hpc' = "hello_cb" /\ msg'.client = c)
            /\ ~(hpc' = "goodbye_cb" /\ msg'.client = c)
        BY <1>4, <2>4, <3>3 DEF Due
      <4> QED BY <2>1, <3>1, <3>3, <4>1
    <3>4. CASE c = msg.client /\ hpc' # "hello_cb"
      BY <2>3, <2>4, <3>1, <3>4 DEF Due
    <3> QED BY <3>2, <3>3, <3>4
  <2> QED BY <2>2, <2>4, <2>5 DEF NotifyInv, Active, Due
<1> QED BY <1>5, <1>6, <1>7, <1>8 DEF HostInv

LEMMA GoodbyeKeeps ==
  ASSUME HostInv, HandleGoodbye, UNCHANGED clientVars
  PROVE  HostInv'
<1>1. hpc = "goodbye" /\ UNCHANGED <<inbox, portOpen, ring, head, tail, count, running,
                                     owner, hands, notified, popped>>
      /\ UNCHANGED queueVars
  BY DEF HandleGoodbye, Forget, At, port, queueVars
<1>2. /\ msg \in Messages /\ msg # NoMsg /\ msg.client \in Clients
      /\ owner # "gone" /\ ~(owner = "free" /\ ~running)
  BY <1>1, InHand DEF Handling
<1>3. HostTypeOK /\ ThreadInv /\ NotifyInv
  BY DEF HostInv, TypeOK
<1>4. /\ rights' \subseteq rights
      /\ \/ /\ reply' = [reply EXCEPT ![msg.client] = NoMsg]
            /\ Active(msg.client) /\ hpc' = "goodbye_cb" /\ msg' = msg
         \/ reply' = reply /\ hpc' = "loop" /\ msg' = NoMsg
  BY DEF HandleGoodbye, Forget, Goto, Return
<1>5. TypeOK' /\ ClientsInv'
  <2>1. reply' \in [Clients -> Hellos \cup {NoMsg}]
    BY <1>2, <1>3, <1>4 DEF HostTypeOK
  <2>2. hpc' \in Steps /\ msg' \in Messages \cup {NoMsg} /\ rights' \subseteq Rights
    BY <1>2, <1>3, <1>4 DEF HostTypeOK, Steps
  <2>3. HostTypeOK'
    BY <1>1, <1>3, <2>1, <2>2 DEF HostTypeOK
  <2>4. ClientTypeOK' /\ ClientsInv'
    BY DEF HostInv, TypeOK, clientVars, ClientTypeOK, ClientsInv
  <2> QED BY <2>3, <2>4 DEF TypeOK
<1>6. ThreadInv'
  BY <1>1, <1>2, <1>4 DEF ThreadInv, Handling
<1>7. QueueInv'
  BY <1>1, QueueUntouched DEF HostInv
<1>8. NotifyInv'
  <2>1. hpc' # "hello_cb" /\ hpc # "hello_cb" /\ hpc # "goodbye_cb"
    BY <1>1, <1>4
  <2>2. hpc' = "goodbye_cb" => reply'[msg.client] = NoMsg /\ msg' = msg /\ Active(msg.client)
    BY <1>2, <1>3, <1>4 DEF HostTypeOK, Active
  <2>3. ASSUME NEW c \in Clients, c # msg.client \/ hpc' # "goodbye_cb"
        PROVE  /\ reply'[c] # NoMsg <=> Active(c)
               /\ ~(hpc' = "goodbye_cb" /\ msg'.client = c)
    BY <1>2, <1>3, <1>4, <2>3 DEF HostTypeOK, Active, Due
  <2>4. ASSUME NEW c \in Clients
        PROVE  notified'[c] =
                 IF reply'[c] # NoMsg
                   THEN (IF hpc' = "hello_cb" /\ msg'.client = c THEN 0 ELSE 1)
                   ELSE (IF hpc' = "goodbye_cb" /\ msg'.client = c THEN 1 ELSE 0)
    <3>1. notified'[c] = IF Active(c) THEN 1 ELSE 0
      BY <1>1, <1>2, <1>3, <2>1 DEF NotifyInv, Due
    <3>2. CASE c = msg.client /\ hpc' = "goodbye_cb"
      BY <2>2, <3>1, <3>2 DEF Due
    <3>3. CASE c # msg.client \/ hpc' # "goodbye_cb"
      BY <2>1, <2>3, <3>1, <3>3 DEF Due
    <3> QED BY <3>2, <3>3
  <2> QED BY <2>1, <2>2, <2>4 DEF NotifyInv, Active, Due
<1> QED BY <1>5, <1>6, <1>7, <1>8 DEF HostInv

\* The callbacks catch up with the table.
LEMMA CallbackKeeps ==
  ASSUME HostInv, ConnectedCallback \/ DisconnectedCallback, UNCHANGED clientVars
  PROVE  HostInv'
<1>1. /\ hpc \in {"hello_cb", "goodbye_cb"}
      /\ hpc' = "loop" /\ msg' = NoMsg
      /\ UNCHANGED <<inbox, portOpen, ring, head, tail, count, reply, running,
                     owner, hands, rights, popped>>
      /\ UNCHANGED queueVars
      /\ hpc = "hello_cb" => notified' = [notified EXCEPT ![msg.client] = @ + 1]
      /\ hpc = "goodbye_cb" => notified' = [notified EXCEPT ![msg.client] = @ - 1]
  BY DEF ConnectedCallback, DisconnectedCallback, At, Return, port, queueVars
<1>2. msg.client \in Clients /\ owner # "gone" /\ ~(owner = "free" /\ ~running)
  BY <1>1, InHand DEF Handling
<1>3. HostTypeOK /\ ThreadInv /\ NotifyInv
  BY DEF HostInv, TypeOK
<1>4. TypeOK' /\ ClientsInv'
  <2>1. notified' \in [Clients -> Int]
    BY <1>1, <1>2, <1>3 DEF HostTypeOK
  <2>2. HostTypeOK'
    BY <1>1, <1>3, <2>1 DEF HostTypeOK, Steps
  <2>3. ClientTypeOK' /\ ClientsInv'
    BY DEF HostInv, TypeOK, clientVars, ClientTypeOK, ClientsInv
  <2> QED BY <2>2, <2>3 DEF TypeOK
<1>5. ThreadInv'
  BY <1>1, <1>2 DEF ThreadInv, Handling
<1>6. QueueInv'
  BY <1>1, QueueUntouched DEF HostInv
<1>7. NotifyInv'
  <2>1. ASSUME NEW c \in Clients
        PROVE  notified'[c] = IF Active(c) THEN 1 ELSE 0
    <3>1. notified[c] = IF Active(c) THEN (IF Due(c, "hello_cb") THEN 0 ELSE 1)
                        ELSE (IF Due(c, "goodbye_cb") THEN 1 ELSE 0)
      BY <1>2, <1>3 DEF NotifyInv
    <3>2. CASE c # msg.client
      <4>1. notified'[c] = notified[c]
        BY <1>1, <1>2, <1>3, <3>2 DEF HostTypeOK
      <4> QED BY <3>1, <3>2, <4>1 DEF Due
    <3>3. CASE c = msg.client /\ hpc = "hello_cb"
      <4>1. notified'[c] = notified[c] + 1 /\ Active(c)
        BY <1>1, <1>2, <1>3, <3>3 DEF HostTypeOK, NotifyInv
      <4> QED BY <3>1, <3>3, <4>1 DEF Due
    <3>4. CASE c = msg.client /\ hpc = "goodbye_cb"
      <4>1. notified'[c] = notified[c] - 1 /\ ~Active(c)
        BY <1>1, <1>2, <1>3, <3>4 DEF HostTypeOK, NotifyInv
      <4> QED BY <3>1, <3>4, <4>1 DEF Due
    <3> QED BY <1>1, <3>2, <3>3, <3>4
  <2> QED BY <1>1, <2>1 DEF NotifyInv, Active, Due
<1> QED BY <1>4, <1>5, <1>6, <1>7 DEF HostInv

LEMMA LookUpKeeps ==
  ASSUME HostInv, LookUpSender, UNCHANGED clientVars
  PROVE  HostInv'
<1>1. /\ hpc = "frame"
      /\ UNCHANGED <<inbox, portOpen, ring, head, tail, count, reply, running, owner,
                     hands, notified, popped>>
      /\ UNCHANGED queueVars
      /\ rights' \subseteq rights
      /\ (hpc' = "push" /\ msg' = msg) \/ (hpc' = "loop" /\ msg' = NoMsg)
  BY DEF LookUpSender, At, Goto, Return, port, queueVars
<1>2. /\ msg \in Surfaces /\ msg \in Messages /\ msg # NoMsg
      /\ owner # "gone" /\ ~(owner = "free" /\ ~running)
  BY <1>1, InHand DEF Handling
<1>3. TypeOK' /\ ClientsInv'
  <2>1. HostTypeOK'
    BY <1>1, <1>2 DEF HostInv, TypeOK, HostTypeOK, Steps
  <2>2. ClientTypeOK' /\ ClientsInv'
    BY DEF HostInv, TypeOK, clientVars, ClientTypeOK, ClientsInv
  <2> QED BY <2>1, <2>2 DEF TypeOK
<1>4. ThreadInv'
  BY <1>1, <1>2 DEF ThreadInv, Handling
<1>5. QueueInv'
  BY <1>1, QueueUntouched DEF HostInv
<1>6. NotifyInv'
  BY <1>1 DEF HostInv, NotifyInv, Active, Due
<1> QED BY <1>3, <1>4, <1>5, <1>6 DEF HostInv
-----------------------------------------------------------------------------
(* The queue.                                                               *)

\* What a push, a pop and the discarding at the end do to the enclosed frames.
LEMMA PushRing ==
  ASSUME HostInv, NEW m \in Surfaces,
         ring' = [ring EXCEPT ![tail] = m], tail' = Following(tail),
         head' = IF count >= Capacity THEN Following(head) ELSE head,
         count' = IF count >= Capacity THEN count ELSE count + 1
  PROVE  /\ ring' \in [Cells -> Surfaces \cup {NoMsg}]
         /\ head' \in Cells /\ tail' \in Cells /\ count' \in 0 .. Capacity
         /\ QueueInv'
         /\ count < Capacity =>
              /\ ring'[Place(head', count)] = m
              /\ \A i \in 0 .. Capacity : i < count => ring'[Place(head', i)] = ring[Place(head, i)]
         /\ count >= Capacity =>
              /\ ring'[Place(head', count - 1)] = m
              /\ \A i \in 0 .. Capacity :
                   i < count - 1 => ring'[Place(head', i)] = ring[Place(head, i + 1)]
<1>1. /\ ring \in [Cells -> Surfaces \cup {NoMsg}]
      /\ head \in Cells /\ tail \in Cells /\ count \in 0 .. Capacity
      /\ Capacity \in Nat \ {0}
      /\ tail = Place(head, count)
      /\ \A i \in 0 .. Capacity : i < count => ring[Place(head, i)] \in Surfaces
  BY HostAssumption DEF HostInv, TypeOK, HostTypeOK, QueueInv
<1>2. Following(head) \in Cells /\ Following(tail) \in Cells
  BY <1>1, FollowingIs
<1>3. /\ ring' \in [Cells -> Surfaces \cup {NoMsg}] /\ ring'[tail] = m
      /\ \A x \in Cells : x # tail => ring'[x] = ring[x]
      /\ head' \in Cells /\ tail' \in Cells /\ count' \in 0 .. Capacity
  BY <1>1, <1>2
<1>4. CASE count < Capacity
  <2>1. count \in 0 .. Capacity - 1 /\ head' = head /\ count' = count + 1
    BY <1>1, <1>4
  <2>2. tail' = Place(head', count')
    BY <1>1, <2>1, Shift
  <2>3. ring'[Place(head', count)] = m
    BY <1>1, <1>3, <2>1
  <2>4. ASSUME NEW i \in 0 .. Capacity, i < count
        PROVE  ring'[Place(head', i)] = ring[Place(head, i)]
    <3>1. i \in 0 .. Capacity - 1 /\ i # count
      BY <1>1, <2>4
    <3>2. Place(head, i) # tail /\ Place(head, i) \in Cells
      BY <1>1, <2>1, <3>1, Distinct, Wrap
    <3> QED BY <1>3, <2>1, <3>2
  <2>5. ASSUME NEW i \in 0 .. Capacity, i < count'
        PROVE  ring'[Place(head', i)] \in Surfaces
    <3>1. i < count \/ i = count
      BY <1>1, <2>1, <2>5
    <3> QED BY <1>1, <2>3, <2>4, <3>1
  <2>6. QueueInv'
    BY <2>2, <2>5 DEF QueueInv, Place, Ahead
  <2> QED BY <1>1, <1>3, <1>4, <2>3, <2>4, <2>6
<1>5. CASE count >= Capacity
  <2>1. count = Capacity /\ head' = Following(head) /\ count' = count
    BY <1>1, <1>5
  <2>2. tail = head /\ Place(head, 0) = head
    BY <1>1, <2>1, FollowingIs
  <2>3. tail' = Place(head', count')
    BY <1>1, <1>2, <2>1, <2>2, FollowingIs
  <2>4. ASSUME NEW i \in 0 .. Capacity - 1
        PROVE  Place(head', i) = Place(head, i + 1)
    BY <1>1, <2>1, Shift
  <2>5. ring'[Place(head', count - 1)] = m
    <3>1. count - 1 \in 0 .. Capacity - 1 /\ (count - 1) + 1 = Capacity
      BY <1>1, <2>1
    <3>2. Place(head', count - 1) = head
      BY <1>1, <2>4, <3>1, FollowingIs
    <3> QED BY <1>3, <2>2, <3>2
  <2>6. ASSUME NEW i \in 0 .. Capacity, i < count - 1
        PROVE  ring'[Place(head', i)] = ring[Place(head, i + 1)]
    <3>1. i \in 0 .. Capacity - 1 /\ i + 1 \in 0 .. Capacity - 1 /\ i + 1 # 0
          /\ 0 \in 0 .. Capacity - 1 /\ i + 1 \in 0 .. Capacity
      BY <1>1, <2>1, <2>6
    <3>2. Place(head, i + 1) # tail /\ Place(head, i + 1) \in Cells
      BY <1>1, <2>2, <3>1, Distinct, Wrap
    <3> QED BY <1>3, <2>4, <3>1, <3>2
  <2>7. ASSUME NEW i \in 0 .. Capacity, i < count'
        PROVE  ring'[Place(head', i)] \in Surfaces
    <3>1. CASE i < count - 1
      <4>1. i + 1 \in 0 .. Capacity /\ i + 1 < count
        BY <1>1, <2>1, <3>1
      <4>2. ring[Place(head, i + 1)] \in Surfaces
        BY <1>1, <4>1
      <4> QED BY <2>6, <3>1, <4>2
    <3>2. CASE i = count - 1
      BY <2>5, <3>2
    <3> QED BY <1>1, <2>1, <2>7, <3>1, <3>2
  <2>8. QueueInv'
    BY <2>3, <2>7 DEF QueueInv, Place, Ahead
  <2> QED BY <1>1, <1>3, <1>5, <2>5, <2>6, <2>8
<1> QED BY <1>1, <1>4, <1>5

LEMMA PopRing ==
  ASSUME HostInv, count > 0,
         UNCHANGED <<ring, tail>>, head' = Following(head), count' = count - 1
  PROVE  /\ ring[head] \in Surfaces
         /\ head' \in Cells /\ count' \in 0 .. Capacity /\ QueueInv'
         /\ \A i \in 0 .. Capacity : i < count' => Place(head', i) = Place(head, i + 1)
<1>1. /\ head \in Cells /\ count \in 0 .. Capacity /\ Capacity \in Nat \ {0}
      /\ tail = Place(head, count)
      /\ \A i \in 0 .. Capacity : i < count => ring[Place(head, i)] \in Surfaces
  BY HostAssumption DEF HostInv, TypeOK, HostTypeOK, QueueInv
<1>2. head' \in Cells /\ count' \in 0 .. Capacity - 1 /\ count' + 1 = count
  BY <1>1, FollowingIs
<1>3. ASSUME NEW i \in 0 .. Capacity - 1
      PROVE  Place(head', i) = Place(head, i + 1)
  BY <1>1, Shift
<1>4. ring[head] \in Surfaces
  <2>1. 0 \in 0 .. Capacity /\ 0 < count /\ Place(head, 0) = head
    BY <1>1, FollowingIs
  <2> QED BY <1>1, <2>1
<1>5. tail' = Place(head', count')
  BY <1>1, <1>2, <1>3
<1>6. ASSUME NEW i \in 0 .. Capacity, i < count'
      PROVE  /\ Place(head', i) = Place(head, i + 1)
             /\ ring'[Place(head', i)] \in Surfaces
  <2>1. i \in 0 .. Capacity - 1 /\ i + 1 \in 0 .. Capacity /\ i + 1 < count
    BY <1>1, <1>2, <1>6
  <2>2. Place(head', i) = Place(head, i + 1)
    BY <1>3, <2>1
  <2> QED BY <1>1, <2>1, <2>2
<1>7. QueueInv'
  BY <1>5, <1>6 DEF QueueInv, Place, Ahead
<1> QED BY <1>1, <1>2, <1>4, <1>6, <1>7

LEMMA PushKeeps ==
  ASSUME HostInv, PushFrame, UNCHANGED clientVars
  PROVE  HostInv'
<1>1. /\ hpc = "push" /\ hpc' = "frame_cb" /\ msg' = msg
      /\ UNCHANGED <<inbox, portOpen, reply, running, owner, hands, notified, popped>>
      /\ rights' \subseteq rights
      /\ ring' = [ring EXCEPT ![tail] = msg] /\ tail' = Following(tail)
      /\ head' = IF count >= Capacity THEN Following(head) ELSE head
      /\ count' = IF count >= Capacity THEN count ELSE count + 1
  BY DEF PushFrame, Push, At, Goto, port
<1>2. /\ msg \in Surfaces /\ msg \in Messages /\ msg # NoMsg
      /\ owner # "gone" /\ ~(owner = "free" /\ ~running)
  BY <1>1, InHand DEF Handling
<1>3. /\ ring' \in [Cells -> Surfaces \cup {NoMsg}]
      /\ head' \in Cells /\ tail' \in Cells /\ count' \in 0 .. Capacity
      /\ QueueInv'
  BY <1>1, <1>2, PushRing
<1>4. TypeOK' /\ ClientsInv'
  <2>1. HostTypeOK'
    BY <1>1, <1>2, <1>3 DEF HostInv, TypeOK, HostTypeOK, Steps
  <2>2. ClientTypeOK' /\ ClientsInv'
    BY DEF HostInv, TypeOK, clientVars, ClientTypeOK, ClientsInv
  <2> QED BY <2>1, <2>2 DEF TypeOK
<1>5. ThreadInv'
  BY <1>1, <1>2 DEF ThreadInv, Handling
<1>6. NotifyInv'
  BY <1>1 DEF HostInv, NotifyInv, Active, Due
<1> QED BY <1>3, <1>4, <1>5, <1>6 DEF HostInv

LEMMA ConsumerKeeps ==
  ASSUME HostInv, NEW k \in Consumers, PopFrame(k) \/ ReleaseFramePort(k),
         UNCHANGED clientVars
  PROVE  HostInv'
<1>1. /\ UNCHANGED <<inbox, portOpen, ring, tail, hpc, msg, reply, running, owner,
                     notified>>
      /\ rights' \subseteq rights
  BY DEF PopFrame, ReleaseFramePort, port, queueVars, threadVars
<1>2. /\ head' \in Cells /\ count' \in 0 .. Capacity /\ QueueInv'
      /\ hands' \in [Consumers -> Surfaces \cup {NoMsg}]
      /\ popped' \in [Clients -> 0 .. MaxFrames]
  <2>1. CASE PopFrame(k)
    <3>1. ring[head] \in Surfaces /\ head' \in Cells /\ count' \in 0 .. Capacity /\ QueueInv'
      BY <2>1, PopRing DEF PopFrame
    <3>2. ring[head].index \in 0 .. MaxFrames
      BY <3>1, SurfaceParts
    <3> QED BY <2>1, <3>1, <3>2 DEF PopFrame, HostInv, TypeOK, HostTypeOK
  <2>2. CASE ReleaseFramePort(k)
    <3>1. QueueInv'
      BY <2>2, QueueUntouched DEF ReleaseFramePort, HostInv
    <3> QED BY <2>2, <3>1 DEF ReleaseFramePort, HostInv, TypeOK, HostTypeOK, queueVars
  <2> QED BY <2>1, <2>2
<1>3. TypeOK' /\ ClientsInv'
  <2>1. HostTypeOK'
    BY <1>1, <1>2 DEF HostInv, TypeOK, HostTypeOK
  <2>2. ClientTypeOK' /\ ClientsInv'
    BY DEF HostInv, TypeOK, clientVars, ClientTypeOK, ClientsInv
  <2> QED BY <2>1, <2>2 DEF TypeOK
<1>4. ThreadInv'
  BY <1>1 DEF HostInv, ThreadInv
<1>5. NotifyInv'
  BY <1>1 DEF HostInv, NotifyInv, Active, Due
<1> QED BY <1>2, <1>3, <1>4, <1>5 DEF HostInv
-----------------------------------------------------------------------------
(* The owner, and the invariant.                                            *)

LEMMA DestroyRing ==
  ASSUME HostInv, UNCHANGED <<ring, tail>>,
         head' = (head + count) % Capacity, count' = 0
  PROVE  head' \in Cells /\ count' \in 0 .. Capacity /\ QueueInv'
<1>1. head \in Cells /\ count \in 0 .. Capacity /\ Capacity \in Nat \ {0}
      /\ tail = Place(head, count)
  BY HostAssumption DEF HostInv, TypeOK, HostTypeOK, QueueInv
<1>2. head' = tail /\ head' \in Cells
  BY <1>1, Wrap DEF Place, Ahead
<1>3. tail' = Place(head', count')
  BY <1>2, FollowingIs
<1>4. QueueInv'
  BY <1>3 DEF QueueInv, Place, Ahead
<1> QED BY <1>1, <1>2, <1>4

LEMMA OwnerKeeps ==
  ASSUME HostInv, UNCHANGED clientVars,
         \/ \E created \in BOOLEAN : StartHost(created)
         \/ \E then \in {"stop", "destroy"} : StopHost(then)
         \/ JoinThread \/ DestroyHost
  PROVE  HostInv'
<1>1. ClientTypeOK' /\ ClientsInv'
  BY DEF HostInv, TypeOK, clientVars, ClientTypeOK, ClientsInv
<1>2. CASE (\E created \in BOOLEAN : StartHost(created))
           \/ (\E then \in {"stop", "destroy"} : StopHost(then)) \/ JoinThread
  <2>1. /\ UNCHANGED <<inbox, portOpen, ring, head, tail, count, msg, reply, hands,
                       rights, notified, popped>>
        /\ UNCHANGED queueVars
    BY <1>2 DEF StartHost, StopHost, JoinThread, port, queueVars, threadVars
  <2>2. \/ /\ owner = "free" /\ owner' = "free" /\ ~running /\ running' = TRUE
           /\ hpc' \in {"loop", "none"}
        \/ /\ owner = "free" /\ owner' \in {"stop", "destroy"} /\ running' = FALSE
           /\ hpc' = hpc
        \/ /\ owner = "stop" /\ owner' = "free" /\ hpc = "none" /\ hpc' = hpc
           /\ running' = running
    BY <1>2 DEF StartHost, StopHost, JoinThread, threadVars
  <2>3. hpc' = hpc \/ (hpc = "none" /\ hpc' = "loop")
    BY <2>2 DEF HostInv, ThreadInv
  <2>4. TypeOK'
    BY <1>1, <2>1, <2>2, <2>3 DEF HostInv, TypeOK, HostTypeOK, Steps
  <2>5. ThreadInv'
    BY <2>1, <2>2, <2>3 DEF HostInv, ThreadInv, Handling
  <2>6. QueueInv'
    BY <2>1, QueueUntouched DEF HostInv
  <2>7. NotifyInv'
    BY <2>1, <2>2, <2>3 DEF HostInv, NotifyInv, Active, Due
  <2> QED BY <1>1, <2>4, <2>5, <2>6, <2>7 DEF HostInv
<1>3. CASE DestroyHost
  <2>1. /\ hpc = "none" /\ owner' = "gone"
        /\ UNCHANGED <<ring, tail, hpc, msg, running, hands, notified, popped>>
        /\ rights' \subseteq rights
        /\ reply' = [c \in Clients |-> NoMsg]
        /\ inbox' = <<>> /\ portOpen' = FALSE
        /\ head' = (head + count) % Capacity /\ count' = 0
    BY <1>3 DEF DestroyHost, threadVars
  <2>2. head' \in Cells /\ count' \in 0 .. Capacity /\ QueueInv'
    BY <2>1, DestroyRing
  <2>3. HostTypeOK'
    <3>1. inbox' \in Seq(Messages) /\ Len(inbox') <= PortLimit
      BY <2>1, PortAssumption
    <3>2. reply' \in [Clients -> Hellos \cup {NoMsg}]
      BY <2>1
    <3>3. HostTypeOK
      BY DEF HostInv, TypeOK
    <3> QED BY <2>1, <2>2, <3>1, <3>2, <3>3 DEF HostTypeOK
  <2>4. ThreadInv'
    BY <2>1 DEF HostInv, ThreadInv, Handling
  <2>5. NotifyInv'
    BY <2>1 DEF NotifyInv
  <2> QED BY <1>1, <2>2, <2>3, <2>4, <2>5 DEF HostInv, TypeOK
<1> QED BY <1>2, <1>3

LEMMA InitHost == Init => HostInv
<1> SUFFICES ASSUME Init PROVE HostInv
  OBVIOUS
<1>1. Capacity \in Nat \ {0} /\ 0 \in Cells /\ 0 \in 0 .. Capacity
  BY HostAssumption DEF Cells
<1>2. HostTypeOK
  <2>1. inbox \in Seq(Messages) /\ Len(inbox) <= PortLimit
    BY PortAssumption DEF Init, HostInit
  <2> QED BY <1>1, <2>1, BoundsAssumption DEF Init, HostInit, HostTypeOK, Steps
<1>3. ClientTypeOK /\ ClientsInv
  BY BoundsAssumption DEF Init, ClientInit, ClientTypeOK, ClientsInv
<1>4. ThreadInv
  BY DEF Init, HostInit, ThreadInv, Handling
<1>5. QueueInv
  <2>1. tail = Place(head, count)
    BY <1>1, FollowingIs DEF Init, HostInit
  <2> QED BY <2>1 DEF Init, HostInit, QueueInv
<1>6. NotifyInv
  BY DEF Init, HostInit, NotifyInv, Active, Due
<1> QED BY <1>2, <1>3, <1>4, <1>5, <1>6 DEF HostInv, TypeOK

LEMMA StutterKeeps ==
  ASSUME HostInv, UNCHANGED vars
  PROVE  HostInv'
<1>1. UNCHANGED hostVars /\ UNCHANGED <<port, inbox, portOpen, clientVars>>
  BY DEF vars, port
<1>2. ClientTypeOK' /\ ClientsInv'
  BY <1>1 DEF HostInv, TypeOK, clientVars, ClientTypeOK, ClientsInv
<1> QED BY <1>1, <1>2, HostUntouched DEF HostInv, TypeOK, HostTypeOK

LEMMA StepKeepsHost == HostInv /\ [Next]_vars => HostInv'
<1> SUFFICES ASSUME HostInv, [Next]_vars PROVE HostInv'
  OBVIOUS
<1>1. CASE HostNext /\ UNCHANGED clientVars
  <2>1. CASE ServiceThread
    BY <1>1, <2>1, LoopKeeps, ReceiveKeeps, HelloKeeps, CallbackKeeps, GoodbyeKeeps,
       LookUpKeeps, PushKeeps DEF ServiceThread
  <2>2. CASE \E k \in Consumers : PopFrame(k) \/ ReleaseFramePort(k)
    BY <1>1, <2>2, ConsumerKeeps
  <2> QED BY <1>1, <2>1, <2>2, OwnerKeeps DEF HostNext
<1>2. CASE ClientNext /\ UNCHANGED hostVars
  BY <1>2, ClientKeeps
<1>3. CASE UNCHANGED vars
  BY <1>3, StutterKeeps
<1> QED BY <1>1, <1>2, <1>3 DEF Next

LEMMA HostInvariant == Spec => []HostInv
<1> QED BY InitHost, StepKeepsHost, PTL DEF Spec

\* Every variable of the host and its clients keeps its type: no counter of the
\* queue leaves the ring, no send exceeds the port.
THEOREM TypeCorrect == Spec => []TypeOK
<1>1. HostInv => TypeOK
  BY DEF HostInv
<1> QED BY <1>1, HostInvariant, PTL

\* Between two messages the callbacks have told the application of each client
\* exactly what the table says, through refreshed connections, refusals, goodbyes of
\* strangers, stops and restarts of the thread.
THEOREM CallbacksMatch == Spec => []NotificationsMatch
<1>1. HostInv => NotificationsMatch
  BY DEF HostInv, ThreadInv, NotifyInv, NotificationsMatch, Due, Handling
<1> QED BY <1>1, HostInvariant, PTL
-----------------------------------------------------------------------------
(* The ring implements the bounded queue.                                   *)

QueueView ==
  /\ Queue \in Seq(Surfaces) /\ Len(Queue) = count /\ count \in 0 .. Capacity
  /\ \A i \in 1 .. count : Queue[i] = ring[Place(head, i - 1)]

LEMMA QueueIs == HostInv => QueueView
<1> SUFFICES ASSUME HostInv PROVE QueueView
  OBVIOUS
<1>1. /\ head \in Cells /\ count \in 0 .. Capacity /\ Capacity \in Nat \ {0}
      /\ \A i \in 0 .. Capacity : i < count => ring[Place(head, i)] \in Surfaces
  BY HostAssumption DEF HostInv, TypeOK, HostTypeOK, QueueInv
<1>2. ASSUME NEW i \in 1 .. count
      PROVE  Queue[i] = ring[Place(head, i - 1)] /\ Queue[i] \in Surfaces
  <2>1. i - 1 \in 0 .. Capacity /\ i - 1 < count
    BY <1>1
  <2>2. head + i - 1 = head + (i - 1)
    BY <1>1 DEF Cells
  <2>3. (head + i - 1) % Capacity = Place(head, i - 1)
    BY <2>2, Zenon DEF Place, Ahead
  <2>4. Queue[i] = ring[Place(head, i - 1)]
    BY <2>3, Zenon DEF Queue
  <2> QED BY <1>1, <2>1, <2>4
<1>3. count \in Nat /\ Queue = [i \in 1 .. count |-> Queue[i]]
  BY <1>1 DEF Queue
<1>4. Queue \in [1 .. count -> Surfaces]
  BY <1>2, <1>3
<1>5. Queue \in Seq(Surfaces) /\ Len(Queue) = count
  BY <1>3, <1>4
<1> QED BY <1>1, <1>2, <1>5 DEF QueueView

LEMMA QueueIsNext == HostInv' => QueueView'
<1> QED BY QueueIs, PTL

LEMMA PushImplements ==
  ASSUME HostInv, HostInv', PushFrame
  PROVE  Waiting!Push(msg) /\ msg \in Surfaces
<1>1. /\ hpc = "push"
      /\ ring' = [ring EXCEPT ![tail] = msg] /\ tail' = Following(tail)
      /\ head' = IF count >= Capacity THEN Following(head) ELSE head
      /\ count' = IF count >= Capacity THEN count ELSE count + 1
  BY DEF PushFrame, Push, At
<1>2. msg \in Surfaces
  BY <1>1, InHand DEF Handling
<1>3. QueueView /\ QueueView' /\ Capacity \in Nat \ {0}
  BY QueueIs, QueueIsNext, HostAssumption
<1>4. /\ count < Capacity =>
           /\ ring'[Place(head', count)] = msg
           /\ \A i \in 0 .. Capacity : i < count => ring'[Place(head', i)] = ring[Place(head, i)]
      /\ count >= Capacity =>
           /\ ring'[Place(head', count - 1)] = msg
           /\ \A i \in 0 .. Capacity :
                i < count - 1 => ring'[Place(head', i)] = ring[Place(head, i + 1)]
  BY <1>1, <1>2, PushRing
<1>5. /\ Queue \in Seq(Surfaces) /\ Len(Queue) = count /\ count \in 0 .. Capacity
      /\ Queue' \in Seq(Surfaces) /\ Len(Queue') = count' /\ count' \in 0 .. Capacity
      /\ \A i \in 1 .. count : Queue[i] = ring[Place(head, i - 1)]
      /\ \A i \in 1 .. count' : Queue'[i] = ring'[Place(head', i - 1)]
  BY <1>3 DEF QueueView, Place, Ahead
<1>6. CASE count < Capacity
  <2> DEFINE new == Append(Queue, msg)
  <2>1. /\ new \in Seq(Surfaces) /\ Len(new) = count + 1 /\ new[count + 1] = msg
        /\ \A i \in 1 .. count : new[i] = Queue[i]
    BY <1>2, <1>5
  <2>2. count' = count + 1 /\ count \in Nat
    BY <1>1, <1>5, <1>6, <1>3
  <2>3. ASSUME NEW i \in 1 .. count' PROVE Queue'[i] = new[i]
    <3>1. CASE i = count + 1
      BY <1>4, <1>5, <1>6, <2>1, <2>2, <3>1
    <3>2. CASE i # count + 1
      <4>1. i \in 1 .. count /\ i - 1 \in 0 .. Capacity /\ i - 1 < count
        BY <1>3, <1>5, <2>2, <2>3, <3>2
      <4> QED BY <1>4, <1>5, <1>6, <2>1, <4>1
    <3> QED BY <3>1, <3>2
  <2>4. Queue' = new
    BY <1>5, <2>1, <2>2, <2>3, SeqEqual
  <2> QED BY <1>2, <1>5, <1>6, <2>4 DEF Waiting!Push
<1>7. CASE count >= Capacity
  <2> DEFINE new == Append(Tail(Queue), msg)
  <2>1. count = Capacity /\ count' = count /\ count \in Nat \ {0}
    BY <1>1, <1>3, <1>5, <1>7
  <2>2. /\ Tail(Queue) \in Seq(Surfaces) /\ Len(Tail(Queue)) = count - 1
        /\ \A i \in 1 .. count - 1 : Tail(Queue)[i] = Queue[i + 1]
    BY <1>5, <2>1
  <2>3. /\ new \in Seq(Surfaces) /\ Len(new) = count /\ new[count] = msg
        /\ \A i \in 1 .. count - 1 : new[i] = Queue[i + 1]
    BY <1>2, <2>1, <2>2
  <2>4. ASSUME NEW i \in 1 .. count' PROVE Queue'[i] = new[i]
    <3>1. CASE i = count
      BY <1>4, <1>5, <1>7, <2>1, <2>3, <3>1
    <3>2. CASE i # count
      <4>1. /\ i \in 1 .. count - 1 /\ i - 1 \in 0 .. Capacity /\ i - 1 < count - 1
            /\ i + 1 \in 1 .. count /\ (i - 1) + 1 = (i + 1) - 1
        BY <1>5, <2>1, <3>2
      <4>2. Queue'[i] = ring'[Place(head', i - 1)]
        BY <1>5, <2>4
      <4>3. ring'[Place(head', i - 1)] = ring[Place(head, (i - 1) + 1)]
        BY <1>4, <1>7, <4>1
      <4>4. Queue[i + 1] = ring[Place(head, (i + 1) - 1)]
        BY <1>5, <4>1
      <4> QED BY <2>3, <4>1, <4>2, <4>3, <4>4
    <3> QED BY <3>1, <3>2
  <2>5. Queue' = new
    BY <1>5, <2>1, <2>3, <2>4, SeqEqual
  <2> QED BY <1>2, <1>5, <2>1, <2>5 DEF Waiting!Push
<1> QED BY <1>3, <1>5, <1>6, <1>7

LEMMA PopImplements ==
  ASSUME HostInv, HostInv', NEW k \in Consumers, PopFrame(k)
  PROVE  Waiting!Pop
<1>1. /\ count > 0 /\ UNCHANGED <<ring, tail>>
      /\ head' = Following(head) /\ count' = count - 1
  BY DEF PopFrame
<1>2. QueueView /\ QueueView'
  BY QueueIs, QueueIsNext
<1>3. \A i \in 0 .. Capacity : i < count' => Place(head', i) = Place(head, i + 1)
  BY <1>1, PopRing
<1>4. /\ Queue \in Seq(Surfaces) /\ Len(Queue) = count /\ count \in 0 .. Capacity
      /\ Queue' \in Seq(Surfaces) /\ Len(Queue') = count' /\ count' \in 0 .. Capacity
      /\ \A i \in 1 .. count : Queue[i] = ring[Place(head, i - 1)]
      /\ \A i \in 1 .. count' : Queue'[i] = ring'[Place(head', i - 1)]
  BY <1>2 DEF QueueView, Place, Ahead
<1>5. /\ Queue # <<>> /\ count \in Nat \ {0}
      /\ Tail(Queue) \in Seq(Surfaces) /\ Len(Tail(Queue)) = count - 1
      /\ \A i \in 1 .. count - 1 : Tail(Queue)[i] = Queue[i + 1]
  BY <1>1, <1>4
<1>6. ASSUME NEW i \in 1 .. count' PROVE Queue'[i] = Tail(Queue)[i]
  <2>1. /\ i \in 1 .. count - 1 /\ i - 1 \in 0 .. Capacity /\ i - 1 < count'
        /\ i + 1 \in 1 .. count /\ (i - 1) + 1 = (i + 1) - 1
    BY <1>1, <1>4, <1>5, <1>6, HostAssumption
  <2>2. Queue'[i] = ring[Place(head', i - 1)]
    BY <1>1, <1>4
  <2>3. Place(head', i - 1) = Place(head, (i - 1) + 1)
    BY <1>3, <2>1
  <2>4. Queue[i + 1] = ring[Place(head, (i + 1) - 1)]
    BY <1>4, <2>1
  <2> QED BY <1>5, <2>1, <2>2, <2>3, <2>4
<1>7. Queue' = Tail(Queue)
  BY <1>1, <1>4, <1>5, <1>6, SeqEqual
<1> QED BY <1>5, <1>7 DEF Waiting!Pop

\* A push, a pop and the end are those of the bounded queue; every other step leaves
\* the ring alone.
LEMMA StepImplements ==
  HostInv /\ HostInv' /\ [Next]_vars => [Waiting!Next]_Queue
<1> SUFFICES ASSUME HostInv, HostInv', [Next]_vars PROVE [Waiting!Next]_Queue
  OBVIOUS
<1>1. ASSUME UNCHANGED queueVars PROVE UNCHANGED Queue
  BY <1>1, Zenon DEF queueVars, Queue
<1>2. CASE PushFrame
  BY <1>2, PushImplements DEF Waiting!Next
<1>3. CASE \E k \in Consumers : PopFrame(k)
  BY <1>3, PopImplements DEF Waiting!Next
<1>4. CASE DestroyHost
  <2>1. QueueView' /\ count' = 0
    BY <1>4, QueueIsNext DEF DestroyHost
  <2>2. Queue' = <<>>
    BY <2>1 DEF QueueView
  <2> QED BY <2>2 DEF Waiting!Next, Waiting!Discard
<1>5. ASSUME ~PushFrame, ~DestroyHost, ~\E k \in Consumers : PopFrame(k)
      PROVE  UNCHANGED queueVars
  <2>1. CASE ServiceThread
    BY <1>5, <2>1 DEF ServiceThread, EnterLoop, ReceiveTimesOut, Receive, RefreshClient,
       Refresh, AdmitClient, RefuseClient, ConnectedCallback, HandleGoodbye, Forget,
       DisconnectedCallback, LookUpSender, FrameCallback
  <2>2. CASE \E k \in Consumers : ReleaseFramePort(k)
    BY <2>2 DEF ReleaseFramePort
  <2>3. CASE (\E created \in BOOLEAN : StartHost(created))
             \/ (\E then \in {"stop", "destroy"} : StopHost(then)) \/ JoinThread
    BY <2>3 DEF StartHost, StopHost, JoinThread
  <2>4. CASE UNCHANGED hostVars
    BY <2>4 DEF hostVars
  <2>5. CASE UNCHANGED vars
    BY <2>5 DEF vars, hostVars
  <2> QED BY <1>5, <2>1, <2>2, <2>3, <2>4, <2>5 DEF Next, HostNext
<1> QED BY <1>1, <1>2, <1>3, <1>4, <1>5

\* The ring is the bounded queue that drops its oldest frame, for a queue of any size
\* and a head that has gone round it any number of times.
THEOREM ImplementsQueue == Spec => QueueSpec
<1>1. Init => Waiting!Init
  <2> SUFFICES ASSUME Init PROVE Queue = <<>>
    BY DEF Waiting!Init
  <2>1. QueueView /\ count = 0
    BY InitHost, QueueIs DEF Init, HostInit
  <2> QED BY <2>1 DEF QueueView
<1> QED BY <1>1, InitHost, StepKeepsHost, StepImplements, PTL
        DEF Spec, QueueSpec, Waiting!Spec
-----------------------------------------------------------------------------
(* The way of a message.                                                    *)

\* The message being handled has not been given a place yet.
Arriving == hpc \in {"hello", "frame", "push"}

\* m was sent before n, as far as two messages of one client and kind show it.
Older(m, n) ==
  m.client = n.client =>
    /\ m.kind = "hello" /\ n.kind = "hello" => m.conn < n.conn
    /\ m.kind = "frame" /\ n.kind = "frame" => m.index < n.index

\* m has been sent, and no consumer has had it or a later frame of its client.
LastSent == [c \in Clients |-> IF spc[c] = "blocked" THEN submits[c] - 1 ELSE submits[c]]
Within(m, conns, low, high) ==
  /\ m.kind = "hello" => m.conn <= conns[m.client]
  /\ m.kind = "frame" => low[m.client] < m.index /\ m.index <= high[m.client]
Sent(m) == Within(m, connects, popped, LastSent)

PortInv ==
  \A j \in 1 .. Len(inbox) :
    /\ Sent(inbox[j])
    /\ \A i \in 1 .. j - 1 : Older(inbox[i], inbox[j])
    /\ Arriving => Older(msg, inbox[j])
    /\ \A i \in 1 .. count : Older(Queue[i], inbox[j])
    /\ \A c \in Clients : Active(c) => Older(reply[c], inbox[j])

HandlerInv ==
  Arriving => /\ Sent(msg)
              /\ \A i \in 1 .. count : Older(Queue[i], msg)
              /\ \A c \in Clients : Active(c) => Older(reply[c], msg)

LineInv ==
  \A j \in 1 .. count :
    /\ Sent(Queue[j])
    /\ \A i \in 1 .. j - 1 : Older(Queue[i], Queue[j])

TableInv ==
  \A c \in Clients : Active(c) => reply[c].client = c /\ Sent(reply[c])

HandsInv ==
  \A k \in Consumers : hands[k] # NoMsg =>
    /\ hands[k].index <= popped[hands[k].client]
    /\ \A j \in Consumers \ {k} : hands[j] # hands[k]

PoppedInv == \A c \in Clients : popped[c] <= LastSent[c]

WayInv == PortInv /\ HandlerInv /\ LineInv /\ TableInv /\ HandsInv /\ PoppedInv

\* The types of what stands on the way.
LEMMA OnWay ==
  ASSUME HostInv
  PROVE  /\ \A j \in 1 .. Len(inbox) : inbox[j] \in Messages
         /\ \A j \in 1 .. count : Queue[j] \in Surfaces /\ Queue[j] \in Messages
         /\ \A c \in Clients : Active(c) => reply[c] \in Hellos /\ reply[c] \in Messages
         /\ Arriving => msg \in Messages /\ msg # NoMsg /\ msg.client \in Clients
         /\ count \in Nat /\ Len(inbox) \in Nat
<1>1. /\ Queue \in Seq(Surfaces) /\ Len(Queue) = count /\ count \in 0 .. Capacity
  BY QueueIs DEF QueueView
<1>2. inbox \in Seq(Messages) /\ reply \in [Clients -> Hellos \cup {NoMsg}]
  BY DEF HostInv, TypeOK, HostTypeOK
<1>3. Arriving => msg \in Messages /\ msg # NoMsg /\ msg.client \in Clients
  BY InHand DEF Arriving, Handling
<1>4. count \in Nat
  BY <1>1, HostAssumption
<1> QED BY <1>1, <1>2, <1>3, <1>4 DEF Active, Messages

\* A client's step that sends nothing, and one that sends m.
LEMMA QuietWay ==
  ASSUME HostInv, WayInv, UNCHANGED hostVars, UNCHANGED inbox,
         \A x \in Messages : Sent(x) => Sent(x)',
         PoppedInv'
  PROVE  WayInv'
<1>1. UNCHANGED <<ring, head, tail, count, hpc, msg, reply, hands, popped, Queue, inbox>>
  BY DEF hostVars, queueVars, threadVars, Queue
<1>2. PortInv' /\ HandlerInv' /\ LineInv' /\ TableInv'
  BY <1>1, OnWay DEF WayInv, PortInv, HandlerInv, LineInv, TableInv, Arriving, Active, Sent
<1>3. HandsInv'
  BY <1>1, Zenon DEF WayInv, HandsInv
<1> QED BY <1>2, <1>3 DEF WayInv

LEMMA PostWay ==
  ASSUME HostInv, WayInv, UNCHANGED hostVars, NEW m \in Messages, Post(m),
         \A x \in Messages : Sent(x) => Sent(x)' /\ Older(x, m),
         Within(m, connects', popped', LastSent'), PoppedInv'
  PROVE  WayInv'
<1>1. UNCHANGED <<ring, head, tail, count, hpc, msg, reply, hands, popped, Queue>>
  BY DEF hostVars, queueVars, threadVars, Queue
<1>2. /\ Len(inbox') = Len(inbox) + 1 /\ Len(inbox) \in Nat
      /\ inbox'[Len(inbox) + 1] = m
      /\ \A i \in 1 .. Len(inbox) : inbox'[i] = inbox[i]
  BY DEF Post, HostInv, TypeOK, HostTypeOK
<1>3. HandlerInv' /\ LineInv' /\ TableInv'
  BY <1>1, OnWay DEF WayInv, HandlerInv, LineInv, TableInv, Arriving, Active, Sent
<1>4. HandsInv'
  BY <1>1, Zenon DEF WayInv, HandsInv
<1>5. PortInv'
  <2> SUFFICES ASSUME NEW j \in 1 .. Len(inbox')
      PROVE  /\ Sent(inbox[j])'
             /\ \A i \in 1 .. j - 1 : Older(inbox'[i], inbox'[j])
             /\ Arriving' => Older(msg', inbox'[j])
             /\ \A i \in 1 .. count' : Older(Queue'[i], inbox'[j])
             /\ \A c \in Clients : Active(c)' => Older(reply'[c], inbox'[j])
    BY DEF PortInv, Sent
  <2>1. CASE j <= Len(inbox)
    <3>1. j \in 1 .. Len(inbox) /\ inbox'[j] = inbox[j]
          /\ \A i \in 1 .. j - 1 : inbox'[i] = inbox[i]
      BY <1>2, <2>1
    <3> QED BY <1>1, <3>1, OnWay DEF WayInv, PortInv, Arriving, Active, Sent
  <2>2. CASE j = Len(inbox) + 1
    <3>1. inbox'[j] = m /\ \A i \in 1 .. j - 1 : inbox'[i] = inbox[i] /\ i \in 1 .. Len(inbox)
      BY <1>2, <2>2
    <3>2. \A i \in 1 .. Len(inbox) : inbox[i] \in Messages /\ Sent(inbox[i])
      BY OnWay DEF WayInv, PortInv
    <3>3. \A i \in 1 .. count : Queue[i] \in Messages /\ Sent(Queue[i])
      BY OnWay DEF WayInv, LineInv
    <3>4. \A c \in Clients : Active(c) => reply[c] \in Messages /\ Sent(reply[c])
      BY OnWay DEF WayInv, TableInv
    <3>5. Arriving => msg \in Messages /\ Sent(msg)
      BY OnWay DEF WayInv, HandlerInv
    <3> QED BY <1>1, <3>1, <3>2, <3>3, <3>4, <3>5 DEF Arriving, Active, Sent
  <2> QED BY <1>2, <2>1, <2>2
<1> QED BY <1>3, <1>4, <1>5 DEF WayInv

\* What the numbers say of the parts of a message.
LEMMA Parts ==
  /\ \A c \in Clients, n \in Int :
       /\ Hello(c, n).kind = "hello" /\ Hello(c, n).client = c /\ Hello(c, n).conn = n
       /\ Frame(c, n).kind = "frame" /\ Frame(c, n).client = c /\ Frame(c, n).index = n
       /\ Goodbye(c).kind = "goodbye" /\ Goodbye(c).client = c
  /\ \A m \in Hellos : m.kind = "hello" /\ m.client \in Clients /\ m.conn \in 1 .. MaxConnects
  /\ \A m \in Surfaces : m.kind = "frame" /\ m.client \in Clients /\ m.index \in 1 .. MaxFrames
BY DEF Hello, Frame, Goodbye, Hellos, Surfaces

\* Numbers that only grow, with nothing handed out, keep what is sent sent.
LEMMA StillSent ==
  ASSUME HostInv, popped' = popped,
         \A c \in Clients : connects[c] <= connects'[c] /\ LastSent[c] <= LastSent'[c],
         LastSent' \in [Clients -> Int], connects' \in [Clients -> Int]
  PROVE  /\ \A m \in Messages : Sent(m) => Sent(m)'
         /\ PoppedInv => PoppedInv'
<1>1. /\ connects \in [Clients -> 0 .. MaxConnects] /\ submits \in [Clients -> 0 .. MaxFrames]
      /\ popped \in [Clients -> 0 .. MaxFrames] /\ MaxConnects \in Nat /\ MaxFrames \in Nat
  BY BoundsAssumption DEF HostInv, TypeOK, HostTypeOK, ClientTypeOK
<1>2. \A c \in Clients : /\ connects[c] \in Int /\ connects'[c] \in Int /\ LastSent[c] \in Int
                         /\ LastSent'[c] \in Int /\ popped[c] \in Int
  BY <1>1 DEF LastSent
<1>3. ASSUME NEW m \in Messages, Sent(m) PROVE Sent(m)'
  <2>1. m.client \in Clients
    BY MessageKinds
  <2>2. m.kind = "hello" => m.conn \in Int
    BY MessageKinds, Parts
  <2>3. m.kind = "frame" => m.index \in Int
    BY MessageKinds, Parts
  <2> QED BY <1>2, <1>3, <2>1, <2>2, <2>3 DEF Sent, Within
<1>4. PoppedInv => PoppedInv'
  BY <1>2 DEF PoppedInv
<1> QED BY <1>3, <1>4

LEMMA ClientWay ==
  ASSUME HostInv, HostInv', WayInv, ClientNext, UNCHANGED hostVars
  PROVE  WayInv'
<1>1. /\ connects \in [Clients -> 0 .. MaxConnects] /\ submits \in [Clients -> 0 .. MaxFrames]
      /\ popped \in [Clients -> 0 .. MaxFrames] /\ MaxConnects \in Nat /\ MaxFrames \in Nat
      /\ spc \in [Clients -> {"idle", "checked", "blocked"}] /\ ClientsInv
      /\ connects' \in [Clients -> 0 .. MaxConnects] /\ submits' \in [Clients -> 0 .. MaxFrames]
  BY BoundsAssumption DEF HostInv, TypeOK, HostTypeOK, ClientTypeOK
<1>2. PICK c \in Clients :
        \/ Connect(c) \/ Disconnect(c) \/ CheckConnection(c) \/ BeginSend(c)
        \/ FailSend(c) \/ FinishSend(c) \/ RestartClient(c)
  BY DEF ClientNext
<1>3. popped' = popped /\ PoppedInv
  BY DEF hostVars, WayInv
<1>4. /\ \A d \in Clients : connects[d] <= connects'[d] /\ LastSent[d] <= LastSent'[d]
      /\ LastSent' \in [Clients -> Int]
  <2>1. CASE Connect(c)
    BY <1>1, <2>1 DEF Connect, LastSent
  <2>2. CASE Disconnect(c)
    BY <1>1, <2>2 DEF Disconnect, LastSent
  <2>3. CASE CheckConnection(c)
    BY <1>1, <2>3 DEF CheckConnection, LastSent
  <2>4. CASE BeginSend(c)
    BY <1>1, <2>4 DEF BeginSend, LastSent
  <2>5. CASE FailSend(c)
    BY <1>1, <2>5 DEF FailSend, LastSent
  <2>6. CASE FinishSend(c)
    BY <1>1, <2>6 DEF FinishSend, LastSent
  <2>7. CASE RestartClient(c)
    BY <1>1, <2>7 DEF RestartClient, LastSent
  <2> QED BY <1>2, <2>1, <2>2, <2>3, <2>4, <2>5, <2>6, <2>7
<1>5. (\A m \in Messages : Sent(m) => Sent(m)') /\ PoppedInv'
  BY <1>1, <1>3, <1>4, StillSent
<1>6. CASE UNCHANGED inbox
  BY <1>5, <1>6, QuietWay
<1>7. CASE Connect(c)
  <2>1. connects[c] + 1 \in 1 .. MaxConnects /\ connects'[c] = connects[c] + 1
    BY <1>1, <1>7 DEF Connect
  <2> DEFINE m == Hello(c, connects[c] + 1)
  <2>2. m \in Messages /\ Post(m)
    BY <1>7, <2>1 DEF Connect, Messages, Hellos
  <2>3. m.kind = "hello" /\ m.client = c /\ m.conn = connects[c] + 1
    BY <2>1, Parts
  <2>4. Within(m, connects', popped', LastSent')
    BY <1>1, <2>1, <2>3 DEF Within
  <2>5. ASSUME NEW x \in Messages, Sent(x) PROVE Older(x, m)
    <3>1. x.kind = "hello" => x.conn \in Int
      BY MessageKinds, Parts
    <3> QED BY <1>1, <2>3, <2>5, <3>1 DEF Sent, Within, Older
  <2> HIDE DEF m
  <2> QED BY <1>5, <2>2, <2>4, <2>5, PostWay
<1>8. CASE Disconnect(c) /\ Post(Goodbye(c))
  <2> DEFINE m == Goodbye(c)
  <2>1. m \in Messages /\ Post(m) /\ m.kind = "goodbye"
    BY <1>8, Parts DEF Messages
  <2>2. Within(m, connects', popped', LastSent') /\ \A x \in Messages : Older(x, m)
    BY <2>1 DEF Sent, Within, Older
  <2> HIDE DEF m
  <2> QED BY <1>5, <2>1, <2>2, PostWay
<1>9. CASE FinishSend(c)
  <2>1. submits[c] \in 1 .. MaxFrames /\ LastSent'[c] = submits[c] /\ LastSent[c] < submits[c]
    BY <1>1, <1>9 DEF FinishSend, ClientsInv, LastSent
  <2> DEFINE m == Frame(c, submits[c])
  <2>2. m \in Messages /\ Post(m)
    BY <1>9, <2>1 DEF FinishSend, Messages, Surfaces
  <2>3. m.kind = "frame" /\ m.client = c /\ m.index = submits[c]
    BY <2>1, Parts
  <2>4. LastSent[c] \in Int
    BY <1>1 DEF LastSent
  <2>5. Within(m, connects', popped', LastSent')
    BY <1>1, <1>3, <2>1, <2>3, <2>4 DEF Within, PoppedInv
  <2>6. ASSUME NEW x \in Messages, Sent(x) PROVE Older(x, m)
    <3>1. x.kind = "frame" => x.index \in Int
      BY MessageKinds, Parts
    <3> QED BY <2>1, <2>3, <2>4, <2>6, <3>1 DEF Sent, Within, Older
  <2> HIDE DEF m
  <2> QED BY <1>5, <2>2, <2>5, <2>6, PostWay
<1> QED BY <1>2, <1>6, <1>7, <1>8, <1>9
       DEF Disconnect, CheckConnection, BeginSend, FailSend, RestartClient, port

\* Steps of the host that move no message along.
LEMMA StayWay ==
  ASSUME HostInv, WayInv, UNCHANGED clientVars,
         UNCHANGED <<inbox, queueVars, reply, hands, popped>>,
         Arriving' => Arriving /\ msg' = msg
  PROVE  WayInv'
<1>1. UNCHANGED <<ring, head, tail, count, Queue, LastSent, connects>>
  BY DEF queueVars, Queue, clientVars, LastSent
<1>2. PortInv' /\ HandlerInv' /\ LineInv' /\ TableInv' /\ PoppedInv'
  BY <1>1 DEF WayInv, PortInv, HandlerInv, LineInv, TableInv, PoppedInv, Active, Sent
<1>3. HandsInv'
  BY Zenon DEF WayInv, HandsInv
<1> QED BY <1>2, <1>3 DEF WayInv

LEMMA ReceiveWay ==
  ASSUME HostInv, WayInv, Receive, UNCHANGED clientVars
  PROVE  WayInv'
<1>1. /\ UNCHANGED <<ring, head, tail, count, Queue, LastSent, connects, popped, reply, hands>>
      /\ hpc = "receive" /\ inbox # <<>> /\ inbox \in Seq(Messages)
      /\ msg' = Head(inbox) /\ inbox' = Tail(inbox)
  BY DEF HostInv, TypeOK, HostTypeOK, Receive, At, queueVars, Queue, clientVars, LastSent
<1>2. /\ Len(inbox) \in Nat \ {0} /\ msg' = inbox[1] /\ Len(inbox') = Len(inbox) - 1
      /\ \A i \in 1 .. Len(inbox') : inbox'[i] = inbox[i + 1]
  BY <1>1
<1>3. 1 \in 1 .. Len(inbox)
      /\ \A i \in 1 .. Len(inbox') : i + 1 \in 1 .. Len(inbox) /\ 1 \in 1 .. (i + 1) - 1
  BY <1>2
<1>4. PortInv'
  <2> SUFFICES ASSUME NEW j \in 1 .. Len(inbox')
      PROVE  /\ Within(inbox'[j], connects', popped', LastSent')
             /\ \A i \in 1 .. j - 1 : Older(inbox'[i], inbox'[j])
             /\ Older(msg', inbox'[j])
             /\ \A i \in 1 .. count' : Older(Queue'[i], inbox'[j])
             /\ \A c \in Clients : Active(c)' => Older(reply'[c], inbox'[j])
    BY DEF PortInv, Sent
  <2>1. /\ j + 1 \in 1 .. Len(inbox) /\ 1 \in 1 .. (j + 1) - 1 /\ inbox'[j] = inbox[j + 1]
        /\ \A i \in 1 .. j - 1 : inbox'[i] = inbox[i + 1] /\ i + 1 \in 1 .. (j + 1) - 1
    BY <1>2, <1>3
  <2>2. /\ Sent(inbox[j + 1])
        /\ \A i \in 1 .. (j + 1) - 1 : Older(inbox[i], inbox[j + 1])
        /\ \A i \in 1 .. count : Older(Queue[i], inbox[j + 1])
        /\ \A c \in Clients : Active(c) => Older(reply[c], inbox[j + 1])
    BY <2>1 DEF WayInv, PortInv
  <2> QED BY <1>1, <1>2, <2>1, <2>2 DEF Sent, Active
<1>5. HandlerInv'
  BY <1>1, <1>2, <1>3 DEF WayInv, PortInv, HandlerInv, Sent, Active
<1>6. LineInv' /\ TableInv' /\ PoppedInv'
  BY <1>1 DEF WayInv, LineInv, TableInv, PoppedInv, Active, Sent
<1>7. HandsInv'
  BY <1>1, Zenon DEF WayInv, HandsInv
<1> QED BY <1>4, <1>5, <1>6, <1>7 DEF WayInv

\* The table takes the reply right that is handled, or forgets one.
LEMMA TableWay ==
  ASSUME HostInv, WayInv, UNCHANGED clientVars,
         UNCHANGED <<inbox, queueVars, hands, popped>>,
         ~Arriving',
         \A c \in Clients : Active(c)' =>
           \/ Active(c) /\ reply'[c] = reply[c]
           \/ Arriving /\ reply'[c] = msg /\ msg.client = c
  PROVE  WayInv'
<1>1. UNCHANGED <<ring, head, tail, count, Queue, LastSent, connects>>
  BY DEF queueVars, Queue, clientVars, LastSent
<1>2. PortInv' /\ HandlerInv' /\ LineInv' /\ TableInv' /\ PoppedInv'
  BY <1>1 DEF WayInv, PortInv, HandlerInv, LineInv, TableInv, PoppedInv, Active, Sent
<1>3. HandsInv'
  BY Zenon DEF WayInv, HandsInv
<1> QED BY <1>2, <1>3 DEF WayInv

LEMMA PushWay ==
  ASSUME HostInv, HostInv', WayInv, PushFrame, UNCHANGED clientVars
  PROVE  WayInv'
<1>1. /\ UNCHANGED <<inbox, LastSent, connects, popped, reply, hands>>
      /\ hpc = "push" /\ hpc' = "frame_cb" /\ msg \in Surfaces
      /\ Waiting!Push(msg)
  BY PushImplements DEF PushFrame, Push, At, Goto, port, clientVars, LastSent
<1>2. /\ Queue \in Seq(Surfaces) /\ Len(Queue) = count /\ count \in 0 .. Capacity
      /\ Queue' \in Seq(Surfaces) /\ Len(Queue') = count' /\ count' \in 0 .. Capacity
      /\ Capacity \in Nat \ {0}
  BY QueueIs, QueueIsNext, HostAssumption DEF QueueView
<1>3. PICK d \in {0, 1} :
        /\ d <= count /\ count' = (count - d) + 1
        /\ \A i \in 1 .. count - d : Queue'[i] = Queue[i + d]
        /\ Queue'[count'] = msg
  <2>1. CASE Len(Queue) < Capacity
    <3>1. Queue' = Append(Queue, msg)
      BY <1>1, <2>1 DEF Waiting!Push
    <3>2. /\ count' = (count - 0) + 1 /\ 0 <= count /\ Queue'[count'] = msg
          /\ \A i \in 1 .. count - 0 : Queue'[i] = Queue[i + 0]
      <4>1. count' = count + 1 /\ Queue'[count + 1] = msg /\ count \in Nat
            /\ \A i \in 1 .. count : Queue'[i] = Queue[i]
        BY <1>1, <1>2, <3>1
      <4> QED BY <4>1
    <3> QED BY <3>2
  <2>2. CASE ~(Len(Queue) < Capacity)
    <3>1. Queue' = Append(Tail(Queue), msg)
      BY <1>1, <2>2 DEF Waiting!Push
    <3>2. Tail(Queue) \in Seq(Surfaces) /\ Len(Tail(Queue)) = count - 1
          /\ \A i \in 1 .. count - 1 : Tail(Queue)[i] = Queue[i + 1]
      BY <1>2, <2>2
    <3>3. /\ count' = (count - 1) + 1 /\ 1 <= count /\ Queue'[count'] = msg
          /\ \A i \in 1 .. count - 1 : Queue'[i] = Queue[i + 1]
      <4>1. count' = count /\ Queue'[count] = msg /\ count \in Nat \ {0}
            /\ \A i \in 1 .. count - 1 : Queue'[i] = Tail(Queue)[i]
        BY <1>1, <1>2, <2>2, <3>1, <3>2
      <4> QED BY <3>2, <4>1
    <3> QED BY <3>3
  <2> QED BY <2>1, <2>2
<1>4. \A i \in 1 .. count' : \/ i = count' /\ Queue'[i] = msg
                             \/ /\ i \in 1 .. count - d /\ i + d \in 1 .. count
                                /\ Queue'[i] = Queue[i + d]
  BY <1>2, <1>3
<1>5. Arriving /\ ~Arriving'
  BY <1>1 DEF Arriving
<1>6. PortInv' /\ TableInv' /\ PoppedInv' /\ HandlerInv'
  BY <1>1, <1>4, <1>5 DEF WayInv, PortInv, TableInv, HandlerInv, PoppedInv, Active, Sent
<1>7. LineInv'
  <2> SUFFICES ASSUME NEW j \in 1 .. count'
      PROVE  /\ Within(Queue'[j], connects', popped', LastSent')
             /\ \A i \in 1 .. j - 1 : Older(Queue'[i], Queue'[j])
    BY DEF LineInv, Sent
  <2>1. \A i \in 1 .. j - 1 : /\ i \in 1 .. count - d /\ i + d \in 1 .. count
                              /\ i + d \in 1 .. (j + d) - 1 /\ Queue'[i] = Queue[i + d]
    BY <1>2, <1>3
  <2> QED BY <1>1, <1>4, <1>5, <2>1 DEF WayInv, HandlerInv, LineInv, Sent
<1>8. HandsInv'
  BY <1>1, Zenon DEF WayInv, HandsInv
<1> QED BY <1>6, <1>7, <1>8 DEF WayInv

LEMMA PopWay ==
  ASSUME HostInv, HostInv', WayInv, NEW k \in Consumers, PopFrame(k), UNCHANGED clientVars
  PROVE  WayInv'
<1>1. /\ UNCHANGED <<inbox, LastSent, connects, reply, hpc, msg>>
      /\ count > 0 /\ hands[k] = NoMsg
      /\ hands' = [hands EXCEPT ![k] = ring[head]]
      /\ popped' = [popped EXCEPT ![ring[head].client] = ring[head].index]
  BY DEF PopFrame, port, threadVars, clientVars, LastSent
<1>2. /\ Queue \in Seq(Surfaces) /\ Len(Queue) = count /\ count \in Nat \ {0}
      /\ Queue' = Tail(Queue)
      /\ hands \in [Consumers -> Surfaces \cup {NoMsg}] /\ popped \in [Clients -> 0 .. MaxFrames]
      /\ Queue[1] = ring[Place(head, 0)] /\ Place(head, 0) = head
      /\ count' = Len(Queue')
  BY <1>1, QueueIs, QueueIsNext, PopImplements, HostAssumption, FollowingIs
     DEF QueueView, Waiting!Pop, HostInv, TypeOK, HostTypeOK
<1>3. PICK m \in Surfaces : m = Queue[1] /\ m = ring[head]
  BY <1>2
<1>4. m.kind = "frame" /\ m.client \in Clients /\ m.index \in 1 .. MaxFrames /\ m # NoMsg
      /\ m \in Messages
  BY Parts, HostAssumption DEF Messages
<1>5. /\ count' = count - 1
      /\ \A i \in 1 .. count' : Queue'[i] = Queue[i + 1] /\ i + 1 \in 1 .. count
                                /\ 1 \in 1 .. (i + 1) - 1
      /\ 1 \in 1 .. count
  BY <1>2
<1>6. /\ popped'[m.client] = m.index
      /\ \A c \in Clients : c # m.client => popped'[c] = popped[c]
      /\ popped[m.client] < m.index /\ m.index <= LastSent[m.client]
  BY <1>1, <1>2, <1>3, <1>4, <1>5 DEF WayInv, LineInv, Sent, Within
<1>7. ASSUME NEW x \in Messages, Sent(x), Older(m, x)
      PROVE  Within(x, connects', popped', LastSent')
  <2>1. x.client \in Clients
    BY MessageKinds
  <2> QED BY <1>1, <1>4, <1>6, <1>7, <2>1 DEF Sent, Within, Older
<1>8. PortInv'
  <2> SUFFICES ASSUME NEW j \in 1 .. Len(inbox)
      PROVE  /\ Within(inbox[j], connects', popped', LastSent')
             /\ \A i \in 1 .. j - 1 : Older(inbox[i], inbox[j])
             /\ Arriving' => Older(msg, inbox[j])
             /\ \A i \in 1 .. count' : Older(Queue'[i], inbox[j])
             /\ \A c \in Clients : Active(c)' => Older(reply[c], inbox[j])
    BY <1>1 DEF PortInv, Sent
  <2>1. inbox[j] \in Messages /\ Sent(inbox[j]) /\ Older(m, inbox[j])
    BY <1>3, <1>5, OnWay DEF WayInv, PortInv
  <2>2. Within(inbox[j], connects', popped', LastSent')
    BY <1>7, <2>1
  <2> QED BY <1>1, <1>5, <2>2 DEF WayInv, PortInv, Arriving, Active
<1>9. HandlerInv'
  <2>1. ASSUME Arriving
        PROVE  Within(msg, connects', popped', LastSent')
    <3>1. msg \in Messages /\ Sent(msg) /\ Older(m, msg)
      BY <1>3, <1>5, <2>1, OnWay DEF WayInv, HandlerInv
    <3> QED BY <1>7, <3>1
  <2> QED BY <1>1, <1>5, <2>1 DEF WayInv, HandlerInv, Arriving, Active, Sent
<1>10. LineInv'
  <2> SUFFICES ASSUME NEW j \in 1 .. count'
      PROVE  /\ Within(Queue'[j], connects', popped', LastSent')
             /\ \A i \in 1 .. j - 1 : Older(Queue'[i], Queue'[j])
    BY DEF LineInv, Sent
  <2>1. /\ j + 1 \in 1 .. count /\ 1 \in 1 .. (j + 1) - 1 /\ Queue'[j] = Queue[j + 1]
        /\ \A i \in 1 .. j - 1 : i + 1 \in 1 .. (j + 1) - 1 /\ Queue'[i] = Queue[i + 1]
    BY <1>5
  <2>2. /\ Queue[j + 1] \in Messages /\ Sent(Queue[j + 1])
        /\ \A i \in 1 .. (j + 1) - 1 : Older(Queue[i], Queue[j + 1])
    BY <2>1, OnWay DEF WayInv, LineInv
  <2>3. Within(Queue[j + 1], connects', popped', LastSent')
    BY <1>3, <1>7, <2>1, <2>2
  <2> QED BY <2>1, <2>2, <2>3
<1>11. TableInv'
  BY <1>1, OnWay, Parts DEF WayInv, TableInv, Active, Sent, Within
<1>12. PoppedInv'
  BY <1>1, <1>4, <1>6 DEF WayInv, PoppedInv
<1>13. HandsInv'
  <2>1. hands'[k] = m /\ \A j \in Consumers : j # k => hands'[j] = hands[j]
    BY <1>1, <1>2, <1>3
  <2>2. ASSUME NEW j \in Consumers, j # k, hands[j] # NoMsg
        PROVE  /\ hands[j].index <= popped'[hands[j].client] /\ hands[j] # m
               /\ \A l \in Consumers \ {j, k} : hands[l] # hands[j]
    <3>1. hands[j] \in Surfaces /\ hands[j].index <= popped[hands[j].client]
          /\ \A l \in Consumers \ {j} : hands[l] # hands[j]
      BY <1>2, <2>2 DEF WayInv, HandsInv
    <3>2. PICK x \in Surfaces : x = hands[j]
      BY <3>1
    <3>3. x.client \in Clients /\ x.index \in Int /\ popped[x.client] \in Int
      BY <1>2, Parts
    <3>4. x.index <= popped'[x.client] /\ x # m
      <4>1. CASE x.client = m.client
        BY <1>4, <1>6, <3>1, <3>2, <3>3, <4>1
      <4>2. CASE x.client # m.client
        BY <1>6, <3>1, <3>2, <3>3, <4>2
      <4> QED BY <4>1, <4>2
    <3> QED BY <3>1, <3>2, <3>4
  <2> QED BY <1>4, <1>6, <2>1, <2>2 DEF HandsInv
<1> QED BY <1>8, <1>9, <1>10, <1>11, <1>12, <1>13 DEF WayInv

LEMMA ReleaseWay ==
  ASSUME HostInv, WayInv, NEW k \in Consumers, ReleaseFramePort(k), UNCHANGED clientVars
  PROVE  WayInv'
<1>1. /\ UNCHANGED <<inbox, ring, head, tail, count, Queue, LastSent, connects, popped, reply,
                     hpc, msg>>
      /\ hands' = [hands EXCEPT ![k] = NoMsg]
  BY DEF ReleaseFramePort, port, queueVars, threadVars, Queue, clientVars, LastSent
<1>2. PortInv' /\ HandlerInv' /\ LineInv' /\ TableInv' /\ PoppedInv'
  BY <1>1 DEF WayInv, PortInv, HandlerInv, LineInv, TableInv, PoppedInv, Active, Sent, Arriving
<1>3. hands \in [Consumers -> Surfaces \cup {NoMsg}]
  BY DEF HostInv, TypeOK, HostTypeOK
<1>4. \A j \in Consumers : hands'[j] = NoMsg \/ (j # k /\ hands'[j] = hands[j])
  BY <1>1, <1>3
<1>5. HandsInv'
  BY <1>1, <1>4 DEF WayInv, HandsInv
<1> QED BY <1>2, <1>5 DEF WayInv

LEMMA DestroyWay ==
  ASSUME HostInv, HostInv', WayInv, DestroyHost, UNCHANGED clientVars
  PROVE  WayInv'
<1>1. /\ UNCHANGED <<LastSent, connects, popped, hands, hpc>> /\ hpc = "none"
      /\ count' = 0 /\ reply' = [c \in Clients |-> NoMsg] /\ inbox' = <<>>
  BY DEF DestroyHost, threadVars, clientVars, LastSent
<1>2. ~Arriving' /\ Len(inbox') = 0 /\ \A c \in Clients : ~Active(c)'
  BY <1>1 DEF Arriving, Active
<1>3. PortInv' /\ HandlerInv' /\ LineInv' /\ TableInv' /\ PoppedInv'
  BY <1>1, <1>2 DEF WayInv, PortInv, HandlerInv, LineInv, TableInv, PoppedInv
<1>4. HandsInv'
  BY <1>1, Zenon DEF WayInv, HandsInv
<1> QED BY <1>3, <1>4 DEF WayInv

LEMMA InitWay == Init => WayInv
<1> SUFFICES ASSUME Init PROVE WayInv
  OBVIOUS
<1>1. /\ inbox = <<>> /\ count = 0 /\ hpc = "none" /\ reply = [c \in Clients |-> NoMsg]
      /\ hands = [k \in Consumers |-> NoMsg] /\ popped = [c \in Clients |-> 0]
      /\ LastSent = [c \in Clients |-> 0]
  BY DEF Init, HostInit, ClientInit, LastSent
<1>2. Len(inbox) = 0 /\ ~Arriving /\ \A c \in Clients : ~Active(c)
  BY <1>1 DEF Arriving, Active
<1> QED BY <1>1, <1>2 DEF WayInv, PortInv, HandlerInv, LineInv, TableInv, HandsInv, PoppedInv

LEMMA HostWay ==
  ASSUME HostInv, HostInv', WayInv, HostNext, UNCHANGED clientVars
  PROVE  WayInv'
<1>1. CASE EnterLoop \/ ReceiveTimesOut \/ ConnectedCallback \/ DisconnectedCallback
           \/ LookUpSender \/ FrameCallback \/ RefuseClient
  BY <1>1, StayWay
     DEF EnterLoop, ReceiveTimesOut, ConnectedCallback, DisconnectedCallback, LookUpSender,
         FrameCallback, RefuseClient, At, Goto, Return, port, queueVars, Arriving
<1>2. CASE RefreshClient \/ AdmitClient \/ HandleGoodbye
  <2>1. /\ UNCHANGED <<inbox, queueVars, hands, popped>> /\ ~Arriving'
        /\ \/ Arriving /\ reply' = [reply EXCEPT ![msg.client] = msg]
           \/ reply' = [reply EXCEPT ![msg.client] = NoMsg]
           \/ reply' = reply
    BY <1>2 DEF RefreshClient, Refresh, AdmitClient, HandleGoodbye, Forget, At, Goto, Return,
                port, queueVars, Arriving
  <2>2. reply \in [Clients -> Hellos \cup {NoMsg}]
    BY DEF HostInv, TypeOK, HostTypeOK
  <2>3. \A c \in Clients : Active(c)' => \/ Active(c) /\ reply'[c] = reply[c]
                                         \/ Arriving /\ reply'[c] = msg /\ msg.client = c
    BY <2>1, <2>2 DEF Active
  <2> QED BY <2>1, <2>3, TableWay
<1>3. CASE \/ \E created \in BOOLEAN : StartHost(created)
           \/ \E then \in {"stop", "destroy"} : StopHost(then)
           \/ JoinThread
  BY <1>3, StayWay
     DEF StartHost, StopHost, JoinThread, port, queueVars, threadVars, Arriving
<1> QED BY <1>1, <1>2, <1>3, ReceiveWay, PushWay, PopWay, ReleaseWay, DestroyWay
        DEF HostNext, ServiceThread

LEMMA StepKeepsWay == HostInv /\ HostInv' /\ WayInv /\ [Next]_vars => WayInv'
<1> SUFFICES ASSUME HostInv, HostInv', WayInv, [Next]_vars PROVE WayInv'
  OBVIOUS
<1>1. CASE UNCHANGED vars
  BY <1>1, StayWay DEF vars, port, hostVars, threadVars, Arriving
<1> QED BY <1>1, HostWay, ClientWay DEF Next

LEMMA WayInvariant == Spec => [](HostInv /\ WayInv)
BY InitHost, InitWay, StepKeepsHost, StepKeepsWay, PTL DEF Spec

\* Two sequences with a third between them.
LEMMA Joined ==
  ASSUME NEW S, NEW q \in Seq(S), NEW s \in Seq(S), NEW t \in Seq(S)
  PROVE  /\ Len((q \o s) \o t) = Len(q) + Len(s) + Len(t)
         /\ \A i \in 1 .. Len((q \o s) \o t) :
              ((q \o s) \o t)[i] =
                IF i <= Len(q) THEN q[i]
                ELSE IF i <= Len(q) + Len(s) THEN s[i - Len(q)]
                ELSE t[i - (Len(q) + Len(s))]
<1>1. PICK u : u = q \o s
  OBVIOUS
<1>2. /\ u \in Seq(S) /\ Len(u) = Len(q) + Len(s)
      /\ \A i \in 1 .. Len(q) + Len(s) : u[i] = IF i <= Len(q) THEN q[i] ELSE s[i - Len(q)]
  BY <1>1, ConcatProperties
<1>3. u \in Seq(S)
  BY <1>2
<1>4. /\ Len(u \o t) = Len(u) + Len(t)
      /\ \A i \in 1 .. Len(u) + Len(t) :
           (u \o t)[i] = IF i <= Len(u) THEN u[i] ELSE t[i - Len(u)]
  BY <1>3, ConcatProperties
<1>5. Len(q) \in Nat /\ Len(s) \in Nat /\ Len(t) \in Nat
  BY LenProperties
<1>6. ASSUME NEW i \in 1 .. Len(u \o t)
      PROVE  (u \o t)[i] = IF i <= Len(q) THEN q[i]
                           ELSE IF i <= Len(q) + Len(s) THEN s[i - Len(q)]
                           ELSE t[i - (Len(q) + Len(s))]
  <2>1. i \in 1 .. Len(u) + Len(t)
    BY <1>4
  <2>2. CASE i <= Len(u)
    <3>1. i \in 1 .. Len(q) + Len(s)
      BY <1>2, <1>5, <2>1, <2>2
    <3> QED BY <1>2, <1>4, <2>1, <2>2, <3>1
  <2>3. CASE i > Len(u)
    BY <1>2, <1>4, <1>5, <2>1, <2>3
  <2> QED BY <1>2, <1>5, <2>2, <2>3
<1> QED BY <1>1, <1>2, <1>4, <1>6, Zenon

\* A place on the way is one of the queue, the handler's or one of the port.
LEMMA PlaceOnWay ==
  ASSUME HostInv
  PROVE  \E h \in {0, 1} :
           /\ h = 1 <=> hpc \in {"frame", "push"}
           /\ Len(OnTheWay) = count + h + Len(inbox)
           /\ \A i \in 1 .. Len(OnTheWay) :
                OnTheWay[i] = IF i <= count THEN Queue[i]
                              ELSE IF i <= count + h THEN msg
                              ELSE inbox[i - (count + h)]
<1>1. Queue \in Seq(Surfaces) /\ Len(Queue) = count /\ count \in Nat
  BY QueueIs, HostAssumption DEF QueueView
<1>2. Surfaces \subseteq Messages /\ inbox \in Seq(Messages) /\ Len(inbox) \in Nat
  BY DEF Messages, HostInv, TypeOK, HostTypeOK
<1>3. Queue \in Seq(Messages)
  BY <1>1, <1>2, SeqMonotonic
<1>4. CASE hpc \in {"frame", "push"}
  <2>1. msg \in Messages
    BY <1>4, InHand DEF Handling
  <2>2. <<msg>> \in Seq(Messages) /\ Len(<<msg>>) = 1 /\ <<msg>>[1] = msg
    BY <2>1
  <2>3. PICK s : s = <<msg>>
    OBVIOUS
  <2>4. s \in Seq(Messages) /\ Len(s) = 1 /\ s[1] = msg
    BY <2>2, <2>3
  <2>5. OnTheWay = (Queue \o s) \o inbox
    BY <1>4, <2>3, Zenon DEF OnTheWay
  <2>6. /\ Len(OnTheWay) = Len(Queue) + Len(s) + Len(inbox)
        /\ \A i \in 1 .. Len(OnTheWay) :
             OnTheWay[i] = IF i <= Len(Queue) THEN Queue[i]
                           ELSE IF i <= Len(Queue) + Len(s) THEN s[i - Len(Queue)]
                           ELSE inbox[i - (Len(Queue) + Len(s))]
    <3>1. s \in Seq(Messages)
      BY <2>4
    <3> QED BY <1>2, <1>3, <2>5, <3>1, Joined
  <2>7. \A i \in 1 .. Len(OnTheWay) : i > count /\ i <= count + 1 => i - count = 1
    BY <1>1
  <2> QED BY <1>1, <1>4, <2>4, <2>6, <2>7
<1>5. CASE ~(hpc \in {"frame", "push"})
  <2>1. PICK s : s = <<>>
    OBVIOUS
  <2>2. s \in Seq(Messages) /\ Len(s) = 0
    BY <2>1
  <2>3. OnTheWay = (Queue \o s) \o inbox
    BY <1>5, <2>1, Zenon DEF OnTheWay
  <2>4. /\ Len(OnTheWay) = Len(Queue) + Len(s) + Len(inbox)
        /\ \A i \in 1 .. Len(OnTheWay) :
             OnTheWay[i] = IF i <= Len(Queue) THEN Queue[i]
                           ELSE IF i <= Len(Queue) + Len(s) THEN s[i - Len(Queue)]
                           ELSE inbox[i - (Len(Queue) + Len(s))]
    BY <1>2, <1>3, <2>2, <2>3, Joined
  <2> QED BY <1>1, <1>5, <2>2, <2>4
<1> QED BY <1>4, <1>5

\* The frames of one client reach the consumers in the order it submitted them, each at
\* most once, through full queues, goodbyes, refused sends and clients that crash.
THEOREM InOrder == Spec => []FramesInOrder
<1>1. HostInv /\ WayInv => FramesInOrder
  <2> SUFFICES ASSUME HostInv, WayInv PROVE FramesInOrder
    OBVIOUS
  <2>1. PICK h \in {0, 1} :
           /\ h = 1 <=> hpc \in {"frame", "push"}
           /\ Len(OnTheWay) = count + h + Len(inbox)
           /\ \A i \in 1 .. Len(OnTheWay) :
                OnTheWay[i] = IF i <= count THEN Queue[i]
                              ELSE IF i <= count + h THEN msg
                              ELSE inbox[i - (count + h)]
    BY PlaceOnWay
  <2>2. count \in Nat /\ Len(inbox) \in Nat
    BY OnWay
  <2>3. ASSUME NEW i \in 1 .. Len(OnTheWay) PROVE Sent(OnTheWay[i])
    BY <2>1, <2>2 DEF WayInv, PortInv, HandlerInv, LineInv, Arriving
  <2>4. ASSUME NEW i \in 1 .. Len(OnTheWay), NEW j \in i + 1 .. Len(OnTheWay)
        PROVE  Older(OnTheWay[i], OnTheWay[j])
    <3>1. j \in 1 .. Len(OnTheWay)
      BY <2>1, <2>2
    <3>2. CASE j <= count
      <4>1. /\ j \in 1 .. count /\ i \in 1 .. count /\ i \in 1 .. j - 1
            /\ OnTheWay[i] = Queue[i] /\ OnTheWay[j] = Queue[j]
        BY <2>1, <2>2, <3>1, <3>2
      <4> QED BY <4>1 DEF WayInv, LineInv
    <3>3. CASE j \in count + 1 .. count + h
      <4>1. /\ i \in 1 .. count /\ OnTheWay[i] = Queue[i] /\ OnTheWay[j] = msg /\ h = 1
        BY <2>1, <2>2, <3>1, <3>3
      <4> QED BY <2>1, <4>1 DEF WayInv, HandlerInv, Arriving
    <3>4. CASE j > count + h
      <4>1. OnTheWay[j] = inbox[j - (count + h)] /\ j - (count + h) \in 1 .. Len(inbox)
        BY <2>1, <2>2, <3>1, <3>4
      <4>2. CASE i \in 1 .. count
        BY <2>1, <4>1, <4>2 DEF WayInv, PortInv
      <4>3. CASE i \in count + 1 .. count + h
        <5>1. OnTheWay[i] = msg /\ Arriving
          BY <2>1, <2>2, <4>3 DEF Arriving
        <5> QED BY <4>1, <5>1 DEF WayInv, PortInv
      <4>4. CASE i > count + h
        <5>1. /\ OnTheWay[i] = inbox[i - (count + h)]
              /\ i - (count + h) \in 1 .. (j - (count + h)) - 1
          BY <2>1, <2>2, <3>1, <4>4
        <5> QED BY <4>1, <5>1 DEF WayInv, PortInv
      <4> QED BY <2>2, <4>2, <4>3, <4>4
    <3> QED BY <2>1, <2>2, <3>1, <3>2, <3>3, <3>4
  <2> QED BY <2>3, <2>4 DEF FramesInOrder, FrameOf, Sent, Within, Older
<1> QED BY <1>1, WayInvariant, PTL
-----------------------------------------------------------------------------
(* The rights.                                                              *)

\* The four places of a right, and nothing else holds one.
Places == HandlerRights \cup TableRights \cup QueuedFrames \cup HandRights
RightsInv == rights = Places

\* What a member of each place is.
MembersView ==
  /\ \A x : x \in HandlerRights <=> x = msg /\ Arriving
  /\ \A x : x \in TableRights <=> \E c \in Clients : Active(c) /\ x = reply[c]
  /\ \A x : x \in QueuedFrames <=> \E i \in 1 .. count : x = Queue[i]
  /\ \A x : x \in HandRights <=> \E k \in Consumers : hands[k] # NoMsg /\ x = hands[k]

LEMMA QueuedAre ==
  ASSUME HostInv
  PROVE  QueuedFrames = {Queue[i] : i \in 1 .. count}
<1>1. /\ count \in Nat /\ head \in Cells
      /\ \A i \in 1 .. count : Queue[i] = ring[Place(head, i - 1)]
  BY QueueIs, HostAssumption DEF QueueView, HostInv, TypeOK, HostTypeOK
<1>2. QueuedFrames = {ring[Place(head, i)] : i \in 0 .. count - 1}
  BY Zenon DEF QueuedFrames, Place, Ahead
<1>3. \A i \in 0 .. count - 1 : i + 1 \in 1 .. count /\ (i + 1) - 1 = i
  BY <1>1
<1>4. \A i \in 1 .. count : i - 1 \in 0 .. count - 1
  BY <1>1
<1> QED BY <1>1, <1>2, <1>3, <1>4

LEMMA Members == HostInv => MembersView
<1> SUFFICES ASSUME HostInv PROVE MembersView
  OBVIOUS
<1>1. QueuedFrames = {Queue[i] : i \in 1 .. count}
  BY QueuedAre
<1> QED BY <1>1 DEF HandlerRights, TableRights, HandRights, Arriving, MembersView

LEMMA MembersNext == HostInv' => MembersView'
BY Members, PTL

\* Nothing stands in two places.
LEMMA PlacesApart ==
  ASSUME HostInv, WayInv
  PROVE  /\ \A x \in HandRights : x \notin HandlerRights /\ x \notin TableRights
                                  /\ x \notin QueuedFrames
         /\ \A x \in QueuedFrames : x \notin HandlerRights /\ x \notin TableRights
         /\ \A x \in TableRights : x \notin HandlerRights
<1>1. /\ \A c \in Clients : Active(c) => reply[c] \in Hellos
      /\ \A i \in 1 .. count : Queue[i] \in Surfaces
      /\ \A k \in Consumers : hands[k] # NoMsg => hands[k] \in Surfaces
      /\ Arriving => msg \in Messages /\ (hpc = "hello" => msg \in Hellos)
                     /\ (hpc # "hello" => msg \in Surfaces)
      /\ popped \in [Clients -> 0 .. MaxFrames]
  BY OnWay, InHand DEF HostInv, TypeOK, HostTypeOK, Arriving, Handling
<1>2. ASSUME NEW x \in HandRights
      PROVE  x \in Surfaces /\ x.index <= popped[x.client]
  BY <1>1, <1>2, Members DEF MembersView, WayInv, HandsInv
<1>3. ASSUME NEW x \in QueuedFrames
      PROVE  x \in Surfaces /\ popped[x.client] < x.index
  BY <1>1, <1>3, Members, Parts DEF MembersView, WayInv, LineInv, Sent, Within
<1>4. ASSUME NEW x \in TableRights
      PROVE  x \in Hellos
  BY <1>1, <1>4, Members DEF MembersView
<1>5. ASSUME NEW x \in Surfaces
      PROVE  x \notin Hellos /\ x.index \in Int /\ popped[x.client] \in Int
  BY <1>1, Parts
<1>6. ASSUME NEW x \in HandlerRights
      PROVE  /\ x = msg /\ Arriving /\ (x \in Hellos \/ x \in Surfaces)
             /\ x \in Surfaces => popped[x.client] < x.index
  BY <1>1, <1>6, Members, Parts DEF MembersView, WayInv, HandlerInv, Sent, Within
<1>7. ASSUME NEW x \in QueuedFrames, x \in HandlerRights PROVE FALSE
  <2>1. Older(x, x) /\ x \in Surfaces
    BY <1>3, <1>6, <1>7, Members DEF MembersView, WayInv, HandlerInv
  <2> QED BY <1>5, <2>1, Parts DEF Older
<1>8. ASSUME NEW x \in TableRights, x \in HandlerRights PROVE FALSE
  <2>1. Older(x, x) /\ x \in Hellos
    BY <1>4, <1>6, <1>8, Members DEF MembersView, WayInv, HandlerInv
  <2> QED BY <2>1, Parts DEF Older
<1>9. ASSUME NEW x \in HandRights
      PROVE  x \notin HandlerRights /\ x \notin TableRights /\ x \notin QueuedFrames
  BY <1>2, <1>3, <1>4, <1>5, <1>6, <1>9
<1> QED BY <1>3, <1>4, <1>5, <1>7, <1>8, <1>9

\* No place holds one right twice.
LEMMA PlacesInjective ==
  ASSUME HostInv, WayInv
  PROVE  /\ \A i, j \in 1 .. count : Queue[i] = Queue[j] => i = j
         /\ \A c, d \in Clients : Active(c) /\ Active(d) /\ reply[c] = reply[d] => c = d
         /\ \A k, j \in Consumers : hands[k] # NoMsg /\ hands[k] = hands[j] => k = j
<1>1. ASSUME NEW i \in 1 .. count, NEW j \in 1 .. count, i < j PROVE Queue[i] # Queue[j]
  <2>1. i \in 1 .. j - 1 /\ Queue[i] \in Surfaces
    BY <1>1, OnWay
  <2>2. Older(Queue[i], Queue[j])
    BY <2>1 DEF WayInv, LineInv
  <2> QED BY <2>1, <2>2, Parts DEF Older
<1>2. \A i, j \in 1 .. count : Queue[i] = Queue[j] => i = j
  <2>1. count \in Nat
    BY OnWay
  <2> QED BY <1>1, <2>1
<1>3. \A c, d \in Clients : Active(c) /\ Active(d) /\ reply[c] = reply[d] => c = d
  BY DEF WayInv, TableInv
<1>4. \A k, j \in Consumers : hands[k] # NoMsg /\ hands[k] = hands[j] => k = j
  BY DEF WayInv, HandsInv
<1> QED BY <1>2, <1>3, <1>4

\* Steps that move no right.
LEMMA StayRights ==
  ASSUME RightsInv, UNCHANGED <<rights, queueVars, reply, hands>>,
         HandlerRights' = HandlerRights
  PROVE  RightsInv'
<1>1. TableRights' = TableRights /\ QueuedFrames' = QueuedFrames /\ HandRights' = HandRights
  BY DEF TableRights, Active, QueuedFrames, HandRights, queueVars
<1> QED BY <1>1 DEF RightsInv, Places

LEMMA ReceiveRights ==
  ASSUME HostInv, RightsInv, Receive
  PROVE  RightsInv'
<1>1. /\ UNCHANGED <<queueVars, reply, hands>> /\ hpc = "receive"
      /\ msg' = Head(inbox) /\ hpc' = msg'.kind /\ msg' \in Messages
      /\ rights' = rights \cup ({msg'} \cap Rights)
  BY DEF Receive, At, HostInv, TypeOK, HostTypeOK
<1>2. TableRights' = TableRights /\ QueuedFrames' = QueuedFrames /\ HandRights' = HandRights
  BY <1>1 DEF TableRights, Active, QueuedFrames, HandRights, queueVars
<1>3. HandlerRights = {}
  BY <1>1 DEF HandlerRights
<1>4. HandlerRights' = {msg'} \cap Rights
  <2>1. CASE msg' \in Rights
    BY <1>1, <2>1, Parts DEF HandlerRights, Rights
  <2>2. CASE msg' \notin Rights
    <3>1. PICK c \in Clients : msg' = Goodbye(c)
      BY <1>1, <2>2 DEF Messages, Rights
    <3> QED BY <1>1, <2>2, <3>1, Parts DEF HandlerRights
  <2> QED BY <2>1, <2>2
<1> QED BY <1>1, <1>2, <1>3, <1>4 DEF RightsInv, Places

\* A hello's right goes to the table, or is given back when the table is full.
LEMMA HelloRights ==
  ASSUME HostInv, HostInv', WayInv, RightsInv,
         RefreshClient \/ AdmitClient \/ RefuseClient
  PROVE  RightsInv'
<1>1. /\ UNCHANGED <<queueVars, hands>> /\ hpc = "hello" /\ ~Arriving' /\ Arriving
      /\ msg.client \in Clients /\ msg # NoMsg
      /\ reply \in [Clients -> Hellos \cup {NoMsg}]
  BY InHand DEF RefreshClient, Refresh, AdmitClient, RefuseClient, At, Goto, Return, Handling,
                Arriving, HostInv, TypeOK, HostTypeOK
<1>2. QueuedFrames' = QueuedFrames /\ HandRights' = HandRights /\ HandlerRights' = {}
      /\ HandlerRights = {msg}
  BY <1>1 DEF QueuedFrames, HandRights, queueVars, HandlerRights, Arriving
<1>3. CASE RefuseClient
  <2>1. rights' = rights \ {msg} /\ reply' = reply
    BY <1>3 DEF RefuseClient
  <2>2. TableRights' = TableRights
    BY <2>1 DEF TableRights, Active
  <2> QED BY <1>2, <2>1, <2>2, PlacesApart DEF RightsInv, Places
<1>4. CASE RefreshClient \/ AdmitClient
  <2>0. PICK old : old = reply[msg.client]
    OBVIOUS
  <2>1. /\ old = reply[msg.client]
        /\ rights' = IF Active(msg.client) THEN rights \ {old} ELSE rights
        /\ reply' = [reply EXCEPT ![msg.client] = msg]
    BY <2>0, <1>4 DEF RefreshClient, Refresh, AdmitClient
  <2>2. \A x : x \in TableRights' <=> x = msg \/ (x \in TableRights /\ x # old)
    <3>1. MembersView /\ MembersView'
      BY Members, MembersNext
    <3>2. \A c \in Clients : reply'[c] = IF c = msg.client THEN msg ELSE reply[c]
      BY <1>1, <2>1
    <3>3. \A c \in Clients : Active(c) /\ c # msg.client => reply[c] # old
      BY <1>1, <2>1, PlacesInjective DEF Active
    <3> QED BY <1>1, <2>1, <3>1, <3>2, <3>3 DEF MembersView, Active
  <2>3. Active(msg.client) => old \in TableRights
    BY <1>1, <2>1, Members DEF MembersView
  <2>4. ~Active(msg.client) => old \notin TableRights
    BY <2>1, Members DEF MembersView, Active
  <2> QED BY <1>2, <2>1, <2>2, <2>3, <2>4, PlacesApart DEF RightsInv, Places
<1> QED BY <1>3, <1>4

LEMMA GoodbyeRights ==
  ASSUME HostInv, HostInv', WayInv, RightsInv, HandleGoodbye
  PROVE  RightsInv'
<1>1. /\ UNCHANGED <<queueVars, hands>> /\ ~Arriving' /\ ~Arriving
      /\ msg.client \in Clients
      /\ reply \in [Clients -> Hellos \cup {NoMsg}]
  BY InHand DEF HandleGoodbye, Forget, At, Goto, Return, Handling, Arriving, HostInv, TypeOK,
                HostTypeOK
<1>2. QueuedFrames' = QueuedFrames /\ HandRights' = HandRights /\ HandlerRights' = {}
      /\ HandlerRights = {}
  BY <1>1 DEF QueuedFrames, HandRights, queueVars, HandlerRights, Arriving
<1>3. CASE ~Active(msg.client)
  BY <1>1, <1>2, <1>3, StayRights DEF HandleGoodbye, Forget
<1>4. CASE Active(msg.client)
  <2>0. PICK old : old = reply[msg.client]
    OBVIOUS
  <2>1. /\ old = reply[msg.client] /\ rights' = rights \ {old}
        /\ reply' = [reply EXCEPT ![msg.client] = NoMsg]
    BY <2>0, <1>4 DEF HandleGoodbye, Forget
  <2>2. \A x : x \in TableRights' <=> x \in TableRights /\ x # old
    <3>1. MembersView /\ MembersView'
      BY Members, MembersNext
    <3>2. \A c \in Clients : reply'[c] = IF c = msg.client THEN NoMsg ELSE reply[c]
      BY <1>1, <2>1
    <3>3. \A c \in Clients : Active(c) /\ c # msg.client => reply[c] # old
      BY <1>1, <1>4, <2>1, PlacesInjective DEF Active
    <3> QED BY <1>1, <2>1, <3>1, <3>2, <3>3 DEF MembersView, Active
  <2>3. old \in TableRights
    BY <1>1, <1>4, <2>1, Members DEF MembersView
  <2> QED BY <1>2, <2>1, <2>2, <2>3, PlacesApart DEF RightsInv, Places
<1> QED BY <1>3, <1>4

\* A stranger's frame is given back.
LEMMA LookUpRights ==
  ASSUME HostInv, WayInv, RightsInv, LookUpSender
  PROVE  RightsInv'
<1>1. /\ UNCHANGED <<queueVars, reply, hands>> /\ hpc = "frame"
      /\ \/ hpc' = "push" /\ msg' = msg /\ rights' = rights
         \/ hpc' = "loop" /\ rights' = rights \ {msg}
  BY DEF LookUpSender, At, Goto, Return
<1>2. HandlerRights = {msg}
  BY <1>1 DEF HandlerRights
<1>3. CASE hpc' = "push" /\ msg' = msg /\ rights' = rights
  <2>1. HandlerRights' = {msg}
    BY <1>3 DEF HandlerRights
  <2> QED BY <1>1, <1>2, <1>3, <2>1, StayRights
<1>4. CASE hpc' = "loop" /\ rights' = rights \ {msg}
  <2>1. HandlerRights' = {}
    BY <1>4 DEF HandlerRights
  <2>2. TableRights' = TableRights /\ QueuedFrames' = QueuedFrames /\ HandRights' = HandRights
    BY <1>1 DEF TableRights, Active, QueuedFrames, HandRights, queueVars
  <2> QED BY <1>2, <1>4, <2>1, <2>2, PlacesApart DEF RightsInv, Places
<1> QED BY <1>1, <1>3, <1>4

\* A push takes the frame from the handler and gives back the one it drops.
LEMMA PushRights ==
  ASSUME HostInv, HostInv', WayInv, RightsInv, PushFrame
  PROVE  RightsInv'
<1>1. /\ UNCHANGED <<reply, hands>> /\ hpc = "push" /\ hpc' = "frame_cb"
      /\ rights' = IF count >= Capacity THEN rights \ {ring[head]} ELSE rights
      /\ Waiting!Push(msg) /\ msg \in Surfaces
  BY PushImplements DEF PushFrame, Push, At, Goto
<1>2. HandlerRights = {msg} /\ HandlerRights' = {} /\ TableRights' = TableRights
      /\ HandRights' = HandRights
  BY <1>1 DEF HandlerRights, TableRights, Active, HandRights
<1>3. /\ Queue \in Seq(Surfaces) /\ Len(Queue) = count /\ count \in 0 .. Capacity
      /\ Queue' \in Seq(Surfaces) /\ Len(Queue') = count' /\ Capacity \in Nat \ {0}
      /\ MembersView /\ MembersView'
  BY QueueIs, QueueIsNext, Members, MembersNext, HostAssumption DEF QueueView
<1>4. CASE count < Capacity
  <2>1. Queue' = Append(Queue, msg)
    BY <1>1, <1>3, <1>4 DEF Waiting!Push
  <2>2. /\ count' = count + 1 /\ Queue'[count + 1] = msg /\ count \in Nat
        /\ \A i \in 1 .. count : Queue'[i] = Queue[i]
    BY <1>1, <1>3, <2>1
  <2>3. \A x : x \in QueuedFrames' <=> x \in QueuedFrames \/ x = msg
    <3>1. \A i \in 1 .. count' : i \in 1 .. count \/ i = count + 1
      BY <2>2
    <3>2. \A i \in 1 .. count : i \in 1 .. count'
      BY <2>2
    <3>3. count + 1 \in 1 .. count'
      BY <2>2
    <3> QED BY <1>3, <2>2, <3>1, <3>2, <3>3 DEF MembersView
  <2>4. rights' = rights
    BY <1>1, <1>3, <1>4
  <2> QED BY <1>2, <2>3, <2>4 DEF RightsInv, Places
<1>5. CASE ~(count < Capacity)
  <2>1. Queue' = Append(Tail(Queue), msg)
    BY <1>1, <1>3, <1>5 DEF Waiting!Push
  <2>2. Tail(Queue) \in Seq(Surfaces) /\ Len(Tail(Queue)) = count - 1
        /\ \A i \in 1 .. count - 1 : Tail(Queue)[i] = Queue[i + 1]
    BY <1>3, <1>5
  <2>3. /\ count' = count /\ Queue'[count] = msg /\ count \in Nat \ {0}
        /\ \A i \in 1 .. count - 1 : Queue'[i] = Tail(Queue)[i]
    BY <1>1, <1>3, <1>5, <2>1, <2>2
  <2>4. PICK old : old = Queue[1]
    OBVIOUS
  <2>5. old = ring[head] /\ rights' = rights \ {old}
    <3>1. Queue[1] = ring[Place(head, 0)] /\ Place(head, 0) = head
      BY <2>3, QueueIs, FollowingIs DEF QueueView, HostInv, TypeOK, HostTypeOK
    <3> QED BY <1>1, <1>3, <1>5, <2>4, <3>1
  <2>6. \A x : x \in QueuedFrames' <=> (x \in QueuedFrames /\ x # old) \/ x = msg
    <3>1. \A i \in 1 .. count' : \/ i = count /\ Queue'[i] = msg
                                 \/ /\ i + 1 \in 1 .. count /\ i + 1 # 1
                                    /\ Queue'[i] = Queue[i + 1]
      BY <2>2, <2>3
    <3>2. \A i \in 1 .. count : \/ i = 1
                                \/ i - 1 \in 1 .. count' /\ Queue'[i - 1] = Queue[i]
      <4>1. \A i \in 1 .. count : i # 1 => i - 1 \in 1 .. count - 1 /\ (i - 1) + 1 = i
        BY <2>3
      <4> QED BY <2>2, <2>3, <4>1
    <3>3. count \in 1 .. count' /\ 1 \in 1 .. count
      BY <2>3
    <3>4. \A i, j \in 1 .. count : Queue[i] = Queue[j] => i = j
      BY PlacesInjective
    <3> QED BY <1>3, <2>3, <2>4, <3>1, <3>2, <3>3, <3>4 DEF MembersView
  <2>7. old \in QueuedFrames
    BY <1>3, <2>3, <2>4 DEF MembersView
  <2> QED BY <1>2, <2>5, <2>6, <2>7, PlacesApart DEF RightsInv, Places
<1> QED BY <1>3, <1>4, <1>5

\* A pop moves a frame from the queue to a consumer's hands.
LEMMA PopRights ==
  ASSUME HostInv, HostInv', RightsInv, NEW k \in Consumers, PopFrame(k)
  PROVE  RightsInv'
<1>1. /\ UNCHANGED <<reply, hpc, msg, rights>> /\ hands[k] = NoMsg
      /\ hands' = [hands EXCEPT ![k] = ring[head]]
      /\ Waiting!Pop /\ count > 0
  BY PopImplements DEF PopFrame, threadVars
<1>2. HandlerRights' = HandlerRights /\ TableRights' = TableRights
  BY <1>1 DEF HandlerRights, TableRights, Active
<1>3. /\ Queue \in Seq(Surfaces) /\ Len(Queue) = count /\ count \in Nat \ {0}
      /\ Queue' = Tail(Queue) /\ Len(Queue') = count'
      /\ MembersView /\ MembersView'
      /\ Queue[1] = ring[Place(head, 0)] /\ Place(head, 0) = head
      /\ hands \in [Consumers -> Surfaces \cup {NoMsg}]
  BY <1>1, QueueIs, QueueIsNext, Members, MembersNext, HostAssumption, FollowingIs
     DEF QueueView, Waiting!Pop, HostInv, TypeOK, HostTypeOK
<1>4. PICK m \in Surfaces : m = Queue[1] /\ m = ring[head]
  BY <1>3
<1>5. m # NoMsg
  BY HostAssumption DEF Messages
<1>6. \A i \in 1 .. count' : i + 1 \in 1 .. count /\ Queue'[i] = Queue[i + 1]
  BY <1>3
<1>7. \A i \in 1 .. count : i = 1 \/ (i - 1 \in 1 .. count' /\ Queue'[i - 1] = Queue[i])
  <2>1. count' = count - 1
    BY <1>3
  <2>2. \A i \in 1 .. count : i # 1 => i - 1 \in 1 .. count' /\ (i - 1) + 1 = i
    BY <1>3, <2>1
  <2> QED BY <1>6, <2>2
<1>8. \A x : x \in QueuedFrames' \/ x = m <=> x \in QueuedFrames
  <2>1. /\ \A x : x \in QueuedFrames <=> \E i \in 1 .. count : x = Queue[i]
        /\ \A x : x \in QueuedFrames' <=> \E i \in 1 .. count' : x = Queue'[i]
    BY <1>3 DEF MembersView
  <2>2. m = Queue[1] /\ 1 \in 1 .. count
    BY <1>3, <1>4
  <2>3. ASSUME NEW x, x \in QueuedFrames' \/ x = m PROVE x \in QueuedFrames
    <3>1. CASE x = m
      BY <3>1, <2>1, <2>2, Zenon
    <3>2. CASE x \in QueuedFrames'
      <4>1. PICK i \in 1 .. count' : x = Queue'[i]
        BY <3>2, <2>1, Zenon
      <4>2. i + 1 \in 1 .. count /\ x = Queue[i + 1]
        BY <4>1, <1>6, Zenon
      <4> QED BY <4>2, <2>1, Zenon
    <3> QED BY <2>3, <3>1, <3>2
  <2>4. ASSUME NEW x \in QueuedFrames PROVE x \in QueuedFrames' \/ x = m
    <3>1. PICK i \in 1 .. count : x = Queue[i]
      BY <2>1, Zenon
    <3>2. CASE i = 1
      BY <3>1, <3>2, <2>2, Zenon
    <3>3. CASE i # 1
      <4>1. i - 1 \in 1 .. count' /\ x = Queue'[i - 1]
        BY <3>1, <3>3, <1>7, Zenon
      <4> QED BY <4>1, <2>1, Zenon
    <3> QED BY <3>2, <3>3
  <2> QED BY <2>3, <2>4
<1>9. \A x : x \in HandRights' <=> x = m \/ x \in HandRights
  <2>1. hands'[k] = m /\ \A j \in Consumers : j # k => hands'[j] = hands[j]
    BY <1>1, <1>3, <1>4
  <2> QED BY <1>1, <1>3, <1>5, <2>1 DEF MembersView
<1> QED BY <1>1, <1>2, <1>8, <1>9 DEF RightsInv, Places

LEMMA ReleaseRights ==
  ASSUME HostInv, HostInv', WayInv, RightsInv, NEW k \in Consumers, ReleaseFramePort(k)
  PROVE  RightsInv'
<1>1. /\ UNCHANGED <<queueVars, reply, hpc, msg>> /\ hands[k] # NoMsg
      /\ rights' = rights \ {hands[k]} /\ hands' = [hands EXCEPT ![k] = NoMsg]
      /\ hands \in [Consumers -> Surfaces \cup {NoMsg}]
  BY DEF ReleaseFramePort, threadVars, HostInv, TypeOK, HostTypeOK
<1>2. HandlerRights' = HandlerRights /\ TableRights' = TableRights
      /\ QueuedFrames' = QueuedFrames
  BY <1>1 DEF HandlerRights, TableRights, Active, QueuedFrames, queueVars
<1>3. MembersView /\ MembersView'
  BY Members, MembersNext
<1>4. \A x : x \in HandRights' <=> x \in HandRights /\ x # hands[k]
  <2>1. hands'[k] = NoMsg /\ \A j \in Consumers : j # k => hands'[j] = hands[j]
    BY <1>1
  <2>2. \A j \in Consumers : j # k /\ hands[j] # NoMsg => hands[j] # hands[k]
    BY <1>1, PlacesInjective
  <2> QED BY <1>1, <1>3, <2>1, <2>2 DEF MembersView
<1>5. hands[k] \in HandRights
  BY <1>1, <1>3 DEF MembersView
<1> QED BY <1>1, <1>2, <1>4, <1>5, PlacesApart DEF RightsInv, Places

LEMMA DestroyRights ==
  ASSUME HostInv, HostInv', WayInv, RightsInv, DestroyHost
  PROVE  RightsInv'
<1>1. /\ UNCHANGED <<hands, hpc, msg>> /\ hpc = "none" /\ count' = 0
      /\ reply' = [c \in Clients |-> NoMsg]
      /\ rights' = rights \ (QueuedFrames \cup {reply[c] : c \in Clients})
  BY DEF DestroyHost, threadVars
<1>2. HandlerRights = {} /\ HandlerRights' = {} /\ HandRights' = HandRights
  BY <1>1 DEF HandlerRights, HandRights
<1>3. MembersView /\ MembersView'
  BY Members, MembersNext
<1>4. TableRights' = {} /\ QueuedFrames' = {}
  BY <1>1, <1>3 DEF MembersView, Active
<1>5. \A x \in TableRights : x \in {reply[c] : c \in Clients}
  BY <1>3 DEF MembersView
<1>6. \A x \in HandRights : x # NoMsg
  BY <1>3 DEF MembersView
<1>7. \A x \in {reply[c] : c \in Clients} : x = NoMsg \/ x \in TableRights
  BY <1>3 DEF MembersView, Active
<1> QED BY <1>1, <1>2, <1>4, <1>5, <1>6, <1>7, PlacesApart DEF RightsInv, Places

LEMMA StepKeepsRights ==
  HostInv /\ HostInv' /\ WayInv /\ RightsInv /\ [Next]_vars => RightsInv'
<1> SUFFICES ASSUME HostInv, HostInv', WayInv, RightsInv, [Next]_vars PROVE RightsInv'
  OBVIOUS
<1>1. CASE UNCHANGED hostVars
  <2>1. UNCHANGED <<rights, queueVars, reply, hands, hpc, msg>>
    BY <1>1 DEF hostVars, threadVars
  <2> QED BY <2>1, StayRights DEF HandlerRights
<1>2. CASE EnterLoop \/ ReceiveTimesOut \/ ConnectedCallback \/ DisconnectedCallback
           \/ FrameCallback
  <2>1. /\ UNCHANGED <<rights, queueVars, reply, hands>>
        /\ hpc \notin {"hello", "frame", "push"} /\ hpc' \notin {"hello", "frame", "push"}
    BY <1>2 DEF EnterLoop, ReceiveTimesOut, ConnectedCallback, DisconnectedCallback,
                FrameCallback, At, Goto, Return
  <2> QED BY <2>1, StayRights DEF HandlerRights
<1>3. CASE \/ \E created \in BOOLEAN : StartHost(created)
           \/ \E then \in {"stop", "destroy"} : StopHost(then)
           \/ JoinThread
  <2>1. /\ UNCHANGED <<rights, queueVars, reply, hands, msg>>
        /\ hpc' = hpc \/ (hpc = "none" /\ hpc' \in {"loop", "none"})
    BY <1>3 DEF StartHost, StopHost, JoinThread, threadVars, HostInv, ThreadInv
  <2> QED BY <2>1, StayRights DEF HandlerRights
<1> QED BY <1>1, <1>2, <1>3, ReceiveRights, HelloRights, GoodbyeRights, LookUpRights,
           PushRights, PopRights, ReleaseRights, DestroyRights
        DEF Next, HostNext, ServiceThread, vars

\* As many values as arguments, if no two arguments share one.
LEMMA ImageSize ==
  ASSUME NEW S, IsFiniteSet(S), NEW f, \A x, y \in S : f[x] = f[y] => x = y
  PROVE  /\ IsFiniteSet({f[x] : x \in S})
         /\ Cardinality({f[x] : x \in S}) = Cardinality(S)
<1> DEFINE T == {f[x] : x \in S}
           g == [x \in S |-> f[x]]
<1>1. g \in [S -> T]
  OBVIOUS
<1>2. \A x, y \in S : g[x] = g[y] => x = y
  OBVIOUS
<1>3. \A t \in T : \E x \in S : g[x] = t
  OBVIOUS
<1>4. g \in Bijection(S, T)
  BY <1>1, <1>2, <1>3 DEF Bijection, Injection, Surjection, IsInjective
<1>5. ExistsBijection(S, T)
  BY <1>4 DEF ExistsBijection
<1> QED BY <1>5, FS_Bijection

LEMMA ApartSize ==
  ASSUME NEW S, NEW T, IsFiniteSet(S), IsFiniteSet(T), \A x \in S : x \notin T
  PROVE  IsFiniteSet(S \cup T) /\ Cardinality(S \cup T) = Cardinality(S) + Cardinality(T)
         /\ Cardinality(S) \in Nat /\ Cardinality(T) \in Nat
<1>1. S \cap T = {}
  OBVIOUS
<1>2. Cardinality(S \cap T) = 0
  BY <1>1, FS_EmptySet
<1>3. Cardinality(S) \in Nat /\ Cardinality(T) \in Nat
  BY FS_CardinalityType
<1>4. /\ IsFiniteSet(S \cup T)
      /\ Cardinality(S \cup T) = Cardinality(S) + Cardinality(T) - Cardinality(S \cap T)
  BY FS_Union
<1> QED BY <1>2, <1>3, <1>4

LEMMA RightsInvariant == Spec => []RightsInv
<1>1. Init => RightsInv
  <2> SUFFICES ASSUME Init PROVE RightsInv
    OBVIOUS
  <2>1. MembersView /\ count = 0 /\ hpc = "none" /\ rights = {}
        /\ reply = [c \in Clients |-> NoMsg] /\ hands = [k \in Consumers |-> NoMsg]
    BY InitHost, Members DEF Init, HostInit
  <2>2. HandlerRights = {} /\ TableRights = {} /\ QueuedFrames = {} /\ HandRights = {}
    BY <2>1 DEF MembersView, Arriving, Active
  <2> QED BY <2>1, <2>2 DEF RightsInv, Places
<1> QED BY <1>1, WayInvariant, StepKeepsRights, PTL DEF Spec

\* Every right the host was sent is in one place until it has been given back, whatever
\* the order of connections, crashes, drops, pops and the end of the host.
THEOREM NothingLeaks == Spec => []RightsAccounted
<1>1. ASSUME HostInv, WayInv, RightsInv PROVE RightsAccounted
  <2>1. IsFiniteSet(Clients) /\ IsFiniteSet(Consumers) /\ count \in Nat
    BY <1>1, HostAssumption, OnWay
  <2>2. IsFiniteSet(HandlerRights)
    <3>1. HandlerRights \in SUBSET {msg} /\ IsFiniteSet({msg})
      BY FS_Singleton DEF HandlerRights
    <3> QED BY <3>1, FS_Subset
  <2>3. IsFiniteSet(TableRights)
        /\ Cardinality(TableRights) = Cardinality({c \in Clients : Active(c)})
    <3> DEFINE S == {c \in Clients : Active(c)}
    <3>1. S \in SUBSET Clients
      OBVIOUS
    <3>2. IsFiniteSet(S)
      BY <2>1, <3>1, FS_Subset
    <3>3. \A c, d \in S : reply[c] = reply[d] => c = d
      BY <1>1, PlacesInjective
    <3>4. TableRights = {reply[c] : c \in S}
      BY DEF TableRights
    <3> HIDE DEF S
    <3>5. IsFiniteSet(TableRights) /\ Cardinality(TableRights) = Cardinality(S)
      BY <3>2, <3>3, <3>4, ImageSize
    <3> QED BY <3>5 DEF S
  <2>4. IsFiniteSet(QueuedFrames) /\ Cardinality(QueuedFrames) = count
    <3>1. IsFiniteSet(1 .. count) /\ Cardinality(1 .. count) = count
      BY <2>1, FS_Interval
    <3>2. \A i, j \in 1 .. count : Queue[i] = Queue[j] => i = j
      BY <1>1, PlacesInjective
    <3>3. QueuedFrames = {Queue[i] : i \in 1 .. count}
      BY <1>1, QueuedAre
    <3>4. PICK S : S = 1 .. count
      OBVIOUS
    <3>5. /\ IsFiniteSet(S) /\ Cardinality(S) = count /\ QueuedFrames = {Queue[i] : i \in S}
          /\ \A i, j \in S : Queue[i] = Queue[j] => i = j
      BY <3>1, <3>2, <3>3, <3>4, Zenon
    <3> QED BY <3>5, ImageSize
  <2>5. IsFiniteSet(HandRights)
        /\ Cardinality(HandRights) = Cardinality({k \in Consumers : hands[k] # NoMsg})
    <3> DEFINE S == {k \in Consumers : hands[k] # NoMsg}
    <3>1. S \in SUBSET Consumers
      OBVIOUS
    <3>2. IsFiniteSet(S)
      BY <2>1, <3>1, FS_Subset
    <3>3. \A k, j \in S : hands[k] = hands[j] => k = j
      BY <1>1, PlacesInjective
    <3>4. HandRights = {hands[k] : k \in S}
      BY DEF HandRights
    <3> HIDE DEF S
    <3>5. IsFiniteSet(HandRights) /\ Cardinality(HandRights) = Cardinality(S)
      BY <3>2, <3>3, <3>4, ImageSize
    <3> QED BY <3>5 DEF S
  <2>6. /\ IsFiniteSet(HandlerRights \cup TableRights)
        /\ Cardinality(HandlerRights \cup TableRights) =
             Cardinality(HandlerRights) + Cardinality(TableRights)
        /\ Cardinality(HandlerRights) \in Nat /\ Cardinality(TableRights) \in Nat
    BY <1>1, <2>2, <2>3, PlacesApart, ApartSize
  <2>7. /\ IsFiniteSet(HandlerRights \cup TableRights \cup QueuedFrames)
        /\ Cardinality(HandlerRights \cup TableRights \cup QueuedFrames) =
             Cardinality(HandlerRights \cup TableRights) + Cardinality(QueuedFrames)
    <3>1. \A x \in HandlerRights \cup TableRights : x \notin QueuedFrames
      BY <1>1, PlacesApart
    <3> QED BY <2>4, <2>6, <3>1, ApartSize
  <2>8. /\ Cardinality(Places) =
             Cardinality(HandlerRights \cup TableRights \cup QueuedFrames)
               + Cardinality(HandRights)
        /\ Cardinality(HandRights) \in Nat
    <3>1. \A x \in HandlerRights \cup TableRights \cup QueuedFrames : x \notin HandRights
      BY <1>1, PlacesApart
    <3> QED BY <2>5, <2>7, <3>1, ApartSize DEF Places
  <2>9. Cardinality(rights) = Cardinality(HandlerRights) + Cardinality(TableRights)
                                + count + Cardinality(HandRights)
    BY <1>1, <2>1, <2>4, <2>6, <2>7, <2>8 DEF RightsInv
  <2> QED BY <1>1, <2>3, <2>5, <2>9, Zenon DEF RightsAccounted, RightsInv, Places
<1> QED BY <1>1, WayInvariant, RightsInvariant, PTL
-----------------------------------------------------------------------------
(* The table follows the connections.                                       *)

\* m tells the host whether c is connected.
Register(m, c) == m.kind \in {"hello", "goodbye"} /\ m.client = c

\* The latest word of c, the hello of its current connection, is the i-th message of the
\* port, or it is being handled, or the table has it.
LatestIn(c, i) ==
  /\ inbox[i] = Hello(c, connects[c])
  /\ \A j \in i + 1 .. Len(inbox) : ~Register(inbox[j], c)
LatestRead(c) ==
  /\ \A j \in 1 .. Len(inbox) : ~Register(inbox[j], c)
  /\ \/ hpc = "hello" /\ msg = Hello(c, connects[c])
     \/ /\ reply[c] = Hello(c, connects[c])
        /\ ~(hpc \in {"hello", "goodbye"} /\ msg.client = c)
Current(c) == (\E i \in 1 .. Len(inbox) : LatestIn(c, i)) \/ LatestRead(c)
CurrentInv == \A c \in Clients : connected[c] /\ portOpen => Current(c)

LEMMA HelloParts ==
  ASSUME HostInv, NEW c \in Clients
  PROVE  LET m == Hello(c, connects[c]) IN
         m.kind = "hello" /\ m.client = c /\ Register(m, c)
<1>1. connects[c] \in Int
  BY DEF HostInv, TypeOK, ClientTypeOK
<1> QED BY <1>1, Parts DEF Register

\* Steps that neither move a message nor handle one, and the end of a message's handling.
LEMMA StayCurrent ==
  ASSUME CurrentInv, UNCHANGED <<inbox, connects, hpc, msg, reply>>, portOpen' => portOpen,
         \A c \in Clients : connected'[c] => connected[c]
  PROVE  CurrentInv'
BY Zenon DEF CurrentInv, Current, LatestIn, LatestRead

LEMMA HandledCurrent ==
  ASSUME HostInv, CurrentInv, UNCHANGED <<inbox, portOpen, connected, connects>>,
         hpc' \notin {"hello", "goodbye"},
         \A c \in Clients :
           IF hpc \in {"hello", "goodbye"} /\ msg.client = c
             THEN hpc = "hello" => reply'[c] = msg
             ELSE reply'[c] = reply[c]
  PROVE  CurrentInv'
<1> SUFFICES ASSUME NEW c \in Clients, connected[c], portOpen
    PROVE  Current(c)'
  BY DEF CurrentInv
<1>1. Current(c)
  BY DEF CurrentInv
<1>2. CASE \E i \in 1 .. Len(inbox) : LatestIn(c, i)
  BY <1>2 DEF Current, LatestIn
<1>3. CASE LatestRead(c)
  BY <1>3, HelloParts DEF Current, LatestRead
<1> QED BY <1>1, <1>2, <1>3 DEF Current

LEMMA PostCurrent ==
  ASSUME HostInv, HostInv', CurrentInv, UNCHANGED hostVars, NEW m \in Messages, Post(m),
         \A c \in Clients : connected'[c] =>
           \/ connected[c] /\ connects'[c] = connects[c] /\ ~Register(m, c)
           \/ m = Hello(c, connects'[c])
  PROVE  CurrentInv'
<1>1. /\ Len(inbox') = Len(inbox) + 1 /\ Len(inbox) \in Nat
      /\ inbox'[Len(inbox) + 1] = m
      /\ \A i \in 1 .. Len(inbox) : inbox'[i] = inbox[i]
      /\ UNCHANGED <<portOpen, hpc, msg, reply>>
  BY DEF Post, HostInv, TypeOK, HostTypeOK, hostVars, threadVars
<1> SUFFICES ASSUME NEW c \in Clients, connected'[c], portOpen
    PROVE  Current(c)'
  BY <1>1 DEF CurrentInv
<1>2. CASE m = Hello(c, connects'[c])
  <2>1. Len(inbox') \in 1 .. Len(inbox') /\ inbox'[Len(inbox')] = Hello(c, connects'[c])
        /\ \A j \in Len(inbox') + 1 .. Len(inbox') : ~Register(inbox'[j], c)
    BY <1>1, <1>2
  <2> QED BY <2>1 DEF Current, LatestIn
<1>3. CASE connected[c] /\ connects'[c] = connects[c] /\ ~Register(m, c)
  <2>1. Current(c)
    BY <1>3 DEF CurrentInv
  <2>2. CASE LatestRead(c)
    <3>1. \A j \in 1 .. Len(inbox') : ~Register(inbox'[j], c)
      BY <1>1, <1>3, <2>2 DEF LatestRead
    <3> QED BY <1>1, <1>3, <2>2, <3>1 DEF Current, LatestRead
  <2>3. ASSUME NEW i \in 1 .. Len(inbox), LatestIn(c, i) PROVE Current(c)'
    <3>1. i \in 1 .. Len(inbox') /\ inbox'[i] = Hello(c, connects'[c])
      BY <1>1, <1>3, <2>3 DEF LatestIn
    <3>2. \A j \in i + 1 .. Len(inbox') : ~Register(inbox'[j], c)
      BY <1>1, <1>3, <2>3 DEF LatestIn
    <3> QED BY <3>1, <3>2 DEF Current, LatestIn
  <2> QED BY <2>1, <2>2, <2>3 DEF Current
<1> QED BY <1>2, <1>3

LEMMA ReceiveCurrent ==
  ASSUME HostInv, CurrentInv, Receive, UNCHANGED clientVars
  PROVE  CurrentInv'
<1>1. /\ UNCHANGED <<portOpen, connected, connects, reply>>
      /\ hpc = "receive" /\ inbox # <<>> /\ inbox \in Seq(Messages)
      /\ msg' = Head(inbox) /\ inbox' = Tail(inbox) /\ hpc' = msg'.kind
  BY DEF HostInv, TypeOK, HostTypeOK, Receive, At, clientVars
<1>2. /\ Len(inbox) \in Nat \ {0} /\ msg' = inbox[1] /\ Len(inbox') = Len(inbox) - 1
      /\ \A i \in 1 .. Len(inbox') : inbox'[i] = inbox[i + 1]
  BY <1>1
<1> SUFFICES ASSUME NEW c \in Clients, connected[c], portOpen
    PROVE  Current(c)'
  BY <1>1 DEF CurrentInv
<1>3. Current(c)
  BY DEF CurrentInv
<1>4. CASE LatestRead(c)
  <2>1. reply[c] = Hello(c, connects[c]) /\ ~Register(inbox[1], c)
        /\ \A j \in 1 .. Len(inbox') : ~Register(inbox'[j], c)
    BY <1>1, <1>2, <1>4 DEF LatestRead
  <2> QED BY <1>1, <1>2, <2>1 DEF Current, LatestRead, Register
<1>5. ASSUME NEW i \in 1 .. Len(inbox), LatestIn(c, i) PROVE Current(c)'
  <2>1. CASE i = 1
    <3>1. msg' = Hello(c, connects[c]) /\ hpc' = "hello"
      BY <1>1, <1>2, <1>5, <2>1, HelloParts DEF LatestIn
    <3>2. \A j \in 1 .. Len(inbox') : ~Register(inbox'[j], c)
      BY <1>2, <1>5, <2>1 DEF LatestIn
    <3> QED BY <1>1, <3>1, <3>2 DEF Current, LatestRead
  <2>2. CASE i # 1
    <3>1. PICK h \in 1 .. Len(inbox') : i = h + 1
      <4>1. i - 1 \in 1 .. Len(inbox') /\ i = (i - 1) + 1
        BY <1>2, <2>2
      <4> QED BY <4>1
    <3>2. inbox'[h] = Hello(c, connects[c])
      BY <1>2, <1>5, <3>1 DEF LatestIn
    <3>3. \A j \in h + 1 .. Len(inbox') : ~Register(inbox'[j], c)
      BY <1>2, <1>5, <3>1 DEF LatestIn
    <3> QED BY <1>1, <3>2, <3>3 DEF Current, LatestIn
  <2> QED BY <2>1, <2>2
<1> QED BY <1>3, <1>4, <1>5 DEF Current

\* With room for every client no hello is refused.
LEMMA RoomForAll ==
  ASSUME HostInv, Cardinality(Clients) <= MaxClients
  PROVE  ~RefuseClient
<1> SUFFICES ASSUME RefuseClient PROVE FALSE
  OBVIOUS
<1> DEFINE A == {c \in Clients : Active(c)}
<1>1. msg.client \in Clients /\ msg.client \notin A /\ Cardinality(A) >= MaxClients
  BY InHand DEF RefuseClient, At, Handling
<1>2. A \in SUBSET Clients /\ A # Clients
  BY <1>1
<1> HIDE DEF A
<1>3. Cardinality(A) <= Cardinality(Clients) /\ Cardinality(A) # Cardinality(Clients)
  BY <1>2, HostAssumption, FS_Subset
<1>4. Cardinality(A) \in Nat /\ Cardinality(Clients) \in Nat /\ MaxClients \in Nat
  BY <1>2, HostAssumption, FS_Subset, FS_CardinalityType
<1> QED BY <1>1, <1>3, <1>4

LEMMA ClientCurrent ==
  ASSUME HostInv, HostInv', CurrentInv, ClientNext, UNCHANGED hostVars
  PROVE  CurrentInv'
<1>1. /\ connected \in [Clients -> BOOLEAN] /\ connects \in [Clients -> 0 .. MaxConnects]
      /\ submits \in [Clients -> 0 .. MaxFrames] /\ MaxConnects \in Nat /\ MaxFrames \in Nat
      /\ ClientsInv
  BY BoundsAssumption DEF HostInv, TypeOK, ClientTypeOK
<1>2. PICK c \in Clients :
        \/ Connect(c) \/ Disconnect(c) \/ CheckConnection(c) \/ BeginSend(c)
        \/ FailSend(c) \/ FinishSend(c) \/ RestartClient(c)
  BY DEF ClientNext
<1>3. ASSUME UNCHANGED port, UNCHANGED connects,
             \A d \in Clients : connected'[d] => connected[d]
      PROVE  CurrentInv'
  BY <1>3, StayCurrent DEF port, hostVars, threadVars
<1>4. CASE Connect(c)
  <2>1. connects[c] + 1 \in 1 .. MaxConnects
    BY <1>1, <1>4 DEF Connect
  <2> DEFINE m == Hello(c, connects[c] + 1)
  <2>2. m \in Messages /\ Post(m) /\ m = Hello(c, connects'[c]) /\ m.client = c
    BY <1>1, <1>4, <2>1, Parts DEF Connect, Messages, Hellos
  <2>3. \A d \in Clients : d # c => connected'[d] = connected[d] /\ connects'[d] = connects[d]
    BY <1>1, <1>4 DEF Connect
  <2> HIDE DEF m
  <2> QED BY <2>2, <2>3, PostCurrent DEF Register
<1>5. CASE Disconnect(c)
  <2>1. /\ UNCHANGED connects /\ connected'[c] = FALSE
        /\ \A d \in Clients : d # c => connected'[d] = connected[d]
        /\ Post(Goodbye(c)) \/ UNCHANGED port
    BY <1>1, <1>5 DEF Disconnect
  <2>2. Goodbye(c) \in Messages /\ Goodbye(c).client = c
    BY Parts DEF Messages
  <2>3. CASE Post(Goodbye(c))
    BY <2>1, <2>2, <2>3, PostCurrent DEF Register
  <2> QED BY <1>3, <2>1, <2>3
<1>6. CASE FinishSend(c)
  <2>1. submits[c] \in 1 .. MaxFrames
    BY <1>1, <1>6 DEF FinishSend, ClientsInv
  <2> DEFINE m == Frame(c, submits[c])
  <2>2. m \in Messages /\ Post(m) /\ m.kind = "frame" /\ UNCHANGED <<connected, connects>>
    BY <1>6, <2>1, Parts DEF FinishSend, Messages, Surfaces
  <2> HIDE DEF m
  <2> QED BY <2>2, PostCurrent DEF Register
<1>7. CASE CheckConnection(c) \/ BeginSend(c) \/ FailSend(c) \/ RestartClient(c)
  <2>1. /\ UNCHANGED port /\ UNCHANGED connects
        /\ connected' = connected \/ connected' = [connected EXCEPT ![c] = FALSE]
    BY <1>7 DEF CheckConnection, BeginSend, FailSend, RestartClient
  <2> QED BY <1>1, <1>3, <2>1
<1> QED BY <1>2, <1>4, <1>5, <1>6, <1>7

LEMMA HostCurrent ==
  ASSUME HostInv, HostInv', CurrentInv, HostNext, UNCHANGED clientVars,
         Cardinality(Clients) <= MaxClients
  PROVE  CurrentInv'
<1>1. UNCHANGED <<connected, connects>> /\ reply \in [Clients -> Hellos \cup {NoMsg}]
  BY DEF clientVars, HostInv, TypeOK, HostTypeOK
<1>2. CASE EnterLoop \/ ReceiveTimesOut \/ ConnectedCallback \/ DisconnectedCallback
           \/ LookUpSender \/ PushFrame \/ FrameCallback
  <2>1. /\ UNCHANGED <<inbox, portOpen, reply>>
        /\ hpc \notin {"hello", "goodbye"} /\ hpc' \notin {"hello", "goodbye"}
    BY <1>2 DEF EnterLoop, ReceiveTimesOut, ConnectedCallback, DisconnectedCallback,
                LookUpSender, PushFrame, Push, FrameCallback, At, Goto, Return, port
  <2> QED BY <1>1, <2>1, HandledCurrent
<1>3. CASE RefreshClient \/ AdmitClient
  <2>1. /\ UNCHANGED <<inbox, portOpen>> /\ hpc = "hello" /\ hpc' \notin {"hello", "goodbye"}
        /\ reply' = [reply EXCEPT ![msg.client] = msg]
    BY <1>3 DEF RefreshClient, Refresh, AdmitClient, At, Goto, Return, port
  <2> QED BY <1>1, <2>1, HandledCurrent
<1>4. CASE HandleGoodbye
  <2>1. /\ UNCHANGED <<inbox, portOpen>> /\ hpc = "goodbye" /\ hpc' \notin {"hello", "goodbye"}
        /\ reply' = [reply EXCEPT ![msg.client] = NoMsg] \/ reply' = reply
    BY <1>4 DEF HandleGoodbye, Forget, At, Goto, Return, port
  <2> QED BY <1>1, <2>1, HandledCurrent
<1>5. CASE \/ \E k \in Consumers : PopFrame(k) \/ ReleaseFramePort(k)
           \/ \E then \in {"stop", "destroy"} : StopHost(then)
           \/ JoinThread
  <2>1. UNCHANGED <<inbox, portOpen, hpc, msg, reply>>
    BY <1>5 DEF PopFrame, ReleaseFramePort, StopHost, JoinThread, port, threadVars
  <2> QED BY <1>1, <2>1, StayCurrent
<1>6. CASE \E created \in BOOLEAN : StartHost(created)
  <2>1. UNCHANGED <<inbox, portOpen, reply>> /\ hpc = "none" /\ hpc' \in {"loop", "none"}
    BY <1>6 DEF StartHost, port, HostInv, ThreadInv
  <2> QED BY <1>1, <2>1, HandledCurrent
<1>7. CASE DestroyHost
  BY <1>7 DEF DestroyHost, CurrentInv
<1> QED BY <1>2, <1>3, <1>4, <1>5, <1>6, <1>7, ReceiveCurrent, RoomForAll
        DEF HostNext, ServiceThread

LEMMA StepKeepsCurrent ==
  ASSUME Cardinality(Clients) <= MaxClients
  PROVE  HostInv /\ HostInv' /\ CurrentInv /\ [Next]_vars => CurrentInv'
<1> SUFFICES ASSUME HostInv, HostInv', CurrentInv, [Next]_vars PROVE CurrentInv'
  OBVIOUS
<1>1. CASE UNCHANGED vars
  BY <1>1, StayCurrent DEF vars, port, hostVars, threadVars, clientVars
<1> QED BY <1>1, HostCurrent, ClientCurrent DEF Next

\* In a table with room for every client, a connected client of which nothing is left to
\* read has the reply port of its current connection, whatever crashes, reconnections and
\* goodbyes came before.
THEOREM RepliesCurrent == Spec => []ReplyRightCurrent
<1>1. CASE ~(Cardinality(Clients) <= MaxClients)
  <2>1. ReplyRightCurrent
    BY <1>1 DEF ReplyRightCurrent
  <2> QED BY <2>1, PTL
<1>2. CASE Cardinality(Clients) <= MaxClients
  <2>1. Init => CurrentInv
    BY DEF Init, ClientInit, CurrentInv
  <2>2. HostInv /\ HostInv' /\ CurrentInv /\ [Next]_vars => CurrentInv'
    BY <1>2, StepKeepsCurrent
  <2>3. HostInv /\ CurrentInv => ReplyRightCurrent
    <3> SUFFICES ASSUME HostInv, CurrentInv, NEW c \in Clients, connected[c], portOpen,
                        ~Pending(c)
        PROVE  reply[c] = Hello(c, connects[c])
      BY DEF ReplyRightCurrent
    <3>1. Current(c)
      BY DEF CurrentInv
    <3>2. \A i \in 1 .. Len(inbox) : inbox[i].client # c
      BY DEF Pending
    <3>3. ~\E i \in 1 .. Len(inbox) : LatestIn(c, i)
      BY <3>2, HelloParts DEF LatestIn
    <3>4. ~(hpc = "hello" /\ msg = Hello(c, connects[c]))
      BY HelloParts, InHand DEF Pending, Handling
    <3> QED BY <3>1, <3>3, <3>4 DEF Current, LatestRead
  <2> QED BY <2>1, <2>2, <2>3, HostInvariant, StepKeepsHost, InitHost, PTL DEF Spec
<1> QED BY <1>1, <1>2
-----------------------------------------------------------------------------
(* A host whose frames nobody pops.                                         *)

LiveInv == hpc = "frame_cb" => msg \in QueuedFrames

LEMMA StepKeepsLive ==
  ASSUME Consumers = {}
  PROVE  HostInv /\ HostInv' /\ LiveInv /\ [Next]_vars => LiveInv'
<1> SUFFICES ASSUME HostInv, HostInv', LiveInv, [Next]_vars, hpc' = "frame_cb"
    PROVE  msg' \in QueuedFrames'
  BY DEF LiveInv
<1>1. CASE PushFrame
  <2>1. Waiting!Push(msg) /\ msg \in Surfaces /\ msg' = msg
    BY <1>1, PushImplements DEF PushFrame, Push, Goto
  <2>2. /\ Queue \in Seq(Surfaces) /\ Queue' \in Seq(Surfaces) /\ Len(Queue') = count'
        /\ Len(Queue) = count /\ Capacity \in Nat \ {0} /\ MembersView'
    BY QueueIs, QueueIsNext, MembersNext, HostAssumption DEF QueueView
  <2>3. PICK s \in Seq(Surfaces) : Queue' = Append(s, msg)
    <3>1. CASE Len(Queue) < Capacity
      BY <2>1, <2>2, <3>1 DEF Waiting!Push
    <3>2. CASE ~(Len(Queue) < Capacity)
      <4>1. Tail(Queue) \in Seq(Surfaces) /\ Queue' = Append(Tail(Queue), msg)
        BY <2>1, <2>2, <3>2 DEF Waiting!Push
      <4> QED BY <4>1
    <3> QED BY <3>1, <3>2
  <2>4. count' \in 1 .. count' /\ Queue'[count'] = msg
    BY <2>1, <2>2, <2>3
  <2>5. \A x : x \in QueuedFrames' <=> \E i \in 1 .. count' : x = Queue'[i]
    BY <2>2 DEF MembersView
  <2>6. \E i \in 1 .. count' : msg = Queue'[i]
    BY <2>4
  <2> QED BY <2>1, <2>5, <2>6
<1>2. ASSUME ~PushFrame
      PROVE  hpc = "frame_cb" /\ UNCHANGED <<msg, queueVars>>
  <2>1. CASE UNCHANGED hostVars
    BY <2>1 DEF hostVars, threadVars
  <2>2. CASE ServiceThread
    <3>1. ASSUME Receive PROVE FALSE
      <4>1. hpc' = Head(inbox).kind /\ Head(inbox) \in Messages
        BY <3>1 DEF Receive, HostInv, TypeOK, HostTypeOK
      <4>2. hpc' \in {"hello", "frame", "goodbye"}
        BY <4>1, MessageKinds
      <4> QED BY <4>2
    <3> QED BY <1>2, <2>2, <3>1
        DEF ServiceThread, EnterLoop, ReceiveTimesOut, RefreshClient, Refresh, AdmitClient,
            RefuseClient, ConnectedCallback, HandleGoodbye, Forget, DisconnectedCallback,
            LookUpSender, FrameCallback, At, Goto, Return
  <2>3. CASE \/ \E created \in BOOLEAN : StartHost(created)
             \/ \E then \in {"stop", "destroy"} : StopHost(then)
             \/ JoinThread \/ DestroyHost
    BY <2>3 DEF StartHost, StopHost, JoinThread, DestroyHost, threadVars
  <2> QED BY <2>1, <2>2, <2>3 DEF Next, HostNext, vars
<1>3. CASE ~PushFrame
  <2>1. hpc = "frame_cb" /\ UNCHANGED <<msg, queueVars>>
    BY <1>2, <1>3
  <2> QED BY <2>1 DEF LiveInv, QueuedFrames, queueVars
<1> QED BY <1>1, <1>3

\* While the frame callback of a host without consumers runs, the task holds the right in
\* its frame: the push before it cannot have dropped it, even in a queue of one.
THEOREM PortLive == Consumers = {} => (Spec => []CallbackPortLive)
<1> SUFFICES ASSUME Consumers = {} PROVE Spec => []CallbackPortLive
  OBVIOUS
<1>1. Init => LiveInv
  BY DEF Init, HostInit, LiveInv
<1>2. HostInv /\ HostInv' /\ LiveInv /\ [Next]_vars => LiveInv'
  BY StepKeepsLive
<1>3. RightsInv /\ LiveInv => CallbackPortLive
  BY DEF RightsInv, Places, LiveInv, CallbackPortLive
<1> QED BY <1>1, <1>2, <1>3, InitHost, StepKeepsHost, RightsInvariant, PTL DEF Spec
=============================================================================
