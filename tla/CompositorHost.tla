--------------------------- MODULE CompositorHost ----------------------------
(***************************************************************************)
(* native/compositor_host.c: the compositor's end of the service port.     *)
(* The service thread takes one message at a time and handles it in        *)
(* critical sections of host->lock; callbacks run outside the lock.        *)
(* Consumer threads pop frames from a ring of Capacity entries and release *)
(* their ports.  The owner of the host starts, stops and destroys it.      *)
(*                                                                         *)
(* A critical section is one step, and so is a section between two of them *)
(* that touches nothing shared.  The client table is a function from       *)
(* clients to the reply right held for them: tokens are unique and which   *)
(* of the MaxClients records a client uses is never observable.            *)
(***************************************************************************)
EXTENDS MachPort, FiniteSets

CONSTANTS Consumers,   \* threads that call pop_frame
          Capacity,    \* QMV_HOST_MAX_QUEUE, 256
          MaxClients,  \* QMV_HOST_MAX_CLIENTS, 64
          NoMsg        \* no message, no frame, no reply right

ASSUME HostAssumption ==
  /\ Capacity \in Nat \ {0}
  /\ MaxClients \in Nat \ {0}
  /\ NoMsg \notin Messages
  /\ IsFiniteSet(Clients) /\ IsFiniteSet(Consumers)

VARIABLES
  ring, head, tail, count,  \* host->queue and its three counters
  reply,      \* reply[c]: the reply right of an active client
  running,    \* host->running
  hpc,        \* where the service thread is; "none" without a thread
  msg,        \* the message it handles
  owner,      \* what the host's owner does: "free", "stop", "destroy", "gone"
  hands,      \* hands[k]: the frame consumer k popped and has not released
  rights,     \* the port rights the host's task holds
  notified,   \* notified[c]: connected minus disconnected callbacks so far
  popped      \* popped[c]: the newest frame of c that went to a consumer

queueVars  == <<ring, head, tail, count>>
threadVars == <<hpc, msg>>
hostVars   == <<queueVars, threadVars, reply, running, owner, hands, rights,
                notified, popped>>

Cells == 0 .. Capacity - 1
Steps == {"none", "loop", "receive", "hello", "hello_cb", "goodbye", "goodbye_cb",
          "frame", "push", "frame_cb"}

HostTypeOK ==
  /\ inbox \in Seq(Messages) /\ Len(inbox) <= PortLimit
  /\ portOpen \in BOOLEAN
  /\ ring \in [Cells -> Surfaces \cup {NoMsg}]
  /\ head \in Cells /\ tail \in Cells /\ count \in 0 .. Capacity
  /\ reply \in [Clients -> Hellos \cup {NoMsg}]
  /\ running \in BOOLEAN
  /\ hpc \in Steps
  /\ msg \in Messages \cup {NoMsg}
  /\ owner \in {"free", "stop", "destroy", "gone"}
  /\ hands \in [Consumers -> Surfaces \cup {NoMsg}]
  /\ rights \subseteq Rights
  /\ notified \in [Clients -> Int]
  /\ popped \in [Clients -> 0 .. MaxFrames]

HostInit ==
  /\ inbox = <<>> /\ portOpen = TRUE
  /\ ring = [i \in Cells |-> NoMsg]
  /\ head = 0 /\ tail = 0 /\ count = 0
  /\ reply = [c \in Clients |-> NoMsg]
  /\ running = FALSE
  /\ hpc = "none"
  /\ msg = NoMsg
  /\ owner = "free"
  /\ hands = [k \in Consumers |-> NoMsg]
  /\ rights = {}
  /\ notified = [c \in Clients |-> 0]
  /\ popped = [c \in Clients |-> 0]

Active(c) == reply[c] # NoMsg

------------------------------------------------------------------------------
(* The service thread: qmv_compositor_host_thread_main and run_once.        *)

At(pc)   == hpc = pc
Goto(pc) == hpc' = pc /\ UNCHANGED msg
Return   == hpc' = "loop" /\ msg' = NoMsg

\* mutant: the loop does not look at the flag
EnterLoopAlways ==
  /\ At("loop")
  /\ Goto("receive")
  /\ UNCHANGED <<port, queueVars, reply, running, owner, hands, rights, notified, popped>>

EnterLoop ==
  /\ At("loop")
  /\ Goto(IF running THEN "receive" ELSE "none")
  /\ UNCHANGED <<port, queueVars, reply, running, owner, hands, rights, notified, popped>>

\* No message within the 50 ms of one run_once.
ReceiveTimesOut ==
  /\ At("receive")
  /\ inbox = <<>>
  /\ Goto("loop")
  /\ UNCHANGED <<port, queueVars, reply, running, owner, hands, rights, notified, popped>>

\* mutant: a frame message does not fit the buffer and stays on the port
ReceiveSmall ==
  /\ At("receive")
  /\ inbox # <<>>
  /\ IF Head(inbox).kind = "frame"
       THEN Goto("loop") /\ UNCHANGED <<inbox, rights>>
       ELSE /\ msg' = Head(inbox)
            /\ inbox' = Tail(inbox)
            /\ hpc' = Head(inbox).kind
            /\ rights' = rights \cup ({Head(inbox)} \cap Rights)
  /\ UNCHANGED <<portOpen, queueVars, reply, running, owner, hands, notified, popped>>

\* A message arrives, with its right, and is dispatched on its id.
Receive ==
  /\ At("receive")
  /\ inbox # <<>>
  /\ msg' = Head(inbox)
  /\ inbox' = Tail(inbox)
  /\ hpc' = Head(inbox).kind
  /\ rights' = rights \cup ({Head(inbox)} \cap Rights)
  /\ UNCHANGED <<portOpen, queueVars, reply, running, owner, hands, notified, popped>>

\* qmv_host_handle_hello, one action per outcome.  A client that is known gets
\* its new reply port recorded and nobody is told.
Refresh(kept, dropped) ==
  /\ At("hello")
  /\ Active(msg.client)
  /\ rights' = rights \ dropped
  /\ reply' = [reply EXCEPT ![msg.client] = kept]
  /\ Return
  /\ UNCHANGED <<port, queueVars, running, owner, hands, notified, popped>>

RefreshLeaking == Refresh(msg, {})                        \* mutant
RefreshKeepingOld == Refresh(reply[msg.client], {msg})    \* mutant
RefreshClient == Refresh(msg, {reply[msg.client]})

AdmitClient ==
  /\ At("hello")
  /\ ~Active(msg.client)
  /\ Cardinality({c \in Clients : Active(c)}) < MaxClients
  /\ reply' = [reply EXCEPT ![msg.client] = msg]
  /\ Goto("hello_cb")
  /\ UNCHANGED <<port, queueVars, running, owner, hands, rights, notified, popped>>

\* The table is full: the reply right is dropped and the client never learns.
RefuseClient ==
  /\ At("hello")
  /\ ~Active(msg.client)
  /\ Cardinality({c \in Clients : Active(c)}) >= MaxClients
  /\ rights' = rights \ {msg}
  /\ Return
  /\ UNCHANGED <<port, queueVars, reply, running, owner, hands, notified, popped>>

ConnectedCallback ==
  /\ At("hello_cb")
  /\ notified' = [notified EXCEPT ![msg.client] = @ + 1]
  /\ Return
  /\ UNCHANGED <<port, queueVars, reply, running, owner, hands, rights, popped>>

\* qmv_host_handle_goodbye.  The client's queued frames stay queued.
Forget(stranger) ==
  /\ At("goodbye")
  /\ IF Active(msg.client)
       THEN /\ rights' = rights \ {reply[msg.client]}
            /\ reply' = [reply EXCEPT ![msg.client] = NoMsg]
            /\ Goto("goodbye_cb")
       ELSE stranger /\ UNCHANGED <<rights, reply>>
  /\ UNCHANGED <<port, queueVars, running, owner, hands, notified, popped>>

AnnounceAnyGoodbye == Forget(Goto("goodbye_cb"))          \* mutant
HandleGoodbye == Forget(Return)

DisconnectedCallback ==
  /\ At("goodbye_cb")
  /\ notified' = [notified EXCEPT ![msg.client] = @ - 1]
  /\ Return
  /\ UNCHANGED <<port, queueVars, reply, running, owner, hands, rights, popped>>

\* qmv_host_handle_frame_submit, first critical section: is the sender a client?
LookUpSender ==
  /\ At("frame")
  /\ IF Active(msg.client)
       THEN Goto("push") /\ UNCHANGED rights
       ELSE Return /\ rights' = rights \ {msg}
  /\ UNCHANGED <<port, queueVars, reply, running, owner, hands, notified, popped>>

Following(i) == (i + 1) % Capacity

\* qmv_host_push_frame_locked: a queue that is full drops its oldest frame first.
Push(full, newHead, dropped) ==
  /\ At("push")
  /\ head' = IF full THEN newHead ELSE head
  /\ rights' = IF full THEN rights \ dropped ELSE rights
  /\ count' = IF full THEN count ELSE count + 1
  /\ ring' = [ring EXCEPT ![tail] = msg]
  /\ tail' = Following(tail)
  /\ Goto("frame_cb")
  /\ UNCHANGED <<port, reply, running, owner, hands, notified, popped>>

PushBeyond == Push(count > Capacity, Following(head), {ring[head]})     \* mutant
PushInPlace == Push(count >= Capacity, head, {ring[head]})              \* mutant
PushUnowned == Push(count >= Capacity, Following(head), {ring[head], msg}) \* mutant
PushFrame == Push(count >= Capacity, Following(head), {ring[head]})

\* host->frame_cb gets a copy of the frame, with the right the queue owns.
FrameCallback ==
  /\ At("frame_cb")
  /\ Return
  /\ UNCHANGED <<port, queueVars, reply, running, owner, hands, rights, notified, popped>>

ServiceThread ==
  \/ EnterLoop \/ ReceiveTimesOut \/ Receive
  \/ RefreshClient \/ AdmitClient \/ RefuseClient \/ ConnectedCallback
  \/ HandleGoodbye \/ DisconnectedCallback
  \/ LookUpSender \/ PushFrame \/ FrameCallback

------------------------------------------------------------------------------
(* Consumers: qmv_compositor_host_pop_frame and release_frame_port.         *)

\* mutant: the newest frame leaves first
PopNewest(k) ==
  LET last == (tail + Capacity - 1) % Capacity IN
  /\ owner # "gone"
  /\ hands[k] = NoMsg
  /\ count > 0
  /\ hands' = [hands EXCEPT ![k] = ring[last]]
  /\ popped' = [popped EXCEPT ![ring[last].client] = ring[last].index]
  /\ tail' = last
  /\ count' = count - 1
  /\ UNCHANGED <<port, ring, head, threadVars, reply, running, owner, rights, notified>>

PopFrame(k) ==
  /\ owner # "gone"
  /\ hands[k] = NoMsg
  /\ count > 0
  /\ hands' = [hands EXCEPT ![k] = ring[head]]
  /\ popped' = [popped EXCEPT ![ring[head].client] = ring[head].index]
  /\ head' = Following(head)
  /\ count' = count - 1
  /\ UNCHANGED <<port, ring, tail, threadVars, reply, running, owner, rights, notified>>

ReleaseFramePort(k) ==
  /\ hands[k] # NoMsg
  /\ rights' = rights \ {hands[k]}
  /\ hands' = [hands EXCEPT ![k] = NoMsg]
  /\ UNCHANGED <<port, queueVars, threadVars, reply, running, owner, notified, popped>>

------------------------------------------------------------------------------
(* The owner: qmv_compositor_host_start, stop and destroy.                  *)

\* running is set before the thread exists and stays set when there is none; a
\* stop then joins a thread that never was, which is taken to return at once.
StartHost(created) ==
  /\ owner = "free"
  /\ ~running
  /\ running' = TRUE
  /\ hpc' = IF created THEN "loop" ELSE "none"
  /\ UNCHANGED <<port, queueVars, msg, reply, owner, hands, rights, notified, popped>>

\* stop clears the flag and joins the thread; destroy begins with a stop.
StopHost(then) ==
  /\ owner = "free"
  /\ then = "stop" => running
  /\ running' = FALSE
  /\ owner' = then
  /\ UNCHANGED <<port, queueVars, threadVars, reply, hands, rights, notified, popped>>

JoinThread ==
  /\ owner = "stop"
  /\ hpc = "none"
  /\ owner' = "free"
  /\ UNCHANGED <<port, queueVars, threadVars, reply, running, hands, rights, notified,
                 popped>>

QueuedFrames == {ring[(head + i) % Capacity] : i \in 0 .. count - 1}

\* After the join: every queued frame and every reply right is released, then
\* the service port goes, and with it what was still on it.
DestroyHost ==
  /\ owner = "destroy"
  /\ hpc = "none"
  /\ owner' = "gone"
  /\ rights' = rights \ (QueuedFrames \cup {reply[c] : c \in Clients})
  /\ head' = (head + count) % Capacity
  /\ count' = 0
  /\ reply' = [c \in Clients |-> NoMsg]
  /\ inbox' = <<>> /\ portOpen' = FALSE
  /\ UNCHANGED <<ring, tail, threadVars, running, hands, notified, popped>>

HostNext ==
  \/ ServiceThread
  \/ \E k \in Consumers : PopFrame(k) \/ ReleaseFramePort(k)
  \/ \E created \in BOOLEAN : StartHost(created)
  \/ \E then \in {"stop", "destroy"} : StopHost(then)
  \/ JoinThread
  \/ DestroyHost
==============================================================================
