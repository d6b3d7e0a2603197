----------------------------- MODULE Compositor ------------------------------
(***************************************************************************)
(* The compositor host and the client processes joined by the service port. *)
(***************************************************************************)
EXTENDS CompositorHost, ClientBridge

vars == <<port, hostVars, clientVars>>

TypeOK == HostTypeOK /\ ClientTypeOK

Init == HostInit /\ ClientInit

Next ==
  \/ HostNext /\ UNCHANGED clientVars
  \/ ClientNext /\ UNCHANGED hostVars

Spec == Init /\ [][Next]_vars

\* The service thread is scheduled and its callbacks return; the kernel lets the
\* blocked senders of a port through in turn.
Fairness ==
  /\ WF_vars(ServiceThread /\ UNCHANGED clientVars)
  /\ WF_vars((JoinThread \/ DestroyHost) /\ UNCHANGED clientVars)
  /\ \A c \in Clients :
       /\ SF_vars(FinishSend(c) /\ UNCHANGED hostVars)
       /\ WF_vars(FailSend(c) /\ UNCHANGED hostVars)

FairSpec == Spec /\ Fairness

------------------------------------------------------------------------------
(* Safety.                                                                  *)

HandlerRights == {m \in {msg} : hpc \in {"hello", "frame", "push"}}
TableRights   == {reply[c] : c \in {d \in Clients : Active(d)}}
HandRights    == {hands[k] : k \in {j \in Consumers : hands[j] # NoMsg}}

\* Every right the host was sent is in exactly one place, the message being
\* handled, the client table, the queue or a consumer's hands, and a right that
\* is in none of them has been given back: nothing leaks, nothing is given back
\* twice, whatever the order of connections, crashes, drops, pops and the end of
\* the host.
RightsAccounted ==
  /\ rights = HandlerRights \cup TableRights \cup QueuedFrames \cup HandRights
  /\ Cardinality(rights) =
       Cardinality(HandlerRights) + Cardinality({c \in Clients : Active(c)})
         + count + Cardinality({k \in Consumers : hands[k] # NoMsg})

\* A client that is connected, and of which the host has nothing left to read, is
\* in the host's table with the reply port of its current connection, even after
\* crashes and reconnections.  It needs a table with room for every client.
Pending(c) == \/ \E i \in 1 .. Len(inbox) : inbox[i].client = c
              \/ msg # NoMsg /\ msg.client = c
ReplyRightCurrent ==
  Cardinality(Clients) <= MaxClients =>
    \A c \in Clients :
      connected[c] /\ portOpen /\ ~Pending(c) => reply[c] = Hello(c, connects[c])

\* Between two messages the callbacks have told the application of each client
\* exactly what the table says: one connected for each disconnected, and one
\* more while the client is active.
NotificationsMatch ==
  msg = NoMsg /\ owner # "gone" =>
    \A c \in Clients : notified[c] = IF Active(c) THEN 1 ELSE 0

\* The way of a message: from the consumers past the queue, the handler and the
\* port back to the client.
Queue    == [i \in 1 .. count |-> ring[(head + i - 1) % Capacity]]
OnTheWay == Queue \o (IF hpc \in {"frame", "push"} THEN <<msg>> ELSE <<>>) \o inbox

\* The frames of one client reach the consumers in the order it submitted them,
\* each at most once; some may be missing.
FrameOf(m, c) == m.kind = "frame" /\ m.client = c
FramesInOrder ==
  \A c \in Clients, i \in 1 .. Len(OnTheWay) :
    FrameOf(OnTheWay[i], c) =>
      /\ popped[c] < OnTheWay[i].index
      /\ \A j \in i + 1 .. Len(OnTheWay) :
           FrameOf(OnTheWay[j], c) => OnTheWay[i].index < OnTheWay[j].index

\* The ring is the bounded queue that drops its oldest frame.
Waiting == INSTANCE DropOldestQueue WITH Items <- Surfaces, waiting <- Queue
QueueSpec == Waiting!Spec

\* While the application's frame callback runs, the right in its frame is held by
\* the task.  This is about a host whose frames nobody pops, as QmvServer sets it
\* up: a consumer can pop and release the frame before the callback has looked.
CallbackPortLive == hpc = "frame_cb" => msg \in rights

------------------------------------------------------------------------------
(* Liveness, under FairSpec.                                                *)

\* Stopping and destroying return: the thread sees the flag after the message it
\* is handling, however many more are queued.
StopReturns == owner \in {"stop", "destroy"} ~> owner \in {"free", "gone"}

\* While the host serves, a client blocked on a full port gets its frame in.
Serving == running /\ hpc # "none"
SendersUnblock ==
  <>[]Serving => \A c \in Clients : []<>(spc[c] # "blocked")
==============================================================================
