------------------------------ MODULE MachPort -------------------------------
(***************************************************************************)
(* The kernel's service port between client processes and the compositor   *)
(* host: a bounded FIFO of messages.  A send to a full port blocks (the    *)
(* clients send with MACH_MSG_TIMEOUT_NONE), a message is delivered once,  *)
(* the port rights in it travel with it, and a port whose receiver is gone *)
(* refuses every send and destroys what it held.                              *)
(***************************************************************************)
EXTENDS Integers, Sequences

CONSTANTS Clients,      \* client processes, each with a token of its own
          PortLimit,    \* messages the kernel queues on the service port
          MaxConnects,  \* bound: connections one client makes
          MaxFrames     \* bound: surfaces one client submits

ASSUME PortAssumption == PortLimit \in Nat \ {0}
ASSUME BoundsAssumption == MaxConnects \in Nat /\ MaxFrames \in Nat

VARIABLES
  inbox,     \* the messages queued on the service port, oldest first
  portOpen   \* the host still owns the port's receive right

port == <<inbox, portOpen>>

\* qmv_hello_msg_t: carries a send right to the client's reply port.  The port is
\* a fresh one for each connection of a client, so the number of the connection
\* stands for it.
Hello(c, k) == [kind |-> "hello", client |-> c, conn |-> k]

\* qmv_frame_submit_msg_t: carries the send right to a surface, fresh for each
\* submission; n is the frame_index, which counts the client's submissions.
Frame(c, n) == [kind |-> "frame", client |-> c, index |-> n]

\* qmv_goodbye_msg_t: carries no right.
Goodbye(c) == [kind |-> "goodbye", client |-> c]

Hellos   == {Hello(c, k) : c \in Clients, k \in 1 .. MaxConnects}
Surfaces == {Frame(c, n) : c \in Clients, n \in 1 .. MaxFrames}
Messages == Hellos \cup Surfaces \cup {Goodbye(c) : c \in Clients}

\* The messages that hand a right to their receiver.  The message stands for the
\* right.
Rights == Hellos \cup Surfaces

\* A message is queued; its sender waits while the port is full.
Post(m) ==
  /\ portOpen
  /\ Len(inbox) < PortLimit
  /\ inbox' = Append(inbox, m)
  /\ UNCHANGED portOpen
==============================================================================
