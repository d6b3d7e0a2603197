---------------------------- MODULE ClientBridge -----------------------------
(***************************************************************************)
(* native/client_bridge.c: the connection a client process keeps to the    *)
(* compositor.  One thread of the process connects and disconnects, one    *)
(* submits surfaces; the connection record is shared under conn->lock,     *)
(* which connect and disconnect hold through their (blocking) send, while  *)
(* a submission only copies server_port under it and sends after unlock.   *)
(***************************************************************************)
EXTENDS MachPort

VARIABLES
  connected,  \* connected[c]: conn->connected
  connects,   \* connects[c]: connections made so far; the last one is current
  submits,    \* submits[c]: surfaces submitted so far
  spc,        \* spc[c]: where qmv_client_send_surface is
  usedConn    \* usedConn[c]: the connection whose server_port it copied, or 0

clientVars == <<connected, connects, submits, spc, usedConn>>

ClientTypeOK ==
  /\ connected \in [Clients -> BOOLEAN]
  /\ connects \in [Clients -> 0 .. MaxConnects]
  /\ submits \in [Clients -> 0 .. MaxFrames]
  /\ spc \in [Clients -> {"idle", "checked", "blocked"}]
  /\ usedConn \in [Clients -> 0 .. MaxConnects]

ClientInit ==
  /\ connected = [c \in Clients |-> FALSE]
  /\ connects = [c \in Clients |-> 0]
  /\ submits = [c \in Clients |-> 0]
  /\ spc = [c \in Clients |-> "idle"]
  /\ usedConn = [c \in Clients |-> 0]

\* qmv_client_connect: the HELLO is sent and the record filled in under the
\* lock.  A failed look-up or send changes nothing here.
Connect(c) ==
  /\ ~connected[c]
  /\ connects[c] < MaxConnects
  /\ Post(Hello(c, connects[c] + 1))
  /\ connects' = [connects EXCEPT ![c] = @ + 1]
  /\ connected' = [connected EXCEPT ![c] = TRUE]
  /\ UNCHANGED <<submits, spc, usedConn>>

\* qmv_client_disconnect: GOODBYE, which a dead port refuses, then both ports are
\* dropped whether it went or not, under the lock.
Disconnect(c) ==
  /\ connected[c]
  /\ Post(Goodbye(c)) \/ (~portOpen /\ UNCHANGED port)
  /\ connected' = [connected EXCEPT ![c] = FALSE]
  /\ UNCHANGED <<connects, submits, spc, usedConn>>

\* qmv_client_send_surface, first half: check the record and copy server_port
\* under the lock.
CheckConnection(c) ==
  /\ spc[c] = "idle"
  /\ connected[c]
  /\ submits[c] < MaxFrames
  /\ spc' = [spc EXCEPT ![c] = "checked"]
  /\ usedConn' = [usedConn EXCEPT ![c] = connects[c]]
  /\ UNCHANGED <<port, connected, connects, submits>>

\* Second half, outside the lock: a right to the surface is made and the send
\* enters the kernel, which looks the copied name up.  After a disconnect the
\* name is invalid, unless a later connection got the same name again.
BeginSend(c) ==
  /\ spc[c] = "checked"
  /\ connected[c]
  /\ portOpen
  /\ submits' = [submits EXCEPT ![c] = @ + 1]
  /\ spc' = [spc EXCEPT ![c] = "blocked"]
  /\ usedConn' = [usedConn EXCEPT ![c] = 0]
  /\ UNCHANGED <<port, connected, connects>>

\* The send fails, at once or because the port dies under it, and the right is
\* given up; the frame_index is spent.
FailSend(c) ==
  /\ \/ /\ spc[c] = "checked"
        /\ ~connected[c] \/ usedConn[c] # connects[c] \/ ~portOpen
        /\ submits' = [submits EXCEPT ![c] = @ + 1]
     \/ /\ spc[c] = "blocked"
        /\ ~portOpen
        /\ UNCHANGED submits
  /\ spc' = [spc EXCEPT ![c] = "idle"]
  /\ usedConn' = [usedConn EXCEPT ![c] = 0]
  /\ UNCHANGED <<port, connected, connects>>

\* The kernel queues the message when the port has room; a send that is under
\* way is not undone by a disconnect.
FinishSend(c) ==
  /\ spc[c] = "blocked"
  /\ Post(Frame(c, submits[c]))
  /\ spc' = [spc EXCEPT ![c] = "idle"]
  /\ UNCHANGED <<connected, connects, submits, usedConn>>

\* The process dies without a GOODBYE; a new one with the same token starts with
\* an empty connection record.
RestartClient(c) ==
  /\ connected[c] \/ spc[c] # "idle"
  /\ connected' = [connected EXCEPT ![c] = FALSE]
  /\ spc' = [spc EXCEPT ![c] = "idle"]
  /\ usedConn' = [usedConn EXCEPT ![c] = 0]
  /\ UNCHANGED <<port, connects, submits>>

ClientNext ==
  \E c \in Clients :
    \/ Connect(c)
    \/ Disconnect(c)
    \/ CheckConnection(c)
    \/ BeginSend(c)
    \/ FailSend(c)
    \/ FinishSend(c)
    \/ RestartClient(c)
==============================================================================
