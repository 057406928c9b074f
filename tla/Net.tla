---------------------------------- MODULE Net ----------------------------------
(***************************************************************************)
(* The network thread (core/src/net.c over core/src/tcp6.c), the turns of  *)
(* the protocol thread that meet it (core/src/proto.c), and the OpenThread *)
(* callback that may preempt both.                                         *)
(*                                                                         *)
(* The two threads have the same, lowest priority: one runs until it       *)
(* yields or blocks, then the other has a turn, so "cpu" says whose turn   *)
(* it is.  loop() of the application does not block (knot.h).  OpenThread  *)
(* runs above them, between any two steps.                                 *)
(*                                                                         *)
(* A message is known by the connection it came over, or by the session    *)
(* that made it.  What sm_run does with a message is Sm's business; here   *)
(* it takes one or not and answers or not, except that its first call      *)
(* after sm_start sends a request and looks at no message.                 *)
(***************************************************************************)
EXTENDS Naturals, Sequences

CONSTANTS
    SettingsOt,   \* CONFIG_SETTINGS_OT: the thing is on an OpenThread mesh
    MaxConn,      \* bound: the connection of this number is not lost
    MaxSockets,   \* CONFIG_NET_MAX_CONTEXTS
    Room          \* messages that fit in a pipe of 128 bytes

ASSUME SettingsAssumption == SettingsOt \in BOOLEAN
ASSUME BoundsAssumption ==
    MaxConn \in Nat /\ MaxSockets \in Nat \ {0} /\ Room \in Nat \ {0}

VARIABLES
    cpu,            \* the thread whose turn it is
    npc,            \* where the network thread is
    first,          \* ... in the call of connection_start before its loop
    connected,      \* flag of net.c
    conn_sem,       \* semaphore shared with proto.c
    role,           \* the OpenThread role is child, router or leader
    raced,          \* history: a role was lost between net.c:102 and :103,
                    \* and proto_thread has not seen the semaphore at 0 since
    socket,         \* state of the socket in tcp6.c's variable
    sockets,        \* sockets opened and not closed
    errno,          \* of the network thread
    conn,           \* connections made so far
    last_connected, \* static of check_connection: a session runs
    session,        \* connection at the time of sm_start
    took,           \* connection of the message sm_run took last, 0 if none
    n2p, p2n        \* the two pipes

netVars == <<npc, first, connected, conn_sem>>
otVars == <<role, raced>>
tcpVars == <<socket, sockets, errno, conn>>
protoVars == <<last_connected, session, took>>
pipes == <<n2p, p2n>>
vars == <<cpu, netVars, otVars, tcpVars, protoVars, pipes>>

Errnos == {"NONE", "EAGAIN", "EALREADY", "EBADF", "OTHER"}

(* Places where the network thread sleeps or waits in a call.              *)
Blocked == {"ot_wait", "connecting", "sleep"}

-----------------------------------------------------------------------------
(* connection_start                                                        *)

on_cpu(place) == cpu = "net" /\ npc = place

(* OpenThread is not ready: sleep and look again.                          *)
ot_not_ready ==
    /\ on_cpu("ot_wait")
    /\ ~ role
    /\ cpu' = "proto"
    /\ UNCHANGED <<netVars, otVars, tcpVars, protoVars, pipes>>

connection_fails ==
    /\ npc' = IF first THEN "top" ELSE "sleep"
    /\ cpu' = IF first THEN "net" ELSE "proto"
    /\ first' = FALSE
    /\ errno' = "OTHER"

(* No context is left for another socket.                                  *)
no_socket ==
    /\ on_cpu("ot_wait")
    /\ role
    /\ sockets = MaxSockets
    /\ socket' = "none"
    /\ connection_fails
    /\ UNCHANGED <<connected, conn_sem, otVars, sockets, conn, protoVars, pipes>>

(* zsock_connect blocks.                                                   *)
connect_begins ==
    /\ on_cpu("ot_wait")
    /\ role
    /\ sockets < MaxSockets
    /\ sockets' = sockets + 1
    /\ socket' = "new"
    /\ npc' = "connecting"
    /\ cpu' = "proto"
    /\ UNCHANGED <<first, connected, conn_sem, otVars, errno, conn, protoVars,
                   pipes>>

connect_fails ==
    /\ on_cpu("connecting")
    /\ socket' = "closed"
    /\ sockets' = sockets - 1
    /\ connection_fails
    /\ UNCHANGED <<connected, conn_sem, otVars, conn, protoVars, pipes>>

connect_succeeds ==
    /\ on_cpu("connecting")
    /\ socket' = "open"
    /\ conn' = conn + 1
    /\ npc' = "connected"
    /\ UNCHANGED <<cpu, first, connected, conn_sem, otVars, sockets, errno,
                   protoVars, pipes>>

set_connected ==
    /\ on_cpu("connected")
    /\ connected' = TRUE
    /\ npc' = "give"
    /\ UNCHANGED <<cpu, first, conn_sem, otVars, tcpVars, protoVars, pipes>>

(* Slip: the semaphore is given at the start alone.                        *)
slip_give_at_start ==
    /\ on_cpu("give")
    /\ conn_sem' = IF first THEN 1 ELSE conn_sem
    /\ npc' = "poll"
    /\ first' = FALSE
    /\ UNCHANGED <<cpu, connected, otVars, tcpVars, protoVars, pipes>>

give_sem ==
    /\ on_cpu("give")
    /\ conn_sem' = 1
    /\ npc' = IF first THEN "top" ELSE "poll"
    /\ first' = FALSE
    /\ UNCHANGED <<cpu, connected, otVars, tcpVars, protoVars, pipes>>

-----------------------------------------------------------------------------
(* The loop of net_thread                                                  *)

loop_top ==
    /\ on_cpu("top")
    /\ npc' = IF connected THEN "poll" ELSE "ot_wait"
    /\ UNCHANGED <<cpu, first, connected, conn_sem, otVars, tcpVars, protoVars,
                   pipes>>

retry_slept ==
    /\ on_cpu("sleep")
    /\ npc' = "top"
    /\ cpu' = "proto"
    /\ UNCHANGED <<first, connected, conn_sem, otVars, tcpVars, protoVars, pipes>>

no_event ==
    /\ on_cpu("poll")
    /\ socket = "open"
    /\ npc' = "send"
    /\ UNCHANGED <<cpu, first, connected, conn_sem, otVars, tcpVars, protoVars,
                   pipes>>

(* Slip: the room in the pipe is not looked at.                            *)
slip_put_always(pipe, msgs) == pipe \o msgs

(* k_pipe_put with K_NO_WAIT: all of it or nothing.                        *)
Put(pipe, msgs) == IF Len(pipe) + Len(msgs) <= Room THEN pipe \o msgs ELSE pipe

(* Slip: the turn ends when something was received.                        *)
slip_receive_ends_turn ==
    /\ on_cpu("poll")
    /\ socket = "open"
    /\ n2p' = Put(n2p, <<conn>>)
    /\ errno' = "EAGAIN"
    /\ npc' = "top" /\ cpu' = "proto"
    /\ UNCHANGED <<first, connected, conn_sem, otVars, socket, sockets, conn,
                   protoVars, p2n>>

(* receive: whatever has arrived, up to 128 bytes, goes to the pipe as one *)
(* piece, or is dropped when it does not fit.                              *)
message_received ==
    /\ on_cpu("poll")
    /\ socket = "open"
    /\ \E several \in BOOLEAN :
          n2p' = Put(n2p, IF several THEN <<conn, conn>> ELSE <<conn>>)
    /\ errno' = "EAGAIN"
    /\ npc' = "send"
    /\ UNCHANGED <<cpu, first, connected, conn_sem, otVars, socket, sockets, conn,
                   protoVars, p2n>>

(* Slip: close_cb clears the flag alone.                                   *)
slip_stop_keeps_sem ==
    /\ socket' = "closed"
    /\ sockets' = sockets - 1
    /\ conn_sem' = conn_sem
    /\ connected' = FALSE

(* Between the two lines of close_cb only OpenThread can run, which would  *)
(* do the same.                                                            *)
tcp6_stop ==
    /\ socket' = "closed"
    /\ sockets' = sockets - 1
    /\ conn_sem' = 0
    /\ connected' = FALSE

(* The peer closed.  zsock_recv returns 0 and errno is what it was.        *)
end_of_stream ==
    /\ on_cpu("poll")
    /\ socket = "eof"
    /\ IF errno = "EALREADY" THEN tcp6_stop
       ELSE UNCHANGED <<socket, sockets, connected, conn_sem>>
    /\ npc' = "send"
    /\ UNCHANGED <<cpu, first, otVars, errno, conn, protoVars, pipes>>

(* Slip: a socket that is no more is not closed.                           *)
slip_error_ignored ==
    /\ on_cpu("poll")
    /\ socket = "dead"
    /\ errno' \in {"EBADF", "OTHER"}
    /\ npc' = "send"
    /\ UNCHANGED <<cpu, first, connected, conn_sem, otVars, socket, sockets,
                   conn, protoVars, pipes>>

read_error ==
    /\ on_cpu("poll")
    /\ socket = "dead"
    /\ errno' \in {"EBADF", "OTHER"}
    /\ IF errno' = "EBADF" THEN tcp6_stop
       ELSE UNCHANGED <<socket, sockets, connected, conn_sem>>
    /\ npc' = "send"
    /\ UNCHANGED <<cpu, first, otVars, conn, protoVars, pipes>>

(* The pipe is emptied into the socket, or into nothing, and the thread    *)
(* yields.                                                                 *)
tcp6_send ==
    /\ on_cpu("send")
    /\ p2n' = <<>>
    /\ IF p2n = <<>> \/ socket = "open" THEN errno' = errno
       ELSE errno' \in {"EALREADY", "EBADF", "OTHER"}
    /\ npc' = "top"
    /\ cpu' = "proto"
    /\ UNCHANGED <<first, connected, conn_sem, otVars, socket, sockets, conn,
                   protoVars, n2p>>

NetThread ==
    \/ ot_not_ready \/ no_socket \/ connect_begins \/ connect_fails
    \/ connect_succeeds \/ set_connected \/ give_sem
    \/ loop_top \/ retry_slept
    \/ no_event \/ message_received \/ end_of_stream \/ read_error
    \/ tcp6_send

-----------------------------------------------------------------------------
(* A turn of proto_thread                                                  *)

(* After the turn the network thread goes on if it does not sleep or has   *)
(* been woken.                                                             *)
yield ==
    /\ cpu = "proto"
    /\ IF npc \in Blocked THEN cpu' \in {"net", "proto"} ELSE cpu' = "net"
    /\ UNCHANGED <<netVars, role, tcpVars>>

(* Slip: the first turn does not read the pipe.                            *)
slip_start_leaves_pipe ==
    /\ yield
    /\ conn_sem = 1 /\ ~ last_connected
    /\ last_connected' = TRUE
    /\ session' = conn
    /\ took' = 0
    /\ n2p' = n2p
    /\ p2n' = Put(p2n, <<conn>>)
    /\ UNCHANGED raced

(* sm_start and its first sm_run, which drops what the pipe holds.         *)
sm_starts ==
    /\ yield
    /\ conn_sem = 1 /\ ~ last_connected
    /\ last_connected' = TRUE
    /\ session' = conn
    /\ took' = 0
    /\ n2p' = <<>>
    /\ p2n' = Put(p2n, <<conn>>)
    /\ UNCHANGED raced

(* The whole pipe is read, and the first message in it is the one that     *)
(* sm_run sees.                                                            *)
sm_runs ==
    /\ yield
    /\ conn_sem = 1 /\ last_connected
    /\ n2p' = <<>>
    /\ took' \in {took} \cup {n2p[i] : i \in DOMAIN n2p \cap {1}}
    /\ p2n' \in {p2n, Put(p2n, <<session>>)}
    /\ UNCHANGED <<last_connected, session, raced>>

(* Slip: check_connection leaves before it remembers the disconnection.    *)
slip_stop_forgotten ==
    /\ yield
    /\ conn_sem = 0
    /\ raced' = FALSE
    /\ UNCHANGED <<protoVars, pipes>>

(* sm_stop, or nothing when there is no session.                           *)
sm_stopped ==
    /\ yield
    /\ conn_sem = 0
    /\ last_connected' = FALSE
    /\ raced' = FALSE
    /\ UNCHANGED <<session, took, pipes>>

ProtoThread == sm_starts \/ sm_runs \/ sm_stopped

-----------------------------------------------------------------------------
(* OpenThread and the peer                                                 *)

(* Losses come before the last connection, so that it can be awaited.      *)
may_lose == conn < MaxConn

role_gained ==
    /\ ~ role
    /\ role' = TRUE
    /\ UNCHANGED <<cpu, netVars, raced, tcpVars, protoVars, pipes>>

(* change_cb, update_role, ot_disconn, close_cb: the socket stays open.    *)
role_lost ==
    /\ SettingsOt /\ role /\ may_lose
    /\ role' = FALSE
    /\ conn_sem' = 0
    /\ connected' = FALSE
    /\ raced' = (raced \/ npc = "give")
    /\ UNCHANGED <<cpu, npc, first, tcpVars, protoVars, pipes>>

peer_closes ==
    /\ socket = "open" /\ may_lose
    /\ socket' \in {"eof", "dead"}
    /\ UNCHANGED <<cpu, netVars, otVars, sockets, errno, conn, protoVars, pipes>>

-----------------------------------------------------------------------------
(* Specification                                                           *)

Init ==
    /\ cpu = "proto" /\ npc = "ot_wait" /\ first = TRUE
    /\ connected = FALSE /\ conn_sem = 0
    /\ role = ~ SettingsOt         \* without OpenThread nothing is awaited
    /\ raced = FALSE
    /\ socket = "none" /\ sockets = 0 /\ errno = "NONE" /\ conn = 0
    /\ last_connected = FALSE /\ session = 0 /\ took = 0
    /\ n2p = <<>> /\ p2n = <<>>

Next == NetThread \/ ProtoThread \/ role_gained \/ role_lost \/ peer_closes

Spec == Init /\ [][Next]_vars

(* The threads are scheduled; a sleep or a blocking call ends; the network *)
(* that is tried again and again can be reached at last, and a dead socket *)
(* says so at last.                                                        *)
Fairness ==
    /\ WF_vars(NetThread) /\ WF_vars(ProtoThread)
    /\ SF_vars(ProtoThread /\ cpu' = "net")
    /\ SF_vars(connect_succeeds)
    /\ SF_vars(read_error /\ socket' = "closed")

FairSpec == Spec /\ Fairness

-----------------------------------------------------------------------------
(* Properties                                                              *)

TypeOK ==
    /\ cpu \in {"net", "proto"}
    /\ npc \in Blocked \cup {"connected", "give", "top", "poll", "send"}
    /\ first \in BOOLEAN /\ connected \in BOOLEAN /\ conn_sem \in {0, 1}
    /\ role \in BOOLEAN /\ raced \in BOOLEAN
    /\ socket \in {"none", "new", "open", "eof", "dead", "closed"}
    /\ sockets \in 0 .. MaxSockets
    /\ errno \in Errnos
    /\ conn \in Nat /\ session \in 0 .. conn /\ took \in 0 .. conn
    /\ last_connected \in BOOLEAN
    /\ n2p \in Seq(0 .. conn) /\ Len(n2p) <= Room
    /\ p2n \in Seq(0 .. conn) /\ Len(p2n) <= Room

(* "Semaphore available means connected" (proto.c:49).  The run of this    *)
(* property refutes it: OpenThread calls close_cb between the flag and the *)
(* semaphore (net.c:102-103).                                              *)
SemaphoreTells == conn_sem = 1 => connected

(* That is the only way: the protocol thread runs its session only while   *)
(* the network thread holds a connection, unless a role was lost just      *)
(* there and the semaphore has been available ever since.                  *)
SemMeansConnected == ~ raced => SemaphoreTells

(* The protocol thread, which looks at the semaphore once in a turn, never *)
(* takes a new connection for the one its session began on: a loss and the *)
(* connection after it do not both fall between two of its turns           *)
(* (proto.c:50-62), wherever OpenThread interrupts, that one place apart.  *)
SessionOfConnection ==
    cpu = "proto" /\ last_connected /\ conn_sem = 1 /\ ~ raced => session = conn

(* No session takes a message that came over a connection before its own,  *)
(* although the pipe is never flushed (proto.c:114).                       *)
NoStaleMessage == last_connected /\ took # 0 => took >= session

(* The pipe to the network thread is empty when the protocol thread writes *)
(* to it, so that the unchecked k_pipe_put (proto.c:121) always fits.      *)
OwnMessageFits == cpu = "proto" /\ conn_sem = 1 /\ ~ raced => p2n = <<>>

(* A connection that lasts gets a session of its own, whatever losses of   *)
(* the role or the peer came before (proto.c:57-62).                       *)
SessionFollows ==
    <>[](connected /\ ~ raced) => <>[](last_connected /\ session = conn)

(* Every context is taken by a socket that a lost role left open.          *)
Exhausted == socket = "none" /\ sockets = MaxSockets

(* "Wait before retrying connecting" (net.c:138): on a mesh that stays,    *)
(* the thing is connected over an open socket again and again.  Two ways   *)
(* out are the code's own: an end of the stream that is never noticed      *)
(* (tcp6.c:63), and contexts used up by the sockets that close_cb does not *)
(* close (net.c:42).                                                       *)
RetryConnects ==
    <>[]role =>
        \/ []<>(connected /\ socket = "open")
        \/ <>[](socket = "eof")
        \/ <>[]Exhausted

(* "Disconnected" (tcp6.c:62): the end of the stream is noticed and the    *)
(* connection closed.                                                      *)
EndNoticed == socket = "eof" ~> socket # "eof"

=============================================================================
