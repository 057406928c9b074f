------------------------------ MODULE NetProofs ------------------------------
(***************************************************************************)
(* IInv is an inductive invariant of Net, for any number of contexts and   *)
(* connections and any pipe, with OpenThread and without.  From it follow  *)
(* the invariants that the runs check.  What proto.c takes for granted of  *)
(* the semaphore holds, with OpenThread interrupting anywhere, but for the *)
(* one place that "raced" remembers: the run net_ot_race has the           *)
(* counterexample there.                                                   *)
(***************************************************************************)
EXTENDS Net, SequenceTheorems, TLAPS

(* A socket of the variable that is not closed is counted, and it is       *)
(* being connected just as long as the thread is in zsock_connect.         *)
SocketInv ==
    /\ socket \in {"new", "open", "eof", "dead"} => sockets # 0
    /\ npc = "connecting" <=> socket = "new"

(* What the pipe holds while a session runs came over the connection on    *)
(* which the session began, or over a later one.                           *)
PipeInv ==
    last_connected =>
        /\ n2p \in Seq(session .. conn)
        /\ NoStaleMessage

(* The network thread leaves its loop over the socket only when it is not  *)
(* connected, has its turn between two places where it does not sleep, and *)
(* gives the semaphore once the flag is set.                               *)
PlaceInv ==
    /\ npc \in {"ot_wait", "connecting", "connected", "sleep"} => ~ connected
    /\ npc \in {"connected", "give", "poll", "send"} => cpu = "net"
    /\ npc = "give" /\ ~ raced => connected /\ conn_sem = 0

(* A session survives the semaphore that was taken from it only to the     *)
(* next turn of proto_thread, and no connection is made before that.       *)
StopInv ==
    ~ raced /\ conn_sem = 0 /\ last_connected =>
        /\ npc \notin {"connected", "give"}
        /\ npc = "connecting" => cpu = "proto"

(* While the semaphore is available the session that runs is that of the   *)
(* connection, at every moment and not only in a turn of proto_thread.     *)
SessionInv == ~ raced /\ last_connected /\ conn_sem = 1 => session = conn

(* What the two threads know of each other's turns.                        *)
TurnInv ==
    /\ PlaceInv
    /\ SemMeansConnected
    /\ StopInv
    /\ SessionInv
    /\ OwnMessageFits

IInv ==
    /\ TypeOK
    /\ SocketInv
    /\ PipeInv
    /\ TurnInv

-----------------------------------------------------------------------------
(* Lemmas                                                                  *)

(* k_pipe_put with K_NO_WAIT never overfills a pipe and adds nothing but   *)
(* the messages it is given.                                               *)
LEMMA PutFits ==
    ASSUME NEW S, NEW pipe \in Seq(S), Len(pipe) <= Room, NEW msgs \in Seq(S)
    PROVE  Put(pipe, msgs) \in Seq(S) /\ Len(Put(pipe, msgs)) <= Room
  BY BoundsAssumption, ConcatProperties DEF Put

(* What is read from the pipe as the first message is one of those in it.  *)
LEMMA FirstOfPipe ==
    ASSUME NEW S, NEW pipe \in Seq(S)
    PROVE  {pipe[i] : i \in DOMAIN pipe \cap {1}} \subseteq S
  BY ElementOfSeq, LenProperties

-----------------------------------------------------------------------------
(* Each step keeps the invariant                                           *)

(* The threads start with no socket, no session and empty pipes.           *)
THEOREM InitInv == Init => IInv
  <1> SUFFICES ASSUME Init
               PROVE  IInv
    OBVIOUS
  <1>1. 0 \in 0 .. MaxSockets /\ 0 \in 0 .. 0 /\ Len(<< >>) <= Room
        /\ << >> \in Seq(0 .. 0)
    BY BoundsAssumption
  <1>2. TypeOK
    BY <1>1, SettingsAssumption DEF Init, TypeOK, Blocked, Errnos
  <1>3. SocketInv /\ PipeInv
    BY DEF Init, SocketInv, PipeInv
  <1>4. TurnInv
    BY DEF Init, TurnInv, PlaceInv, SemMeansConnected, SemaphoreTells,
       StopInv, SessionInv,
       OwnMessageFits
  <1> QED
    BY <1>2, <1>3, <1>4 DEF IInv

(* connection_start, its failures and its retries: a connection is counted *)
(* before the flag and the semaphore say so, and only once the session of  *)
(* the one before it is over (net.c:79-106, tcp6.c:84-148).                *)
LEMMA ConnectKeepsInv ==
    ASSUME IInv,
           \/ ot_not_ready \/ no_socket \/ connect_begins \/ connect_fails
           \/ connect_succeeds \/ set_connected \/ give_sem
    PROVE  IInv'
  <1> USE BoundsAssumption
      DEF IInv, on_cpu, netVars, otVars, tcpVars, protoVars, pipes,
          connection_fails,
          NoStaleMessage, SemMeansConnected, SemaphoreTells, SessionInv,
          OwnMessageFits
  <1>1. CASE ot_not_ready
    BY <1>1 DEF ot_not_ready, TypeOK, SocketInv, PipeInv, TurnInv, PlaceInv,
       StopInv
  <1>2. CASE no_socket
    BY <1>2 DEF no_socket, TypeOK, SocketInv, PipeInv, TurnInv, PlaceInv,
       StopInv, Blocked, Errnos
  <1>3. CASE connect_begins
    BY <1>3 DEF connect_begins, TypeOK, SocketInv, PipeInv, TurnInv, PlaceInv,
       StopInv, Blocked, Errnos
  <1>4. CASE connect_fails
    <2> USE <1>4 DEF connect_fails
    <2>1. sockets # 0 /\ sockets' \in 0 .. MaxSockets
      BY DEF SocketInv, TypeOK
    <2>2. TypeOK'
      BY <2>1 DEF TypeOK, Blocked, Errnos
    <2>3. SocketInv' /\ PipeInv'
      BY DEF SocketInv, PipeInv
    <2>4. TurnInv'
      BY DEF TurnInv, PlaceInv, StopInv, TypeOK
    <2> QED
      BY <2>2, <2>3, <2>4
  <1>5. CASE connect_succeeds
    <2> USE <1>5 DEF connect_succeeds
    <2>1. conn \in Nat /\ conn' = conn + 1 /\ session \in 0 .. conn
      BY DEF TypeOK
    <2>2. /\ 0 .. conn \subseteq 0 .. conn'
          /\ session .. conn \subseteq session .. conn'
      BY <2>1
    <2>3. n2p \in Seq(0 .. conn') /\ p2n \in Seq(0 .. conn')
      BY <2>2, SeqMonotonic DEF TypeOK
    <2>4. TypeOK'
      BY <2>1, <2>2, <2>3 DEF TypeOK
    <2>5. SocketInv'
      BY DEF SocketInv, TypeOK
    <2>6. PipeInv'
      BY <2>2, SeqMonotonic DEF PipeInv
    <2>7. TurnInv'
      BY DEF TurnInv, PlaceInv, StopInv, TypeOK
    <2> QED
      BY <2>4, <2>5, <2>6, <2>7
  <1>6. CASE set_connected
    BY <1>6 DEF set_connected, TypeOK, SocketInv, PipeInv, TurnInv, PlaceInv,
       StopInv
  <1>7. CASE give_sem
    BY <1>7 DEF give_sem, TypeOK, SocketInv, PipeInv, TurnInv, PlaceInv,
       StopInv
  <1> QED
    BY <1>1, <1>2, <1>3, <1>4, <1>5, <1>6, <1>7

(* The loop of net_thread: what is received fits in the pipe, the pipe of  *)
(* the protocol thread is emptied before its turn, and a socket that is    *)
(* closed was open (net.c:109-178, tcp6.c:34-82).                          *)
LEMMA NetLoopKeepsInv ==
    ASSUME IInv,
           \/ loop_top \/ retry_slept \/ no_event \/ message_received
           \/ end_of_stream \/ read_error \/ tcp6_send
    PROVE  IInv'
  <1> USE BoundsAssumption
      DEF IInv, on_cpu, netVars, otVars, tcpVars, protoVars, pipes,
          NoStaleMessage, SemMeansConnected, SemaphoreTells, SessionInv,
          OwnMessageFits
  <1>1. CASE loop_top
    BY <1>1 DEF loop_top, TypeOK, SocketInv, PipeInv, TurnInv, PlaceInv,
       StopInv, Blocked
  <1>2. CASE retry_slept
    BY <1>2 DEF retry_slept, TypeOK, SocketInv, PipeInv, TurnInv, PlaceInv,
       StopInv
  <1>3. CASE no_event
    BY <1>3 DEF no_event, TypeOK, SocketInv, PipeInv, TurnInv, PlaceInv,
       StopInv
  <1>4. CASE message_received
    <2> USE <1>4 DEF message_received
    <2>1. PICK several \in BOOLEAN :
             n2p' = Put(n2p, IF several THEN <<conn, conn>> ELSE <<conn>>)
      OBVIOUS
    <2> DEFINE msgs == IF several THEN <<conn, conn>> ELSE <<conn>>
    <2>2. conn \in Nat /\ session \in 0 .. conn /\ Len(n2p) <= Room
          /\ n2p \in Seq(0 .. conn)
      BY DEF TypeOK
    <2>3. msgs \in Seq(0 .. conn) /\ msgs \in Seq(session .. conn)
      <3>1. conn \in 0 .. conn /\ conn \in session .. conn
        BY <2>2
      <3>2. CASE several
        BY <3>1, <3>2
      <3>3. CASE ~ several
        BY <3>1, <3>3
      <3> QED
        BY <3>2, <3>3
    <2>4. n2p' \in Seq(0 .. conn) /\ Len(n2p') <= Room
      BY <2>1, <2>2, <2>3, PutFits
    <2>5. TypeOK'
      BY <2>4 DEF TypeOK, Errnos
    <2>6. PipeInv'
      <3>1. ASSUME last_connected
            PROVE  n2p' \in Seq(session .. conn)
        BY <2>1, <2>2, <2>3, <3>1, PutFits DEF PipeInv
      <3> QED
        BY <3>1 DEF PipeInv
    <2>7. SocketInv' /\ TurnInv'
      BY DEF SocketInv, TurnInv, PlaceInv, StopInv
    <2> QED
      BY <2>5, <2>6, <2>7
  <1>5. CASE end_of_stream
    <2> USE <1>5 DEF end_of_stream
    <2>1. CASE errno = "EALREADY"
      <3> USE <2>1 DEF tcp6_stop
      <3>1. sockets # 0 /\ sockets' \in 0 .. MaxSockets
        BY DEF SocketInv, TypeOK
      <3>2. TypeOK'
        BY <3>1 DEF TypeOK
      <3>3. SocketInv' /\ PipeInv'
        BY DEF SocketInv, PipeInv
      <3>4. TurnInv'
        BY DEF TurnInv, PlaceInv, StopInv
      <3> QED
        BY <3>2, <3>3, <3>4
    <2>2. CASE errno # "EALREADY"
      BY <2>2 DEF TypeOK, SocketInv, PipeInv, TurnInv, PlaceInv, StopInv
    <2> QED
      BY <2>1, <2>2
  <1>6. CASE read_error
    <2> USE <1>6 DEF read_error
    <2>1. CASE errno' = "EBADF"
      <3> USE <2>1 DEF tcp6_stop
      <3>1. sockets # 0 /\ sockets' \in 0 .. MaxSockets
        BY DEF SocketInv, TypeOK
      <3>2. TypeOK'
        BY <3>1 DEF TypeOK, Errnos
      <3>3. SocketInv' /\ PipeInv'
        BY DEF SocketInv, PipeInv
      <3>4. TurnInv'
        BY DEF TurnInv, PlaceInv, StopInv
      <3> QED
        BY <3>2, <3>3, <3>4
    <2>2. CASE errno' # "EBADF"
      BY <2>2 DEF TypeOK, SocketInv, PipeInv, TurnInv, PlaceInv, StopInv, Errnos
    <2> QED
      BY <2>1, <2>2
  <1>7. CASE tcp6_send
    BY <1>7 DEF tcp6_send, TypeOK, SocketInv, PipeInv, TurnInv, PlaceInv,
       StopInv, Errnos
  <1> QED
    BY <1>1, <1>2, <1>3, <1>4, <1>5, <1>6, <1>7

(* A turn of proto_thread: a session begins with the connection of its     *)
(* time and an empty pipe, takes what came since, and ends when the        *)
(* semaphore is gone (proto.c:44-126).                                     *)
LEMMA ProtoKeepsInv ==
    ASSUME IInv, ProtoThread
    PROVE  IInv'
  <1> USE BoundsAssumption
      DEF IInv, yield, netVars, otVars, tcpVars, protoVars, pipes,
          SemMeansConnected, SemaphoreTells, SessionInv, OwnMessageFits
  <1>1. conn \in Nat /\ session \in 0 .. conn /\ took \in 0 .. conn
        /\ Len(p2n) <= Room /\ p2n \in Seq(0 .. conn) /\ n2p \in Seq(0 .. conn)
    BY DEF TypeOK
  <1>2. << >> \in Seq(0 .. conn) /\ Len(<< >>) <= Room
        /\ << >> \in Seq(session .. conn) /\ << >> \in Seq(conn .. conn)
    OBVIOUS
  <1>3. CASE sm_starts
    <2> USE <1>3 DEF sm_starts
    <2>1. p2n' \in Seq(0 .. conn) /\ Len(p2n') <= Room
      <3>1. <<conn>> \in Seq(0 .. conn)
        BY <1>1
      <3> QED
        BY <1>1, <3>1, PutFits
    <2>2. TypeOK'
      BY <1>1, <1>2, <2>1 DEF TypeOK
    <2>3. SocketInv' /\ PipeInv'
      BY <1>2 DEF SocketInv, PipeInv, NoStaleMessage
    <2>4. TurnInv'
      BY DEF TurnInv, PlaceInv, StopInv, Blocked
    <2> QED
      BY <2>2, <2>3, <2>4
  <1>4. CASE sm_runs
    <2> USE <1>4 DEF sm_runs
    <2>1. p2n' \in Seq(0 .. conn) /\ Len(p2n') <= Room
      <3>1. <<session>> \in Seq(0 .. conn)
        BY <1>1
      <3>2. Put(p2n, <<session>>) \in Seq(0 .. conn)
            /\ Len(Put(p2n, <<session>>)) <= Room
        BY <1>1, <3>1, PutFits
      <3> QED
        BY <1>1, <3>2
    <2>2. took' \in 0 .. conn
      BY <1>1, FirstOfPipe
    <2>3. TypeOK'
      BY <1>1, <1>2, <2>1, <2>2 DEF TypeOK
    <2>4. took' = took \/ took' \in session .. conn
      BY FirstOfPipe DEF PipeInv
    <2>5. SocketInv' /\ PipeInv'
      BY <1>1, <1>2, <2>4 DEF SocketInv, PipeInv, NoStaleMessage
    <2>6. TurnInv'
      BY DEF TurnInv, PlaceInv, StopInv, Blocked
    <2> QED
      BY <2>3, <2>5, <2>6
  <1>5. CASE sm_stopped
    <2> USE <1>5 DEF sm_stopped
    <2>1. TypeOK' /\ SocketInv' /\ PipeInv'
      BY DEF TypeOK, SocketInv, PipeInv, NoStaleMessage
    <2>2. TurnInv'
      BY DEF TurnInv, PlaceInv, SemaphoreTells, StopInv, Blocked
    <2> QED
      BY <2>1, <2>2
  <1> QED
    BY <1>3, <1>4, <1>5 DEF ProtoThread

(* The mesh and the peer, at any moment: a role that is lost takes the     *)
(* semaphore and the flag, a peer that goes leaves a socket to be closed.  *)
LEMMA EnvironmentKeepsInv ==
    ASSUME IInv, role_gained \/ role_lost \/ peer_closes
    PROVE  IInv'
  <1> USE DEF IInv, netVars, otVars, tcpVars, protoVars, pipes, NoStaleMessage,
          SemMeansConnected, SemaphoreTells, SessionInv, OwnMessageFits
  <1>1. CASE role_gained
    BY <1>1 DEF role_gained, TypeOK, SocketInv, PipeInv, TurnInv, PlaceInv,
       StopInv
  <1>2. CASE role_lost
    <2> USE <1>2 DEF role_lost
    <2>1. TypeOK' /\ SocketInv' /\ PipeInv'
      BY DEF TypeOK, SocketInv, PipeInv
    <2>2. TurnInv'
      BY DEF TurnInv, PlaceInv, StopInv, TypeOK, Blocked
    <2> QED
      BY <2>1, <2>2
  <1>3. CASE peer_closes
    BY <1>3 DEF peer_closes, TypeOK, SocketInv, PipeInv, TurnInv, PlaceInv,
       StopInv
  <1> QED
    BY <1>1, <1>2, <1>3

(* Every step of the threads and around them keeps IInv.                   *)
THEOREM NextInv == IInv /\ [Next]_vars => IInv'
  <1> SUFFICES ASSUME IInv, [Next]_vars
               PROVE  IInv'
    OBVIOUS
  <1>1. CASE NetThread
    BY <1>1, ConnectKeepsInv, NetLoopKeepsInv DEF NetThread
  <1>2. CASE ProtoThread
    BY <1>2, ProtoKeepsInv
  <1>3. CASE role_gained \/ role_lost \/ peer_closes
    BY <1>3, EnvironmentKeepsInv
  <1>4. CASE UNCHANGED vars
    BY <1>4 DEF vars, netVars, otVars, tcpVars, protoVars, pipes, IInv, TypeOK,
       SocketInv, PipeInv, NoStaleMessage, TurnInv, PlaceInv,
       SemMeansConnected, SemaphoreTells, StopInv, SessionInv, OwnMessageFits
  <1> QED
    BY <1>1, <1>2, <1>3, <1>4 DEF Next

-----------------------------------------------------------------------------
(* What follows from it                                                    *)

(* IInv holds in every behaviour of the threads, OpenThread and the peer.  *)
THEOREM Invariance == Spec => []IInv
  BY InitInv, NextInv, PTL DEF Spec

(* Every field has its type: no context of the stack is given back twice,  *)
(* and no pipe holds more than it has room for.                            *)
THEOREM TypeCorrect == Spec => []TypeOK
  <1>1. IInv => TypeOK
    BY DEF IInv
  <1> QED
    BY <1>1, Invariance, PTL

(* No session takes a message of a connection before its own, although the *)
(* pipe is never flushed and OpenThread may interrupt at any moment.       *)
THEOREM NothingStaleTaken == Spec => []NoStaleMessage
  <1>1. IInv => NoStaleMessage
    BY DEF IInv, PipeInv, NoStaleMessage
  <1> QED
    BY <1>1, Invariance, PTL

(* "Semaphore available means connected" (proto.c:49), for every build:    *)
(* what interrupts it is a role lost between net.c:102 and 103, and no     *)
(* other interleaving of the two threads and OpenThread.                   *)
THEOREM SemaphoreTellsUnlessRaced == Spec => []SemMeansConnected
  <1>1. IInv => SemMeansConnected
    BY DEF IInv, TurnInv
  <1> QED
    BY <1>1, Invariance, PTL

(* A loss and the connection after it never both fall between two looks of *)
(* proto_thread at the semaphore, whoever lost it: the peer or the mesh.   *)
THEOREM NoConnectionMissed == Spec => []SessionOfConnection
  <1>1. IInv => SessionOfConnection
    BY DEF IInv, TurnInv, SessionInv, SessionOfConnection
  <1> QED
    BY <1>1, Invariance, PTL

(* The unchecked k_pipe_put of proto_thread always finds an empty pipe     *)
(* while the semaphore says what it should.                                *)
THEOREM MessageFits == Spec => []OwnMessageFits
  <1>1. IInv => OwnMessageFits
    BY DEF IInv, TurnInv
  <1> QED
    BY <1>1, Invariance, PTL

=============================================================================
