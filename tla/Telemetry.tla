------------------------------ MODULE Telemetry ------------------------------
(***************************************************************************)
(* What the cloud knows of a thing's values: the online state of Sm, the   *)
(* data proxy and the TCP connection together.                             *)
(*                                                                         *)
(* A PUSH_DATA_RSP does not name the push it answers (sm.c:296), so what   *)
(* it confirms is whatever the thing waits for when it comes.  The         *)
(* connection keeps order and loses nothing until it drops; a turn of the  *)
(* protocol thread may read several messages together and handles only the *)
(* first.  The cloud answers every PUSH_DATA_REQ, those that answer one of *)
(* its polls too.                                                          *)
(*                                                                         *)
(* Of Proxy this module takes when a value is due, for items that report   *)
(* their changes.  No callback of the application fails here.              *)
(***************************************************************************)
EXTENDS Sm, Sequences

CONSTANTS
    Values,     \* values of the items
    InFlight,   \* bound: messages under way in both directions
    Demands     \* bound: polls and writes that the cloud sends

ASSUME BoundsAssumption == InFlight \in Nat /\ Demands \in Nat /\ 0 \in Values

(* The thing is registered: there is a registration, and an id it drew.    *)
ASSUME RegisteredAssumption == Regs # {} /\ DevIds # {}

VARIABLES
    value,      \* value of each slot: the last one sent or written
    send,       \* it must be sent
    target,     \* the application's variable
    known,      \* what the cloud has for the item
    up,         \* messages on their way to the cloud ...
    down,       \* ... and from it
    commands,   \* polls and writes the cloud still sends
    \* history:
    told,       \* items polled or written since they were last pushed
    misled,     \* ... and confirmed by an answer to something else
    disturbed   \* a wait timed out or a poll was answered on this connection

items == <<value, send, target>>
stream == <<up, down>>
history == <<told, misled, disturbed>>
linkVars == <<vars, items, known, stream, commands, history>>

none == [i \in Items |-> FALSE]

P == INSTANCE Proxy WITH
        Ids <- Items, Setup <- [i \in Items |->
            [vtype |-> "INT", flags |-> {"CHANGE"}, lower |-> 0, upper |-> 0,
             time_sec |-> 0, guarded |-> FALSE]],
        Wrap <- 1, Horizon <- 0, NoId <- DataMax,
        registered <- Items, last_id <- LastId,
        flags <- [i \in Items |-> {"CHANGE"}],
        upper_flag <- none, lower_flag <- none,
        last_timeout <- [i \in Items |-> 0], stamp <- [i \in Items |-> 0],
        setup_done <- TRUE, now <- 0, awaiting <- DataMax,
        inflight <- DataMax, unsure <- [i \in Items |-> {}],
        seen <- value, returned <- none

-----------------------------------------------------------------------------
(* Messages under way.  "own" is history: the push that is still the       *)
(* latest, and the answer to it.                                           *)

Up(type, id, v, own) == [type |-> type, id |-> id, val |-> v, own |-> own]
Down(m, v, own) == [msg |-> m, val |-> v, own |-> own]

older(s) == [i \in DOMAIN s |-> [s[i] EXCEPT !.own = FALSE]]

room == Len(up) + Len(down) < InFlight

Answer(type, result) ==
    [type |-> type, result |-> result, cred |-> CHOOSE r \in Regs : TRUE, id |-> 0]
Command(type, id) == [type |-> type, result |-> "OK", cred |-> None, id |-> id]

-----------------------------------------------------------------------------
(* A turn of the protocol thread                                           *)

(* Slip: a refusal confirms as well.                                       *)
slip_confirms_failure(m) ==
    /\ state = "ONLINE" /\ m \notin Commands /\ ~ ignored(m)
    /\ xpt_opcode # NoResp /\ ~ expired(m)

(* proxy_confirm_sent is called: the wait ends, and not by the clock.      *)
confirms(m) ==
    /\ state = "ONLINE" /\ m \notin Commands /\ ~ ignored(m)
    /\ xpt_opcode # NoResp /\ ~ expired(m)
    /\ m.result = "OK"

marks(m) == IF confirms(m) THEN [send EXCEPT ![evt_index] = FALSE] ELSE send

ready(m) == {i \in Items : P!due(i, target[i], marks(m)[i])}

(* The next push: its value is kept and marked, and it is what the thing   *)
(* waits for now.                                                          *)
turn_pushes(m, rest) ==
    /\ m \notin Commands /\ opdu'.type = "PUSH_DATA_REQ"
    /\ LET id == opdu'.id IN
        /\ value' = [value EXCEPT ![id] = target[id]]
        /\ send' = [marks(m) EXCEPT ![id] = TRUE]
        /\ up' = Append(older(up), Up("PUSH_DATA_REQ", id, target[id], TRUE))
        /\ down' = older(rest)
        /\ UNCHANGED <<target, disturbed>>

(* A poll is answered with the value, which is no longer marked.           *)
turn_answers_poll(m, rest) ==
    /\ m.type = "POLL_DATA_REQ" /\ opdu'.type = "PUSH_DATA_REQ"
    /\ m.id \in Items
    /\ value' = [value EXCEPT ![m.id] = target[m.id]]
    /\ send' = [send EXCEPT ![m.id] = FALSE]
    /\ up' = Append(up, Up("PUSH_DATA_REQ", m.id, target[m.id], FALSE))
    /\ down' = rest
    /\ disturbed' = TRUE
    /\ UNCHANGED target

(* A write reaches slot and variable and is answered with its value.       *)
turn_takes_write(m, v, rest) ==
    /\ m.type = "PUSH_DATA_REQ" /\ opdu'.type = "PUSH_DATA_RSP"
    /\ value' = [value EXCEPT ![m.id] = v]
    /\ target' = [target EXCEPT ![m.id] = v]
    /\ up' = Append(up, Up("PUSH_DATA_RSP", m.id, v, FALSE))
    /\ down' = rest
    /\ UNCHANGED <<send, disturbed>>

(* Nothing is sent, or the request to authenticate.                        *)
turn_else(m, rest) ==
    /\ opdu'.type \in {"NONE", "AUTH_REQ"}
    /\ send' = marks(m)
    /\ up' = IF opdu' = Nothing THEN up
             ELSE Append(up, Up("AUTH_REQ", 0, 0, FALSE))
    /\ down' = rest
    /\ UNCHANGED <<value, target, disturbed>>

(* What a turn changes in the history: the next push starts anew.          *)
recorded(m, own) ==
    LET reported == IF m \in Commands /\ state = "ONLINE" THEN {m.id} ELSE {}
        pushed == IF m \notin Commands /\ opdu'.type = "PUSH_DATA_REQ"
                  THEN {opdu'.id} ELSE {}
    IN  /\ told' = (told \cup reported) \ pushed
        /\ misled' = (IF confirms(m) /\ ~ own THEN misled \cup {evt_index}
                      ELSE misled) \ pushed

(* The first k messages are read together, and all but one are dropped.    *)
turn(k) ==
    LET first == IF k = 0 THEN Down(NoMsg, 0, FALSE) ELSE Head(down)
        rest == SubSeq(down, k + 1, Len(down))
        m == first.msg
    IN  /\ sm_run(m, ready(m))
        /\ \/ turn_pushes(m, rest) \/ turn_answers_poll(m, rest)
           \/ turn_takes_write(m, first.val, rest) \/ turn_else(m, rest)
        /\ Len(up') + Len(down') <= InFlight
        /\ recorded(m, first.own)
        /\ UNCHANGED <<known, commands>>

expires ==
    /\ timer_expired
    /\ disturbed' = TRUE
    /\ UNCHANGED <<items, known, stream, commands, told, misled>>

-----------------------------------------------------------------------------
(* The connection, the application and the cloud                           *)

(* What sm_run returned was sent.                                          *)
machine_rests ==
    /\ opdu' = Nothing
    /\ UNCHANGED <<smVars, credVars, idVars, running, reset, led>>

connects ==
    /\ \E d \in DevIds : sm_start(d)
    /\ disturbed' = FALSE
    /\ UNCHANGED <<items, known, stream, commands, told, misled>>

(* What was under way is lost with the connection.                         *)
drops ==
    /\ sm_stop
    /\ up' = << >> /\ down' = << >>
    /\ UNCHANGED <<items, known, commands, history>>

loop_sets(id, v) ==
    /\ v # target[id]
    /\ target' = [target EXCEPT ![id] = v]
    /\ machine_rests /\ UNCHANGED <<value, send, known, stream, commands, history>>

(* The cloud takes a message: a push, which it may refuse, the value it    *)
(* wrote itself, or the credentials.                                       *)
cloud_takes(result) ==
    /\ up # << >>
    /\ LET u == Head(up) IN
        /\ u.type # "PUSH_DATA_REQ" => result = "OK"
        /\ known' = IF u.type # "AUTH_REQ" /\ result = "OK"
                    THEN [known EXCEPT ![u.id] = u.val] ELSE known
        /\ down' = CASE u.type = "PUSH_DATA_REQ" ->
                            Append(down, Down(Answer("PUSH_DATA_RSP", result), 0, u.own))
                     [] u.type = "AUTH_REQ" ->
                            Append(down, Down(Answer("AUTH_RSP", "OK"), 0, FALSE))
                     [] OTHER -> down
    /\ up' = Tail(up)
    /\ machine_rests /\ UNCHANGED <<items, commands, history>>

cloud_commands ==
    /\ state = "ONLINE" /\ running /\ room /\ commands > 0
    /\ commands' = commands - 1
    /\ \E id \in Items, v \in Values, type \in {"PUSH_DATA_REQ", "POLL_DATA_REQ"} :
        /\ type = "POLL_DATA_REQ" => v = 0
        /\ down' = Append(down, Down(Command(type, id), v, FALSE))
    /\ machine_rests /\ UNCHANGED <<items, known, up, history>>

-----------------------------------------------------------------------------
(* Specification: a thing that is registered                               *)

LinkInit ==
    /\ state = "REG" /\ xpt_opcode = NoResp
    /\ to_on = FALSE /\ to_xpr = FALSE /\ timer = FALSE
    /\ cred = NoCreds
    /\ nvm = LET r == CHOOSE r \in Regs : TRUE
             IN  [uuid |-> r, token |-> r, devid |-> CHOOSE d \in DevIds : TRUE]
    /\ id_index = 0 /\ evt_index = 0
    /\ running = FALSE /\ reset = FALSE
    /\ led = "DISCONN" /\ opdu = Nothing
    /\ acked = {} /\ torn = FALSE
    /\ value = [i \in Items |-> 0] /\ target = value /\ known = value
    /\ send = none
    /\ up = << >> /\ down = << >>
    /\ commands = Demands
    /\ told = {} /\ misled = {} /\ disturbed = FALSE

LinkNext ==
    \/ \E k \in 0 .. InFlight : k <= Len(down) /\ turn(k)
    \/ expires
    \/ connects \/ drops
    \/ \E id \in Items, v \in Values : loop_sets(id, v)
    \/ \E result \in Results : cloud_takes(result)
    \/ cloud_commands

LinkSpec == LinkInit /\ [][LinkNext]_linkVars

(* The thread runs and reads what has come, and the timer fires.  The      *)
(* cloud takes what arrives, it does not refuse the same item for ever,    *)
(* and its answers do not all come or get read after the time.             *)
reads == turn(IF down = << >> THEN 0 ELSE 1)
takes == \E result \in Results : cloud_takes(result)
in_time == to_on /\ takes
read_in_time == down # << >> /\ got_resp(Head(down).msg) /\ turn(1)
accepts(id) == /\ up # << >> /\ Head(up).type = "PUSH_DATA_REQ"
               /\ Head(up).id = id /\ cloud_takes("OK")

LinkFairness ==
    /\ WF_linkVars(reads) /\ WF_linkVars(takes) /\ WF_linkVars(expires)
    /\ SF_linkVars(in_time) /\ SF_linkVars(read_in_time)
    /\ \A id \in Items : SF_linkVars(accepts(id))

LinkFairSpec == LinkSpec /\ LinkFairness

-----------------------------------------------------------------------------
(* Properties                                                              *)

LinkTypeOK ==
    /\ TypeOK
    /\ value \in [Items -> Values] /\ target \in [Items -> Values]
    /\ known \in [Items -> Values] /\ send \in [Items -> BOOLEAN]
    /\ Len(up) + Len(down) <= InFlight
    /\ commands \in 0 .. Demands
    /\ told \subseteq Items /\ misled \subseteq Items /\ disturbed \in BOOLEAN

(* An item at rest is one the cloud knows the value of, and nothing of it  *)
(* is under way that a drop of the connection could take: through lost     *)
(* connections, refusals and answers that come after the time, as long as  *)
(* the item was confirmed by the answer to its own push (proxy.c:72).      *)
RestMeansKnown ==
    \A id \in Items \ (told \cup misled) :
        ~ send[id] =>
            /\ value[id] = known[id]
            /\ \A i \in 1 .. Len(up) : up[i].type # "AUTH_REQ" => up[i].id # id

(* On a connection on which no wait has timed out and no poll was answered *)
(* every answer confirms the push it belongs to, though none names it      *)
(* (sm.c:296).                                                             *)
AnswersMatch ==
    [][ misled' \subseteq misled \/ disturbed ]_linkVars

(* A change that lasts comes to the cloud on a connection that lasts,      *)
(* whatever was refused or lost before.  Two kinds of items are left out,  *)
(* which the thing does not push again by itself: one whose push was       *)
(* confirmed by the answer to something else (sm.c:296), and one that was  *)
(* polled or written since its last push, whose answer the cloud may have  *)
(* refused.                                                                *)
ChangeReachesCloud ==
    \A id \in Items :
        (/\ <>[](running /\ id \notin told \cup misled)
         /\ <>[][target'[id] = target[id]]_linkVars)
            => []<>(known[id] = target[id])

(* "Will send 'value' until resp" (proxy.c:72): an item that was neither   *)
(* polled nor written, is not to be sent any more and has no push under    *)
(* way is one whose value the cloud has.  The run of this property refutes *)
(* it: the late answer to an earlier push, of the item or of another, ends *)
(* the sending of one that the cloud then refuses or never gets.           *)
SentUntilAnswered ==
    \A id \in Items \ told :
        \/ send[id]
        \/ \E i \in 1 .. Len(up) : up[i].type # "AUTH_REQ" /\ up[i].id = id
        \/ value[id] = known[id]

=============================================================================
