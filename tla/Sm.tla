--------------------------------- MODULE Sm ---------------------------------
(***************************************************************************)
(* The thing's protocol state machine, core/src/sm.c, as driven by the     *)
(* protocol thread of core/src/proto.c, with the three credential keys it  *)
(* keeps in flash through core/src/storage.c.                              *)
(*                                                                         *)
(* One call of sm_run is one step: it shares no data with other threads,   *)
(* and an expiry inside of it is taken to come before it or after it.  The *)
(* expiry of the response timer, the reset button and a power cut are      *)
(* steps of their own.  The network is arbitrary here: any message may     *)
(* arrive at any call, so late, repeated and wrong answers are covered.    *)
(*                                                                         *)
(* Of the data proxy this module keeps what it hands to sm_run: the set    *)
(* "ready" of ids for which proxy_read returns a value to send.            *)
(***************************************************************************)
EXTENDS Naturals, FiniteSets

CONSTANTS
    Items,      \* ids the application registered with knot_data_register
    LastId,     \* proxy_get_last_id(): the largest registered id
    DataMax,    \* CONFIG_KNOT_THING_DATA_MAX, the size of the proxy pool
    Regs,       \* registrations the cloud can issue: a uuid and its token
    DevIds,     \* device ids that sm_start can draw
    None,       \* an absent key
    Broken      \* keys in flash that are of no one registration

(* knot_data_register refuses an id outside of the pool, and an            *)
(* application registers at least one data item.                           *)
ASSUME ItemsAssumption ==
    /\ DataMax \in Nat
    /\ Items \subseteq 0 .. (DataMax - 1)
    /\ LastId \in Items
    /\ \A i \in Items : i <= LastId

ASSUME NoneAssumption ==
    /\ None \notin Regs \cup DevIds
    /\ Broken \notin Regs \cup {None}

VARIABLES
    state,        \* current state of the machine
    xpt_opcode,   \* expected response, NoResp (0xff) when none is
    to_on,        \* timeout active
    to_xpr,       \* timeout expired
    timer,        \* the kernel timer "to" is armed
    cred,         \* uuid, token and device_id in RAM
    nvm,          \* the same keys in flash, mirrored by storage.c's buffers
    id_index,     \* schema being sent (static of state_schema)
    evt_index,    \* last item polled (static of process_event)
    running,      \* last_connected of check_connection
    reset,        \* rst_flag, or the reset button was held
    led,          \* status period given to the peripheral module
    opdu,         \* what the last call of sm_run returned to send
    \* history, never read by the actions:
    acked,        \* ids whose schema was acknowledged in this pass
    torn          \* a wipe was cut off and left DEVID without its pair

smVars == <<state, xpt_opcode, to_on, to_xpr, timer>>
credVars == <<cred, nvm, torn>>
idVars == <<id_index, evt_index, acked>>
vars == <<smVars, credVars, idVars, running, reset, led, opdu>>

-----------------------------------------------------------------------------
(* Messages                                                                *)

NoResp == "0xff"

States == {"REG", "AUTH", "SCH", "ONLINE", "ERROR"}
Results == {"OK", "PERM", "FAIL"}
SchemaOpcodes == {"SCHM_FRAG_RSP", "SCHM_END_RSP"}
AnswerOpcodes == {"REG_RSP", "AUTH_RSP", "PUSH_DATA_RSP"} \cup SchemaOpcodes
Periods == {"DISCONN", "CONN", "ERROR"}

(* A read of ilen = 0 bytes leaves the zeroed buffer: its result is 0.     *)
NoMsg == [type |-> "NONE", result |-> "OK", cred |-> None, id |-> 0]
Answers == [type : AnswerOpcodes, result : Results, cred : Regs, id : {0}]
Commands == [type : {"PUSH_DATA_REQ", "POLL_DATA_REQ", "UNREG_REQ"},
             result : {"OK"}, cred : {None}, id : 0 .. (DataMax + 1)]
Msgs == {NoMsg} \cup Answers \cup Commands

Requests == {"REG_REQ", "AUTH_REQ", "SCHM_FRAG_REQ", "SCHM_END_REQ",
             "PUSH_DATA_REQ", "PUSH_DATA_RSP", "UNREG_RSP", "ERROR", "NONE"}
Out(type, id) == [type |-> type, id |-> id]
Nothing == Out("NONE", 0)
OutMsgs == [type : Requests, id : 0 .. (DataMax + 1)]

Creds == [uuid : Regs \cup {None}, token : Regs \cup {None},
          devid : DevIds \cup {None}]
NoCreds == [uuid |-> None, token |-> None, devid |-> None]
Stored(c) == None \notin {c.uuid, c.token, c.devid}

-----------------------------------------------------------------------------
(* Head and tail of sm_run                                                 *)

(* The awaited answer arrived while the timer ran.                         *)
got_resp(m) == to_on /\ m.type = xpt_opcode

wl_opcode(m) ==
    state = "ONLINE" /\ m.type \in {"PUSH_DATA_REQ", "POLL_DATA_REQ"}

(* Slip: waiting is told by xpt_opcode, which an expiry leaves set.        *)
slip_ignore_expiry(m) ==
    /\ xpt_opcode # NoResp
    /\ m.type # xpt_opcode
    /\ ~ wl_opcode(m)

(* Slip: no message at all is not ignored.                                 *)
slip_run_without_message(m) ==
    to_on /\ m # NoMsg /\ ~ got_resp(m) /\ ~ wl_opcode(m)

(* The message is read from the pipe and dropped.                          *)
ignored(m) == to_on /\ ~ got_resp(m) /\ ~ wl_opcode(m)

(* What the handlers read in to_xpr: a matching answer clears it.          *)
expired(m) == to_xpr /\ ~ got_resp(m)

(* Slip: the expiry does not make the handlers send again.                 *)
slip_no_retry(m) == xpt_opcode = NoResp

(* "First attempt or timeout expired"                                      *)
send_again(m) == xpt_opcode = NoResp \/ expired(m)

period(next) == CASE next = "ONLINE" -> "CONN"
                  [] next = "ERROR" -> "ERROR"
                  [] OTHER -> "DISCONN"

(* A handler chose the next state, the response to wait for and what to    *)
(* send.  A state change waits for nothing; otherwise the timer runs for   *)
(* as long as a response is expected.                                      *)
finish(m, next, xpt, out) ==
    LET on == to_on /\ ~ got_resp(m)
        armed == timer /\ ~ got_resp(m)
        wait == IF next = state THEN xpt ELSE NoResp
    IN  /\ state' = next
        /\ xpt_opcode' = wait
        /\ led' = IF next = state THEN led ELSE period(next)
        /\ opdu' = out
        /\ to_on' = (wait # NoResp)
        /\ to_xpr' = (expired(m) /\ IF wait = NoResp THEN ~ on ELSE on)
        /\ timer' = IF wait = NoResp THEN armed /\ ~ on ELSE on => armed

-----------------------------------------------------------------------------
(* STATE_REG and STATE_AUTH                                                *)

register_send(m) ==
    /\ send_again(m)
    /\ finish(m, "REG", "REG_RSP", Out("REG_REQ", 0))
    /\ UNCHANGED <<credVars, idVars>>

register_rejected(m) ==
    /\ ~ send_again(m)
    /\ m.result # "OK"
    /\ finish(m, "ERROR", xpt_opcode, Nothing)
    /\ UNCHANGED <<credVars, idVars>>

register_accepted(m) ==
    /\ ~ send_again(m)
    /\ m.result = "OK"
    /\ cred' = [cred EXCEPT !.uuid = m.cred, !.token = m.cred]
    /\ finish(m, "SCH", xpt_opcode, Nothing)
    /\ UNCHANGED <<nvm, torn, idVars>>

state_register(m) ==
    /\ state = "REG"
    /\ register_send(m) \/ register_rejected(m) \/ register_accepted(m)

auth_send(m) ==
    /\ send_again(m)
    /\ finish(m, "AUTH", "AUTH_RSP", Out("AUTH_REQ", 0))

auth_answered(m) ==
    /\ ~ send_again(m)
    /\ finish(m, IF m.result = "OK" THEN "ONLINE" ELSE "ERROR",
              xpt_opcode, Nothing)

state_auth(m) ==
    /\ state = "AUTH"
    /\ auth_send(m) \/ auth_answered(m)
    /\ UNCHANGED <<credVars, idVars>>

-----------------------------------------------------------------------------
(* STATE_SCH                                                               *)

(* The first registered id at or after "from".                             *)
first_from(from, i) ==
    i \in Items /\ from <= i /\ \A j \in Items : from <= j => i <= j

send_schema(m, from) ==
    \E i \in Items :
        /\ first_from(from, i)
        /\ id_index' = i
        /\ IF i = LastId
           THEN finish(m, "SCH", "SCHM_END_RSP", Out("SCHM_END_REQ", i))
           ELSE finish(m, "SCH", "SCHM_FRAG_RSP", Out("SCHM_FRAG_REQ", i))
        /\ UNCHANGED <<credVars, evt_index>>

(* Slip: a timeout resumes the pass where it was.                          *)
slip_schema_resume(m) ==
    /\ send_again(m)
    /\ send_schema(m, id_index)
    /\ acked' = {}

schema_start(m) ==
    /\ send_again(m)
    /\ send_schema(m, 0)
    /\ acked' = {}

(* Slips: the acknowledged id is counted one too far; a refused fragment   *)
(* is passed over.                                                         *)
slip_ack_next(m) ==
    /\ ~ send_again(m)
    /\ xpt_opcode = "SCHM_FRAG_RSP"
    /\ send_schema(m, id_index + 1)
    /\ acked' = acked \cup {id_index + 1}

slip_skip_refused(m) ==
    /\ ~ send_again(m)
    /\ xpt_opcode = "SCHM_FRAG_RSP"
    /\ send_schema(m, id_index + 1)
    /\ acked' = IF m.result = "OK" THEN acked \cup {id_index} ELSE acked

schema_fragment(m) ==
    /\ ~ send_again(m)
    /\ xpt_opcode = "SCHM_FRAG_RSP"
    /\ IF m.result = "OK"
       THEN send_schema(m, id_index + 1) /\ acked' = acked \cup {id_index}
       ELSE send_schema(m, id_index) /\ acked' = acked

schema_end_rejected(m) ==
    /\ ~ send_again(m)
    /\ xpt_opcode = "SCHM_END_RSP"
    /\ m.result # "OK"
    /\ send_schema(m, id_index)
    /\ acked' = acked

schema_end_accepted(m) ==
    /\ ~ send_again(m)
    /\ xpt_opcode = "SCHM_END_RSP"
    /\ m.result = "OK"
    /\ acked' = acked \cup {id_index}

(* Slip: the key that sm_start tests last is written first.                *)
slip_devid_first(k) ==
    [uuid  |-> IF k >= 2 THEN cred.uuid ELSE nvm.uuid,
     token |-> IF k >= 3 THEN cred.token ELSE nvm.token,
     devid |-> IF k >= 1 THEN cred.devid ELSE nvm.devid]

(* The flash after the first k of UUID, TOKEN and DEVID were written.      *)
saved(k) == [uuid  |-> IF k >= 1 THEN cred.uuid ELSE nvm.uuid,
             token |-> IF k >= 2 THEN cred.token ELSE nvm.token,
             devid |-> IF k >= 3 THEN cred.devid ELSE nvm.devid]

(* Slip: the result of storage_write is not looked at.                     *)
slip_save_unchecked(m) ==
    /\ schema_end_accepted(m)
    /\ \E k \in 0 .. 3 :
          /\ nvm' = saved(k)
          /\ torn' = (torn /\ k < 3)
          /\ finish(m, "ONLINE", xpt_opcode, Nothing)
    /\ UNCHANGED <<cred, id_index, evt_index>>

(* storage_write of all three keys, or its failure at key k + 1.           *)
credentials_saved(m) ==
    /\ schema_end_accepted(m)
    /\ \E k \in 0 .. 3 :
          /\ nvm' = saved(k)
          /\ torn' = (torn /\ k < 3)
          /\ finish(m, IF k = 3 THEN "ONLINE" ELSE "ERROR",
                    xpt_opcode, Nothing)
    /\ UNCHANGED <<cred, id_index, evt_index>>

state_schema(m) ==
    /\ state = "SCH"
    /\ \/ schema_start(m)
       \/ schema_fragment(m)
       \/ schema_end_rejected(m)
       \/ credentials_saved(m)

-----------------------------------------------------------------------------
(* STATE_ONLINE                                                            *)

(* What process_cmd can answer.  The guard of a poll is id > DATA_MAX, so  *)
(* id = DATA_MAX reads the slot after the pool, whose contents the build   *)
(* decides: it may pass for an item.  A read callback may fail, and a      *)
(* write fails on an unknown id and when the application refuses it.       *)
cmd_answers(m) ==
    CASE m.type = "UNREG_REQ" -> {Out("UNREG_RSP", 0)}
      [] m.type = "POLL_DATA_REQ" ->
            {Out("ERROR", m.id)} \cup
            {Out("PUSH_DATA_REQ", id) : id \in {m.id} \cap (Items \cup {DataMax})}
      [] m.type = "PUSH_DATA_REQ" ->
            {Out("ERROR", m.id)} \cup
            {Out("PUSH_DATA_RSP", id) : id \in {m.id} \cap Items}

(* A command is always answered; the wait for our own response goes on.    *)
process_cmd(m) ==
    /\ m \in Commands
    /\ \E out \in cmd_answers(m) : finish(m, "ONLINE", xpt_opcode, out)
    /\ reset' = (reset \/ m.type = "UNREG_REQ")
    /\ UNCHANGED evt_index

(* The wait is over, by an answer or by the clock, and the message at hand *)
(* has KNOT_ERR_PERM where an answer has its result.                       *)
perm_error(m) ==
    /\ xpt_opcode # NoResp
    /\ m.result = "PERM"

(* Slip: polling starts at the first item every time.                      *)
slip_poll_from_first(id) == id

(* How far polling walks from the last item before it comes to id.         *)
distance(id) == (id + LastId - evt_index) % (LastId + 1)

(* Slip: the index is moved on with the push.                              *)
slip_moves_on(m, ready) ==
    /\ ~ perm_error(m)
    /\ \E id \in ready :
        /\ \A other \in ready : distance(id) <= distance(other)
        /\ evt_index' = id + 1
        /\ finish(m, "ONLINE", "PUSH_DATA_RSP", Out("PUSH_DATA_REQ", id))

(* process_event: the next item that has something to send, the last       *)
(* one polled being tried last.                                            *)
event_send(m, ready) ==
    /\ ~ perm_error(m)
    /\ \E id \in ready :
        /\ \A other \in ready : distance(id) <= distance(other)
        /\ evt_index' = id
        /\ finish(m, "ONLINE", "PUSH_DATA_RSP", Out("PUSH_DATA_REQ", id))

event_idle(m, ready) ==
    /\ ~ perm_error(m)
    /\ ready = {}
    /\ evt_index' = evt_index
    /\ finish(m, "ONLINE", NoResp, Nothing)

(* Slip: a permission error sends the thing to register.                   *)
slip_perm_registers(m) ==
    /\ perm_error(m)
    /\ evt_index' = evt_index
    /\ finish(m, "REG", xpt_opcode, Nothing)

event_perm_error(m) ==
    /\ perm_error(m)
    /\ evt_index' = evt_index
    /\ finish(m, "AUTH", xpt_opcode, Nothing)

process_event(m, ready) ==
    /\ m \notin Commands
    /\ event_send(m, ready) \/ event_idle(m, ready) \/ event_perm_error(m)
    /\ reset' = reset

state_online(m, ready) ==
    /\ state = "ONLINE"
    /\ process_cmd(m) \/ process_event(m, ready)
    /\ UNCHANGED <<credVars, id_index, acked>>

-----------------------------------------------------------------------------
(* One call of sm_run on the message read from the pipe                    *)

handle(m, ready) ==
    /\ ~ ignored(m)
    /\ \/ state_register(m) /\ UNCHANGED reset
       \/ state_auth(m) /\ UNCHANGED reset
       \/ state_schema(m) /\ UNCHANGED reset
       \/ state_online(m, ready)
       \/ /\ state = "ERROR"
          /\ finish(m, "ERROR", xpt_opcode, Nothing)
          /\ UNCHANGED <<credVars, idVars, reset>>

ignore(m) ==
    /\ ignored(m)
    /\ opdu' = Nothing
    /\ UNCHANGED <<smVars, credVars, idVars, reset, led>>

sm_run(m, ready) ==
    /\ running
    /\ ~ reset
    /\ ignore(m) \/ handle(m, ready)
    /\ UNCHANGED running

(* Slip: the handler of the timer leaves to_on set.                        *)
slip_expiry_keeps_on ==
    /\ timer
    /\ timer' = FALSE
    /\ to_xpr' = TRUE
    /\ UNCHANGED <<state, xpt_opcode, to_on, credVars, idVars, running, reset,
                   led, opdu>>

(* The timer fires between two calls.                                      *)
timer_expired ==
    /\ timer
    /\ timer' = FALSE
    /\ to_on' = FALSE
    /\ to_xpr' = TRUE
    /\ UNCHANGED <<state, xpt_opcode, credVars, idVars, running, reset, led,
                   opdu>>

(* check_connection sees the connection come up: sm_start.  The machine    *)
(* authenticates with complete credentials and else registers anew.        *)
sm_start(d) ==
    /\ ~ running
    /\ ~ reset
    /\ running' = TRUE
    /\ IF Stored(nvm)
       THEN state' = "AUTH" /\ cred' = nvm
       ELSE state' = "REG" /\ cred' = [nvm EXCEPT !.devid = d]
    /\ to_on' = FALSE
    /\ to_xpr' = FALSE
    /\ xpt_opcode' = NoResp
    /\ led' = "DISCONN"
    /\ opdu' = Nothing
    /\ UNCHANGED <<timer, nvm, torn, idVars, reset>>

(* Slip: the timer of the session is left armed.                           *)
slip_stop_leaves_timer ==
    /\ running
    /\ ~ reset
    /\ running' = FALSE
    /\ timer' = timer
    /\ led' = "DISCONN"
    /\ opdu' = Nothing
    /\ UNCHANGED <<state, xpt_opcode, to_on, to_xpr, credVars, idVars, reset>>

(* ... and go down: sm_stop, which leaves to_on set.                       *)
sm_stop ==
    /\ running
    /\ ~ reset
    /\ running' = FALSE
    /\ timer' = (timer /\ ~ to_on)
    /\ led' = "DISCONN"
    /\ opdu' = Nothing
    /\ UNCHANGED <<state, xpt_opcode, to_on, to_xpr, credVars, idVars, reset>>

-----------------------------------------------------------------------------
(* Reset and power                                                         *)

reboot(flash) ==
    /\ nvm' = flash
    /\ cred' = NoCreds
    /\ state' = "REG" /\ xpt_opcode' = NoResp
    /\ to_on' = FALSE /\ to_xpr' = FALSE /\ timer' = FALSE
    /\ id_index' = 0 /\ evt_index' = 0
    /\ running' = FALSE /\ reset' = FALSE
    /\ led' = "DISCONN" /\ opdu' = Nothing

button_reset ==
    /\ ~ reset
    /\ reset' = TRUE
    /\ UNCHANGED <<smVars, credVars, idVars, running, led, opdu>>

(* The flash after storage_reset deleted the first k of the three keys.    *)
wiped(k) == [uuid  |-> IF k >= 1 THEN None ELSE nvm.uuid,
             token |-> IF k >= 2 THEN None ELSE nvm.token,
             devid |-> IF k >= 3 THEN None ELSE nvm.devid]

(* clear_factory and the reboot after it.  storage_reset stops at the      *)
(* first failing key; the partition is erased after that unless the erase  *)
(* fails or the power goes first, so any prefix can be what remains.       *)
factory_reset ==
    /\ reset
    /\ \E k \in 0 .. 3 :
        /\ reboot(wiped(k))
        /\ torn' = (wiped(k).devid # None /\ (torn \/ k > 0))
    /\ UNCHANGED acked

power_cut ==
    /\ reboot(nvm)
    /\ UNCHANGED <<torn, acked>>

(* The power goes while state_schema is writing the credentials.           *)
power_cut_in_save(m) ==
    /\ running /\ ~ reset /\ state = "SCH"
    /\ ~ ignored(m)
    /\ schema_end_accepted(m)
    /\ \E k \in 1 .. 2 : reboot(saved(k))
    /\ UNCHANGED torn

-----------------------------------------------------------------------------
(* Specification                                                           *)

Init ==
    /\ state = "REG"              \* zeroed statics; sm_start sets them
    /\ xpt_opcode = NoResp
    /\ to_on = FALSE /\ to_xpr = FALSE /\ timer = FALSE
    /\ cred = NoCreds /\ nvm = NoCreds
    /\ id_index = 0 /\ evt_index = 0
    /\ running = FALSE /\ reset = FALSE
    /\ led = "DISCONN"
    /\ opdu = Nothing
    /\ acked = {} /\ torn = FALSE

Next ==
    \/ \E m \in Msgs, ready \in SUBSET Items : sm_run(m, ready)
    \/ timer_expired
    \/ \E d \in DevIds : sm_start(d)
    \/ sm_stop
    \/ button_reset
    \/ factory_reset
    \/ power_cut
    \/ \E m \in Msgs : power_cut_in_save(m)

Spec == Init /\ [][Next]_vars

(* The thread keeps running and the timer it armed fires.  The link loses  *)
(* and delays answers, but fairly to each request of its own: a request    *)
(* that is made for ever, be it the schema of this id or of that, is       *)
(* answered in time again and again, and the flash then takes the          *)
(* credentials.  Fairness to each kind of request would not do: with two   *)
(* fragments the first can always be answered, the second never, and the   *)
(* timeout begins the pass anew (sm.c:186).                                *)
answered(type, id) ==
    \E m \in {a \in Answers : a.type = type /\ a.result = "OK"} :
        /\ type \in SchemaOpcodes => id_index = id
        /\ got_resp(m) /\ sm_run(m, {}) /\ state' # "ERROR"

Fairness ==
    /\ WF_vars(\E d \in DevIds : sm_start(d))
    /\ WF_vars(\E ready \in SUBSET Items : sm_run(NoMsg, ready))
    /\ WF_vars(timer_expired)
    /\ WF_vars(factory_reset)
    /\ \A type \in {"REG_RSP", "AUTH_RSP"} : SF_vars(answered(type, 0))
    /\ \A type \in SchemaOpcodes, id \in Items : SF_vars(answered(type, id))

FairSpec == Spec /\ Fairness

-----------------------------------------------------------------------------
(* Properties                                                              *)

TypeOK ==
    /\ state \in States
    /\ xpt_opcode \in AnswerOpcodes \cup {NoResp}
    /\ to_on \in BOOLEAN /\ to_xpr \in BOOLEAN /\ timer \in BOOLEAN
    /\ cred \in Creds /\ nvm \in Creds
    /\ id_index \in Items \cup {0} /\ evt_index \in Items \cup {0}
    /\ running \in BOOLEAN /\ reset \in BOOLEAN
    /\ led \in Periods
    /\ opdu \in OutMsgs
    /\ acked \subseteq Items \cup {0} /\ torn \in BOOLEAN

(* A session that waits for a response is woken: either its timer is       *)
(* armed or the expiry was recorded.  And no timer outlives the wait or    *)
(* the session it was armed for (sm.c:595-613, sm_stop).                   *)
WaitHasTimeout ==
    /\ running /\ xpt_opcode # NoResp => timer \/ to_xpr
    /\ timer => running /\ to_on /\ xpt_opcode # NoResp

(* The uuid and the token in flash were issued together whenever DEVID,    *)
(* written last and tested by sm_start, is there too; only a wipe that was *)
(* cut off breaks the pair.                                                *)
CredentialsPaired ==
    ~ torn /\ nvm.devid # None => nvm.uuid = nvm.token /\ nvm.uuid # None

(* A thing that is online, or shows the connected blink, can authenticate  *)
(* again after a power cut: what it runs with is what the flash holds.     *)
OnlineIsDurable ==
    /\ led = "CONN" => running /\ state = "ONLINE"
    /\ running /\ state = "ONLINE" => cred = nvm /\ Stored(nvm)

(* The state machine keeps the schema pass in order: everything below the  *)
(* fragment in flight was acknowledged and nothing above it, through       *)
(* timeouts, refusals and gaps in the registered ids (sm.c:186-254).       *)
SchemaInOrder ==
    running /\ state = "SCH" /\ xpt_opcode # NoResp =>
        acked = {i \in Items : i < id_index}

(* Credentials reach the flash only after every registered schema was      *)
(* acknowledged in the current pass ("Credentials are only saved on NVM    *)
(* after all the schemas are sent", sm.c:163).                             *)
SavedAfterSchemas ==
    [][ \A key \in DOMAIN nvm :
            nvm'[key] \notin {None, nvm[key]} => acked' = Items ]_vars

(* The handshake advances only on an answer that came while its timer was  *)
(* armed: an answer that comes after the expiry finds the request sent     *)
(* again (sm.c:526-539).                                                   *)
AdvanceOnlyInTime ==
    [][ \/ ~ (running /\ running')
        \/ state \notin {"REG", "AUTH", "SCH"}
        \/ state' = state
        \/ timer /\ ~ to_xpr ]_vars

(* The invariant that carries the ones above from step to step: what the   *)
(* timer flags, the awaited response and the credentials in RAM have to do *)
(* with the state while a session runs.                                    *)
Expected(s) == CASE s = "REG" -> {"REG_RSP"}
                 [] s = "AUTH" -> {"AUTH_RSP"}
                 [] s = "SCH" -> SchemaOpcodes
                 [] s = "ONLINE" -> {"PUSH_DATA_RSP"}
                 [] s = "ERROR" -> {}

WaitInv ==
    /\ timer <=> running /\ to_on
    /\ running =>
        /\ xpt_opcode \in Expected(state) \cup {NoResp}
        /\ to_on => ~ to_xpr /\ xpt_opcode # NoResp
        /\ xpt_opcode # NoResp => to_on \/ to_xpr

SchemaInv ==
    running /\ state = "SCH" /\ xpt_opcode # NoResp =>
        /\ id_index \in Items
        /\ acked = {i \in Items : i < id_index}
        /\ xpt_opcode = "SCHM_END_RSP" <=> id_index = LastId

SessionInv ==
    running =>
        /\ state \in {"AUTH", "ONLINE"} => cred = nvm /\ Stored(nvm)
        /\ state \in {"REG", "SCH"} =>
              /\ cred.devid # None /\ (torn \/ nvm.devid = None)
              /\ ~ Stored(nvm)
        /\ state = "SCH" => cred.uuid = cred.token /\ cred.uuid # None

ShownInv == led = "CONN" => running /\ state = "ONLINE"

IInv == TypeOK /\ WaitInv /\ SchemaInv /\ SessionInv /\ CredentialsPaired
            /\ ShownInv

(* The account that the flash holds: DEVID, written last, makes it count.   *)
Held ==
    IF nvm.devid = None THEN None
    ELSE IF nvm.uuid = nvm.token /\ nvm.uuid # None THEN nvm.uuid
    ELSE Broken

A == INSTANCE Account WITH account <- Held,
                           online <- running /\ state = "ONLINE"

(* Through lost and late answers, failing writes, resets and power cuts    *)
(* between any two keys: a registration in flash is never replaced by      *)
(* another and never mixed with one, unless a wipe came between, and the   *)
(* thing is online only with what the flash holds.                         *)
KeepsAccount == A!Spec

(* With the connection up for good the handshake ends: the thing comes     *)
(* back online again and again, or stops in ERROR.                         *)
EventuallyOnline ==
    <>[]running => []<>(state \in {"ONLINE", "ERROR"})

(* What a comment of sm.c says and the code does not do.                   *)

(* "If the thing has credentials stored, send auth request. Otherwise send *)
(* register request." (sm.c:434): credentials, a uuid with its own token.  *)
AuthWithStoredPair ==
    running /\ state = "AUTH" => cred.uuid = cred.token

=============================================================================
