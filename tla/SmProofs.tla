------------------------------ MODULE SmProofs ------------------------------
(***************************************************************************)
(* IInv is an inductive invariant of Sm, for every set of items, every     *)
(* pool size and every set of registrations.  From it follow the safety    *)
(* properties that the runs check on small instances.                      *)
(***************************************************************************)
EXTENDS Sm, TLAPS

(* Ids are natural numbers, so they can be compared and counted.           *)
LEMMA ItemsAreNat ==
    LastId \in Items /\ \A i \in Items : i \in Nat /\ i <= LastId
  BY ItemsAssumption

(* The tail of sm_run keeps the timer flags and the blink period in step   *)
(* with the state, whatever the handler chose, as long as it waits for a   *)
(* response its state expects (sm.c:565-615).                              *)
LEMMA FinishKeepsWait ==
    ASSUME IInv, running, running', NEW m \in Msgs,
           NEW next \in States, NEW xpt \in AnswerOpcodes \cup {NoResp},
           NEW out, finish(m, next, xpt, out),
           next = state => xpt \in Expected(next) \cup {NoResp}
    PROVE  /\ WaitInv'
           /\ ShownInv'
           /\ state' = next
           /\ opdu' = out
           /\ xpt_opcode' = IF next = state THEN xpt ELSE NoResp
           /\ xpt_opcode' \in AnswerOpcodes \cup {NoResp}
           /\ to_on' \in BOOLEAN /\ to_xpr' \in BOOLEAN /\ timer' \in BOOLEAN
           /\ led' \in Periods
  <1> DEFINE on == to_on /\ ~ got_resp(m)
             armed == timer /\ ~ got_resp(m)
             wait == IF next = state THEN xpt ELSE NoResp
  <1>1. /\ state' = next
        /\ xpt_opcode' = wait
        /\ led' = IF next = state THEN led ELSE period(next)
        /\ opdu' = out
        /\ to_on' = (wait # NoResp)
        /\ to_xpr' = (expired(m) /\ IF wait = NoResp THEN ~ on ELSE on)
        /\ timer' = IF wait = NoResp THEN armed /\ ~ on ELSE on => armed
    BY DEF finish
  <1>2. to_on \in BOOLEAN /\ to_xpr \in BOOLEAN /\ timer \in BOOLEAN
        /\ timer = to_on /\ (to_on => ~ to_xpr)
    BY DEF IInv, TypeOK, WaitInv
  <1>3. to_on' = (wait # NoResp) /\ timer' = (wait # NoResp)
        /\ (wait # NoResp => to_xpr' = FALSE) /\ to_xpr' \in BOOLEAN
    BY <1>1, <1>2 DEF expired, got_resp
  <1>4. wait \in Expected(next) \cup {NoResp}
    OBVIOUS
  <1>5. WaitInv'
    BY <1>1, <1>3, <1>4 DEF WaitInv
  <1>6. ShownInv' /\ led' \in Periods
    BY <1>1 DEF ShownInv, period, Periods, States, IInv, TypeOK
  <1> QED
    BY <1>1, <1>3, <1>5, <1>6

(* Outside of ONLINE a handler that does not send again has before it the  *)
(* answer it waits for, in time: "OPCODE verified before entering state".  *)
LEMMA AnswerInTime ==
    ASSUME IInv, running, NEW m \in Msgs,
           ~ ignored(m), ~ send_again(m), state # "ONLINE"
    PROVE  /\ to_on /\ timer /\ ~ to_xpr
           /\ m.type = xpt_opcode
           /\ m \in Answers
  <1>1. xpt_opcode # NoResp /\ ~ expired(m)
    BY DEF send_again
  <1>2. to_on
    BY <1>1 DEF IInv, WaitInv, expired, got_resp
  <1>3. m.type = xpt_opcode
    BY <1>2 DEF ignored, got_resp, wl_opcode
  <1>4. m \in Answers
    BY <1>1, <1>3 DEF IInv, TypeOK, Msgs, NoMsg, Commands, AnswerOpcodes,
                      SchemaOpcodes
  <1> QED
    BY <1>2, <1>3, <1>4 DEF IInv, WaitInv

-----------------------------------------------------------------------------

(* The zeroed statics of a thing that was just powered up satisfy IInv.    *)
THEOREM InitInv == Init => IInv
  <1> SUFFICES ASSUME Init
               PROVE  IInv
    OBVIOUS
  <1>1. opdu \in OutMsgs
    BY ItemsAssumption DEF Init, OutMsgs, Out, Nothing, Requests
  <1>2. cred \in Creds /\ nvm \in Creds /\ nvm.devid = None
    BY DEF Init, Creds, NoCreds
  <1>3. TypeOK
    BY <1>1, <1>2 DEF Init, TypeOK, States, Periods
  <1>4. WaitInv /\ SchemaInv /\ SessionInv /\ ShownInv /\ CredentialsPaired
    BY <1>2 DEF Init, WaitInv, SchemaInv, SessionInv, ShownInv,
                CredentialsPaired
  <1> QED
    BY <1>3, <1>4 DEF IInv

(* STATE_REG: sending, being refused and taking the credentials (sm.c:101) *)
(* keep IInv.                                                              *)
LEMMA RegisterKeepsInv ==
    ASSUME IInv, running, running', NEW m \in Msgs, ~ ignored(m),
           state_register(m), UNCHANGED reset
    PROVE  IInv'
  <1>1. CASE register_send(m)
    <2>1. /\ WaitInv' /\ ShownInv' /\ state' = "REG"
          /\ xpt_opcode' \in AnswerOpcodes \cup {NoResp}
          /\ to_on' \in BOOLEAN /\ to_xpr' \in BOOLEAN /\ timer' \in BOOLEAN
          /\ led' \in Periods /\ opdu' = Out("REG_REQ", 0)
      BY <1>1, FinishKeepsWait DEF register_send, state_register, States,
         AnswerOpcodes, Expected
    <2>2. opdu' \in OutMsgs
      BY <2>1, ItemsAssumption DEF OutMsgs, Out, Requests
    <2> QED
      BY <1>1, <2>1, <2>2 DEF register_send, state_register, credVars, idVars,
         IInv, TypeOK, SchemaInv, SessionInv, CredentialsPaired, States
  <1>2. CASE register_rejected(m)
    <2>1. /\ WaitInv' /\ ShownInv' /\ state' = "ERROR"
          /\ xpt_opcode' \in AnswerOpcodes \cup {NoResp}
          /\ to_on' \in BOOLEAN /\ to_xpr' \in BOOLEAN /\ timer' \in BOOLEAN
          /\ led' \in Periods /\ opdu' = Nothing
      BY <1>2, FinishKeepsWait DEF register_rejected, state_register, States,
         IInv, TypeOK
    <2>2. opdu' \in OutMsgs
      BY <2>1, ItemsAssumption DEF OutMsgs, Out, Nothing, Requests
    <2> QED
      BY <1>2, <2>1, <2>2 DEF register_rejected, state_register, credVars,
         idVars, IInv, TypeOK, SchemaInv, SessionInv, CredentialsPaired, States
  <1>3. CASE register_accepted(m)
    <2>1. /\ WaitInv' /\ ShownInv' /\ state' = "SCH"
          /\ xpt_opcode' = NoResp
          /\ to_on' \in BOOLEAN /\ to_xpr' \in BOOLEAN /\ timer' \in BOOLEAN
          /\ led' \in Periods /\ opdu' = Nothing
      BY <1>3, FinishKeepsWait DEF register_accepted, state_register, States,
         IInv, TypeOK
    <2>2. opdu' \in OutMsgs
      BY <2>1, ItemsAssumption DEF OutMsgs, Out, Nothing, Requests
    <2>3. m.cred \in Regs
      BY <1>3, AnswerInTime DEF register_accepted, state_register, Answers
    <2>4. /\ cred' \in Creds
          /\ cred'.uuid = m.cred /\ cred'.token = m.cred
          /\ cred'.devid = cred.devid
      BY <1>3, <2>3 DEF register_accepted, IInv, TypeOK, Creds
    <2>5. m.cred # None
      BY <2>3, NoneAssumption
    <2> QED
      BY <1>3, <2>1, <2>2, <2>4, <2>5 DEF register_accepted, state_register,
         idVars, IInv, TypeOK, SchemaInv, SessionInv, CredentialsPaired, States
  <1> QED
    BY <1>1, <1>2, <1>3 DEF state_register

(* STATE_AUTH: whatever the answer, the credentials used are those stored  *)
(* (sm.c:136).                                                             *)
LEMMA AuthKeepsInv ==
    ASSUME IInv, running, running', NEW m \in Msgs, ~ ignored(m),
           state_auth(m), UNCHANGED reset
    PROVE  IInv'
  <1>1. PICK next \in {"AUTH", "ONLINE", "ERROR"} :
          /\ WaitInv' /\ ShownInv' /\ state' = next
          /\ xpt_opcode' \in AnswerOpcodes \cup {NoResp}
          /\ to_on' \in BOOLEAN /\ to_xpr' \in BOOLEAN /\ timer' \in BOOLEAN
          /\ led' \in Periods /\ opdu' \in OutMsgs
    <2>1. CASE auth_send(m)
      <3>1. Out("AUTH_REQ", 0) \in OutMsgs
        BY ItemsAssumption DEF OutMsgs, Out, Requests
      <3> QED
        BY <2>1, <3>1, FinishKeepsWait DEF auth_send, state_auth, States,
           AnswerOpcodes, Expected
    <2>2. CASE auth_answered(m)
      <3>1. Nothing \in OutMsgs
        BY ItemsAssumption DEF OutMsgs, Out, Nothing, Requests
      <3>2. finish(m, IF m.result = "OK" THEN "ONLINE" ELSE "ERROR",
                   xpt_opcode, Nothing)
        BY <2>2 DEF auth_answered
      <3> QED
        BY <3>1, <3>2, FinishKeepsWait DEF state_auth, States, IInv, TypeOK
    <2> QED
      BY <2>1, <2>2 DEF state_auth
  <1> QED
    BY <1>1 DEF state_auth, credVars, idVars, IInv, TypeOK, SchemaInv,
       SessionInv, CredentialsPaired, States

-----------------------------------------------------------------------------
(* STATE_SCH                                                               *)

(* Sending the first registered schema at or after "from" leaves exactly   *)
(* the ids below it acknowledged, if those below "from" were.              *)
LEMMA SendKeepsOrder ==
    ASSUME IInv, running, running', state = "SCH", NEW m \in Msgs,
           NEW from \in Nat, send_schema(m, from),
           acked' = {i \in Items : i < from}, UNCHANGED reset
    PROVE  IInv'
  <1>1. PICK i \in Items :
          /\ first_from(from, i)
          /\ id_index' = i
          /\ IF i = LastId
             THEN finish(m, "SCH", "SCHM_END_RSP", Out("SCHM_END_REQ", i))
             ELSE finish(m, "SCH", "SCHM_FRAG_RSP", Out("SCHM_FRAG_REQ", i))
          /\ UNCHANGED <<credVars, evt_index>>
    BY DEF send_schema
  <1>2. /\ Out("SCHM_END_REQ", i) \in OutMsgs
        /\ Out("SCHM_FRAG_REQ", i) \in OutMsgs
    BY ItemsAssumption DEF OutMsgs, Out, Requests
  <1>3. /\ WaitInv' /\ ShownInv' /\ state' = "SCH"
        /\ xpt_opcode' = IF i = LastId THEN "SCHM_END_RSP"
                                       ELSE "SCHM_FRAG_RSP"
        /\ to_on' \in BOOLEAN /\ to_xpr' \in BOOLEAN /\ timer' \in BOOLEAN
        /\ led' \in Periods /\ opdu' \in OutMsgs
    BY <1>1, <1>2, FinishKeepsWait DEF States, AnswerOpcodes, SchemaOpcodes,
       Expected
  <1>4. acked' = {j \in Items : j < i}
    <2>1. i \in Nat /\ from <= i /\ \A j \in Items : from <= j => i <= j
      BY <1>1, ItemsAreNat DEF first_from
    <2>2. ASSUME NEW j \in Items
          PROVE  (j < from) <=> (j < i)
      BY <2>1, <2>2, ItemsAreNat
    <2> QED
      BY <2>2
  <1>5. SchemaInv'
    BY <1>1, <1>3, <1>4 DEF SchemaInv
  <1>6. TypeOK'
    BY <1>1, <1>3, <1>4 DEF credVars, IInv, TypeOK, States, AnswerOpcodes,
       SchemaOpcodes
  <1> QED
    BY <1>1, <1>3, <1>5, <1>6 DEF credVars, IInv, SessionInv,
       CredentialsPaired

(* STATE_SCH: the pass of the schemas and the save at its end, complete or *)
(* cut short by a failing write (sm.c:171), keep IInv.                     *)
LEMMA SchemaKeepsInv ==
    ASSUME IInv, running, running', NEW m \in Msgs, ~ ignored(m),
           state_schema(m), UNCHANGED reset
    PROVE  IInv'
  <1>1. state = "SCH"
    BY DEF state_schema
  <1>2. CASE schema_start(m)
    <2>1. acked' = {i \in Items : i < 0} /\ send_schema(m, 0)
      <3>1. \A i \in Items : ~ (i < 0)
        BY ItemsAreNat
      <3> QED
        BY <1>2, <3>1 DEF schema_start
    <2> QED
      BY <1>1, <2>1, SendKeepsOrder
  <1>3. CASE ~ send_again(m)
    <2>1. /\ xpt_opcode # NoResp /\ id_index \in Items
          /\ acked = {i \in Items : i < id_index}
          /\ xpt_opcode = "SCHM_END_RSP" <=> id_index = LastId
      BY <1>1, <1>3 DEF send_again, IInv, SchemaInv
    <2>2. id_index \in Nat
      BY <2>1, ItemsAreNat
    <2>3. acked \cup {id_index} = {i \in Items : i < id_index + 1}
      <3>1. \A i \in Items : (i < id_index + 1) <=> (i < id_index \/ i = id_index)
        BY <2>2, ItemsAreNat
      <3> QED
        BY <2>1, <3>1
    <2>4. CASE schema_fragment(m)
      <3>1. CASE m.result = "OK"
        BY <1>1, <2>2, <2>3, <2>4, <3>1, SendKeepsOrder DEF schema_fragment
      <3>2. CASE m.result # "OK"
        BY <1>1, <2>1, <2>2, <2>4, <3>2, SendKeepsOrder DEF schema_fragment
      <3> QED
        BY <3>1, <3>2
    <2>5. CASE schema_end_rejected(m)
      BY <1>1, <2>1, <2>2, <2>5, SendKeepsOrder DEF schema_end_rejected
    <2>6. CASE credentials_saved(m)
      <3>1. PICK k \in 0 .. 3 :
              /\ nvm' = saved(k)
              /\ torn' = (torn /\ k < 3)
              /\ finish(m, IF k = 3 THEN "ONLINE" ELSE "ERROR",
                        xpt_opcode, Nothing)
        BY <2>6 DEF credentials_saved
      <3>2. Nothing \in OutMsgs
        BY ItemsAssumption DEF OutMsgs, Out, Nothing, Requests
      <3>3. /\ WaitInv' /\ ShownInv'
            /\ state' = IF k = 3 THEN "ONLINE" ELSE "ERROR"
            /\ xpt_opcode' \in AnswerOpcodes \cup {NoResp}
            /\ to_on' \in BOOLEAN /\ to_xpr' \in BOOLEAN
            /\ timer' \in BOOLEAN
            /\ led' \in Periods /\ opdu' \in OutMsgs
        BY <1>1, <3>1, <3>2, FinishKeepsWait DEF States, IInv, TypeOK
      <3>4. /\ cred' = cred /\ id_index' = id_index /\ evt_index' = evt_index
            /\ acked' = acked \cup {id_index}
        BY <2>6 DEF credentials_saved, schema_end_accepted
      <3>5. nvm' \in Creds
        BY <3>1 DEF saved, IInv, TypeOK, Creds
      <3>6. TypeOK'
        BY <2>1, <3>1, <3>3, <3>4, <3>5 DEF IInv, TypeOK, States
      <3>7. CASE k = 3
        <4>1. nvm' = cred
          BY <3>1, <3>7 DEF saved, IInv, TypeOK, Creds
        <4>2. Stored(cred) /\ cred.uuid = cred.token
          BY <1>1 DEF Stored, IInv, SessionInv
        <4> QED
          BY <3>3, <3>4, <3>6, <3>7, <4>1, <4>2 DEF IInv, SchemaInv,
             SessionInv, CredentialsPaired, Stored
      <3>8. CASE k # 3
        <4>1. nvm'.devid = nvm.devid /\ torn' = torn
          BY <3>1, <3>8 DEF saved, IInv, TypeOK
        <4>2. CredentialsPaired'
          BY <1>1, <4>1 DEF IInv, SessionInv, CredentialsPaired
        <4> QED
          BY <3>3, <3>6, <3>8, <4>2 DEF IInv, SchemaInv, SessionInv
      <3> QED
        BY <3>7, <3>8
    <2> QED
      BY <1>3, <2>4, <2>5, <2>6 DEF state_schema, schema_start
  <1> QED
    BY <1>2, <1>3 DEF state_schema, schema_fragment, schema_end_rejected,
       credentials_saved, schema_end_accepted

-----------------------------------------------------------------------------
(* STATE_ONLINE                                                            *)

(* What process_cmd answers to a command is a message of the protocol.     *)
LEMMA CommandAnswered ==
    ASSUME NEW m \in Commands, NEW out \in cmd_answers(m)
    PROVE  out \in OutMsgs
  <1>1. m.id \in 0 .. (DataMax + 1) /\ 0 \in 0 .. (DataMax + 1)
    BY ItemsAssumption DEF Commands
  <1> QED
    BY <1>1 DEF Commands, cmd_answers, OutMsgs, Out, Requests

(* STATE_ONLINE: commands, pushes, expiries and permission errors          *)
(* (sm.c:259-430) keep IInv.                                               *)
LEMMA OnlineKeepsInv ==
    ASSUME IInv, running, running', NEW m \in Msgs, ~ ignored(m),
           NEW ready \in SUBSET Items, state_online(m, ready)
    PROVE  IInv'
  <1>1. state = "ONLINE" /\ UNCHANGED <<credVars, id_index, acked>>
    BY DEF state_online
  <1>2. xpt_opcode \in {"PUSH_DATA_RSP", NoResp}
    BY <1>1 DEF IInv, WaitInv, Expected
  <1>3. PICK next \in {"ONLINE", "AUTH"},
             xpt \in {"PUSH_DATA_RSP", NoResp}, out \in OutMsgs :
          /\ finish(m, next, xpt, out)
          /\ reset' \in BOOLEAN
          /\ evt_index' \in Items \cup {0}
    <2>1. Nothing \in OutMsgs
      BY ItemsAssumption DEF OutMsgs, Out, Nothing, Requests
    <2>2. reset \in BOOLEAN /\ evt_index \in Items \cup {0}
      BY DEF IInv, TypeOK
    <2>3. CASE process_cmd(m)
      BY <1>2, <2>2, <2>3, CommandAnswered DEF process_cmd
    <2>4. CASE event_send(m, ready) /\ reset' = reset
      <3>1. PICK id \in ready :
              /\ evt_index' = id
              /\ finish(m, "ONLINE", "PUSH_DATA_RSP", Out("PUSH_DATA_REQ", id))
        BY <2>4 DEF event_send
      <3>2. Out("PUSH_DATA_REQ", id) \in OutMsgs
        BY ItemsAssumption DEF OutMsgs, Out, Requests
      <3> QED
        BY <2>2, <2>4, <3>1, <3>2
    <2>5. CASE event_idle(m, ready) /\ reset' = reset
      BY <2>1, <2>2, <2>5 DEF event_idle
    <2>6. CASE event_perm_error(m) /\ reset' = reset
      BY <1>2, <2>1, <2>2, <2>6 DEF event_perm_error
    <2> QED
      BY <2>3, <2>4, <2>5, <2>6 DEF state_online, process_event
  <1>4. /\ WaitInv' /\ ShownInv' /\ state' = next
        /\ xpt_opcode' \in AnswerOpcodes \cup {NoResp}
        /\ to_on' \in BOOLEAN /\ to_xpr' \in BOOLEAN /\ timer' \in BOOLEAN
        /\ led' \in Periods /\ opdu' = out
    BY <1>1, <1>3, FinishKeepsWait DEF States, AnswerOpcodes, Expected
  <1>5. TypeOK'
    BY <1>1, <1>3, <1>4 DEF credVars, IInv, TypeOK, States
  <1> QED
    BY <1>1, <1>4, <1>5 DEF credVars, IInv, SchemaInv, SessionInv,
       CredentialsPaired

-----------------------------------------------------------------------------
(* Every call of sm_run                                                    *)

(* A call of sm_run keeps IInv, whatever the message and the items due.    *)
LEMMA RunKeepsInv ==
    ASSUME IInv, NEW m \in Msgs, NEW ready \in SUBSET Items, sm_run(m, ready)
    PROVE  IInv'
  <1>1. running /\ running' /\ ~ reset
    BY DEF sm_run
  <1>2. CASE ignore(m)
    <2>1. Nothing \in OutMsgs
      BY ItemsAssumption DEF OutMsgs, Out, Nothing, Requests
    <2> QED
      BY <1>1, <1>2, <2>1 DEF ignore, smVars, credVars, idVars, IInv, TypeOK,
         WaitInv, SchemaInv, SessionInv, ShownInv, CredentialsPaired
  <1>3. CASE handle(m, ready)
    <2>1. ~ ignored(m)
      BY <1>3 DEF handle
    <2>2. CASE state_register(m) /\ UNCHANGED reset
      BY <1>1, <2>1, <2>2, RegisterKeepsInv
    <2>3. CASE state_auth(m) /\ UNCHANGED reset
      BY <1>1, <2>1, <2>3, AuthKeepsInv
    <2>4. CASE state_schema(m) /\ UNCHANGED reset
      BY <1>1, <2>1, <2>4, SchemaKeepsInv
    <2>5. CASE state_online(m, ready)
      BY <1>1, <2>1, <2>5, OnlineKeepsInv
    <2>6. CASE /\ state = "ERROR"
               /\ finish(m, "ERROR", xpt_opcode, Nothing)
               /\ UNCHANGED <<credVars, idVars, reset>>
      <3>1. Nothing \in OutMsgs
        BY ItemsAssumption DEF OutMsgs, Out, Nothing, Requests
      <3>2. xpt_opcode \in AnswerOpcodes \cup {NoResp}
            /\ xpt_opcode \in Expected("ERROR") \cup {NoResp}
        BY <1>1, <2>6 DEF IInv, TypeOK, WaitInv
      <3>3. /\ WaitInv' /\ ShownInv' /\ state' = "ERROR"
            /\ xpt_opcode' \in AnswerOpcodes \cup {NoResp}
            /\ to_on' \in BOOLEAN /\ to_xpr' \in BOOLEAN
            /\ timer' \in BOOLEAN
            /\ led' \in Periods /\ opdu' \in OutMsgs
        BY <1>1, <2>6, <3>1, <3>2, FinishKeepsWait DEF States
      <3>4. TypeOK'
        BY <1>1, <2>6, <3>3 DEF sm_run, credVars, idVars, IInv, TypeOK, States
      <3> QED
        BY <2>6, <3>3, <3>4 DEF credVars, IInv, SchemaInv, SessionInv,
           CredentialsPaired
    <2> QED
      BY <1>3, <2>2, <2>3, <2>4, <2>5, <2>6 DEF handle
  <1> QED
    BY <1>2, <1>3 DEF sm_run

(* A reboot drops the session; what stays is the flash, and it is enough   *)
(* that its pair is whole.                                                 *)
LEMMA RebootKeepsInv ==
    ASSUME IInv, NEW flash \in Creds, reboot(flash), CredentialsPaired',
           torn' \in BOOLEAN, acked' \subseteq Items \cup {0}
    PROVE  IInv'
  <1>1. Nothing \in OutMsgs /\ NoCreds \in Creds
    BY ItemsAssumption DEF OutMsgs, Out, Nothing, Requests, Creds, NoCreds
  <1> QED
    BY <1>1 DEF reboot, IInv, TypeOK, WaitInv, SchemaInv, SessionInv,
       ShownInv, States, Periods

(* Every step keeps IInv: IInv is inductive.                               *)
LEMMA StepKeepsInv == IInv /\ [Next]_vars => IInv'
  <1> SUFFICES ASSUME IInv, [Next]_vars
               PROVE  IInv'
    OBVIOUS
  <1>0. Nothing \in OutMsgs
    BY ItemsAssumption DEF OutMsgs, Out, Nothing, Requests
  <1>1. CASE \E m \in Msgs, ready \in SUBSET Items : sm_run(m, ready)
    BY <1>1, RunKeepsInv
  <1>2. CASE timer_expired
    BY <1>2 DEF timer_expired, credVars, idVars, IInv, TypeOK, WaitInv,
       SchemaInv, SessionInv, ShownInv, CredentialsPaired
  <1>3. ASSUME NEW d \in DevIds, sm_start(d)
        PROVE  IInv'
    <2>1. d # None /\ nvm \in Creds
      BY NoneAssumption DEF IInv, TypeOK
    <2>2. /\ running' /\ ~ running /\ to_on' = FALSE /\ to_xpr' = FALSE
          /\ xpt_opcode' = NoResp /\ led' = "DISCONN" /\ opdu' = Nothing
          /\ UNCHANGED <<timer, nvm, torn, idVars, reset>>
      BY <1>3 DEF sm_start
    <2>3. CASE Stored(nvm)
      <3>1. state' = "AUTH" /\ cred' = nvm
        BY <1>3, <2>3 DEF sm_start
      <3> QED
        BY <1>0, <2>1, <2>2, <2>3, <3>1 DEF idVars, IInv, TypeOK, WaitInv,
           SchemaInv, SessionInv, ShownInv, CredentialsPaired, States,
           Periods, Stored, Expected
    <2>4. CASE ~ Stored(nvm)
      <3>1. state' = "REG" /\ cred' = [nvm EXCEPT !.devid = d]
        BY <1>3, <2>4 DEF sm_start
      <3>2. cred' \in Creds /\ cred'.devid = d
        BY <2>1, <3>1 DEF Creds
      <3>3. ~ torn => nvm.devid = None
        BY <2>1, <2>4 DEF IInv, CredentialsPaired, Stored
      <3> QED
        BY <1>0, <2>1, <2>2, <2>4, <3>1, <3>2, <3>3 DEF idVars, IInv, TypeOK,
           WaitInv, SchemaInv, SessionInv, ShownInv, CredentialsPaired,
           States, Periods, Expected
    <2> QED
      BY <2>3, <2>4
  <1>4. CASE sm_stop
    BY <1>0, <1>4 DEF sm_stop, credVars, idVars, IInv, TypeOK, WaitInv,
       SchemaInv, SessionInv, ShownInv, CredentialsPaired, Periods
  <1>5. CASE button_reset
    BY <1>5 DEF button_reset, smVars, credVars, idVars, IInv, TypeOK, WaitInv,
       SchemaInv, SessionInv, ShownInv, CredentialsPaired
  <1>6. CASE factory_reset
    <2>1. PICK k \in 0 .. 3 :
            /\ reboot(wiped(k))
            /\ torn' = (wiped(k).devid # None /\ (torn \/ k > 0))
      BY <1>6 DEF factory_reset
    <2>2. wiped(k) \in Creds
      BY DEF wiped, IInv, TypeOK, Creds
    <2>3. nvm' = wiped(k) /\ acked' = acked
      BY <1>6, <2>1 DEF factory_reset, reboot
    <2>4. torn' \in BOOLEAN /\ acked' \subseteq Items \cup {0}
      BY <2>1, <2>3 DEF IInv, TypeOK
    <2>5. CredentialsPaired'
      <3>1. CASE k = 0
        BY <2>1, <2>3, <3>1 DEF wiped, IInv, TypeOK, CredentialsPaired
      <3>2. CASE k > 0
        BY <2>1, <2>3, <3>2 DEF CredentialsPaired
      <3> QED
        BY <3>1, <3>2
    <2> QED
      BY <2>1, <2>2, <2>4, <2>5, RebootKeepsInv
  <1>7. CASE power_cut
    <2>1. /\ reboot(nvm) /\ nvm \in Creds /\ CredentialsPaired'
          /\ torn' \in BOOLEAN /\ acked' \subseteq Items \cup {0}
      BY <1>7 DEF power_cut, reboot, IInv, TypeOK, CredentialsPaired
    <2> QED
      BY <2>1, RebootKeepsInv
  <1>8. ASSUME NEW m \in Msgs, power_cut_in_save(m)
        PROVE  IInv'
    <2>1. PICK k \in 1 .. 2 : reboot(saved(k))
      BY <1>8 DEF power_cut_in_save
    <2>2. saved(k) \in Creds /\ saved(k).devid = nvm.devid
      BY DEF saved, IInv, TypeOK, Creds
    <2>3. /\ running /\ state = "SCH" /\ torn' = torn
          /\ acked' = acked \cup {id_index}
      BY <1>8 DEF power_cut_in_save, schema_end_accepted
    <2>4. CredentialsPaired'
      BY <2>1, <2>2, <2>3 DEF reboot, IInv, SessionInv, CredentialsPaired
    <2> QED
      BY <2>1, <2>2, <2>3, <2>4, RebootKeepsInv DEF IInv, TypeOK
  <1>9. CASE UNCHANGED vars
    BY <1>9 DEF vars, smVars, credVars, idVars, IInv, TypeOK, WaitInv,
       SchemaInv, SessionInv, ShownInv, CredentialsPaired
  <1> QED
    BY <1>1, <1>2, <1>3, <1>4, <1>5, <1>6, <1>7, <1>8, <1>9 DEF Next

(* The state machine keeps IInv in every behaviour.                        *)
THEOREM Invariance == Spec => []IInv
  BY InitInv, StepKeepsInv, PTL DEF Spec

-----------------------------------------------------------------------------
(* The properties                                                          *)

(* Every variable keeps its type.                                          *)
THEOREM TypeCorrect == Spec => []TypeOK
  BY Invariance, PTL DEF IInv

(* A wait always ends: its timer is armed or its expiry is recorded.       *)
THEOREM WaitsAreTimed == Spec => []WaitHasTimeout
  <1>1. IInv => WaitHasTimeout
    BY DEF IInv, WaitInv, WaitHasTimeout
  <1> QED
    BY <1>1, Invariance, PTL

(* Uuid and token in flash are a pair unless a wipe was cut off.           *)
THEOREM PairsAreStored == Spec => []CredentialsPaired
  BY Invariance, PTL DEF IInv

(* What an online thing runs with is in flash.                             *)
THEOREM OnlineSurvives == Spec => []OnlineIsDurable
  <1>1. IInv => OnlineIsDurable
    BY DEF IInv, ShownInv, SessionInv, OnlineIsDurable
  <1> QED
    BY <1>1, Invariance, PTL

(* The schema pass is in order.                                            *)
THEOREM SchemasInOrder == Spec => []SchemaInOrder
  <1>1. IInv => SchemaInOrder
    BY DEF IInv, SchemaInv, SchemaInOrder
  <1> QED
    BY <1>1, Invariance, PTL

(* New credentials reach the flash at the end of a whole schema pass: only *)
(* the two steps that save write a key that was not there.                 *)
THEOREM SavesFollowSchemas == Spec => SavedAfterSchemas
  <1> DEFINE Fresh(key) == nvm'[key] \notin {None, nvm[key]}
  <1>1. ASSUME IInv, [Next]_vars, NEW key \in DOMAIN nvm, Fresh(key)
        PROVE  acked' = Items
    <2>0. nvm \in Creds /\ key \in {"uuid", "token", "devid"}
      BY <1>1 DEF IInv, TypeOK, Creds
    <2>1. ASSUME NEW m \in Msgs, schema_end_accepted(m), state = "SCH",
                 running
          PROVE  acked' = Items
      <3>1. acked = {i \in Items : i < LastId} /\ id_index = LastId
        BY <1>1, <2>1 DEF schema_end_accepted, send_again, IInv, SchemaInv
      <3>2. acked' = acked \cup {LastId}
        BY <2>1, <3>1 DEF schema_end_accepted
      <3>3. \A i \in Items : i < LastId \/ i = LastId
        BY ItemsAreNat
      <3> QED
        BY <3>1, <3>2, <3>3, ItemsAreNat
    <2>2. ASSUME NEW m \in Msgs, NEW ready \in SUBSET Items, sm_run(m, ready)
          PROVE  acked' = Items
      <3>1. running
        BY <2>2 DEF sm_run
      <3>2. nvm' # nvm
        BY <1>1
      <3>3. state = "SCH" /\ credentials_saved(m)
        BY <2>2, <3>2 DEF sm_run, ignore, handle, state_register, state_auth,
           state_schema, state_online, register_send, register_rejected,
           register_accepted, schema_start, schema_fragment,
           schema_end_rejected, send_schema, credVars
      <3> QED
        BY <2>1, <3>1, <3>3 DEF credentials_saved
    <2>3. CASE factory_reset
      <3>1. PICK k \in 0 .. 3 : nvm' = wiped(k)
        BY <2>3 DEF factory_reset, reboot
      <3>2. \A f \in {"uuid", "token", "devid"} : nvm'[f] \in {None, nvm[f]}
        BY <2>0, <3>1 DEF wiped, Creds
      <3> QED
        BY <1>1, <2>0, <3>2
    <2>4. ASSUME NEW m \in Msgs, power_cut_in_save(m)
          PROVE  acked' = Items
      BY <2>1, <2>4 DEF power_cut_in_save
    <2>5. ASSUME nvm' = nvm
          PROVE  FALSE
      BY <1>1, <2>5
    <2> QED
      BY <1>1, <2>2, <2>3, <2>4, <2>5 DEF Next, timer_expired, sm_start,
         sm_stop, button_reset, power_cut, reboot, vars, credVars
  <1>2. IInv /\ [Next]_vars =>
          [\A key \in DOMAIN nvm : Fresh(key) => acked' = Items]_vars
    BY <1>1
  <1> QED
    BY <1>2, Invariance, PTL DEF Spec, SavedAfterSchemas

(* The handshake advances only while its timer runs.                       *)
THEOREM AdvancesInTime == Spec => AdvanceOnlyInTime
  <1> DEFINE Timely == \/ ~ (running /\ running')
                       \/ state \notin {"REG", "AUTH", "SCH"}
                       \/ state' = state
                       \/ timer /\ ~ to_xpr
  <1>1. ASSUME IInv, [Next]_vars
        PROVE  Timely
    <2> SUFFICES ASSUME running, running', state # "ONLINE", state' # state
                 PROVE  timer /\ ~ to_xpr
      OBVIOUS
    <2>1. PICK m \in Msgs, ready \in SUBSET Items : sm_run(m, ready)
      BY <1>1 DEF Next, timer_expired, sm_start, sm_stop, button_reset,
         factory_reset, power_cut, power_cut_in_save, reboot, vars, smVars
    <2>2. ~ ignored(m)
          /\ (state_register(m) \/ state_auth(m) \/ state_schema(m))
      BY <2>1 DEF sm_run, ignore, smVars, handle, state_online, finish
    <2>3. ~ send_again(m)
      BY <2>2 DEF state_register, state_auth, state_schema, register_send,
         register_rejected, register_accepted, auth_send, auth_answered,
         schema_start, schema_fragment, schema_end_rejected, send_schema,
         credentials_saved, schema_end_accepted, finish
    <2> QED
      BY <1>1, <2>2, <2>3, AnswerInTime
  <1>2. IInv /\ [Next]_vars => [Timely]_vars
    BY <1>1
  <1> QED
    BY <1>2, Invariance, PTL DEF Spec, AdvanceOnlyInTime

-----------------------------------------------------------------------------
(* The flash implements Account                                            *)

(* What the flash holds counts as one account, as none, or as broken.      *)
LEMMA HeldType ==
    ASSUME nvm \in Creds
    PROVE  /\ Held \in Regs \cup {None, Broken}
           /\ Held = None <=> nvm.devid = None
  BY NoneAssumption DEF Held, Creds

(* Writing the keys one by one (sm.c:171) takes the thing from no account  *)
(* to the new one, and whatever prefix reaches the flash never from one    *)
(* account to another.                                                     *)
LEMMA SaveTakesAccount ==
    ASSUME IInv, IInv', running, state = "SCH", NEW k \in 0 .. 3,
           nvm' = saved(k)
    PROVE  /\ Held \in {None, Broken}
           /\ Held' = Held \/ Held' \in Regs
           /\ k = 3 => Held' \in Regs
  <1>1. /\ nvm \in Creds /\ cred \in Creds /\ ~ Stored(nvm)
        /\ cred.devid # None /\ cred.uuid = cred.token /\ cred.uuid # None
    BY DEF IInv, TypeOK, SessionInv
  <1>2. Held \in {None, Broken}
    BY <1>1 DEF Held, Stored
  <1>3. CASE k = 3
    <2>1. /\ nvm'.uuid = cred.uuid /\ nvm'.token = cred.token
          /\ nvm'.devid = cred.devid
      BY <1>3 DEF saved
    <2>2. Held' = cred.uuid
      BY <1>1, <2>1 DEF Held
    <2> QED
      BY <1>1, <1>2, <2>2 DEF Creds
  <1>4. CASE k # 3
    <2>1. nvm'.devid = nvm.devid
      BY <1>4 DEF saved
    <2>2. CASE nvm.devid = None
      BY <1>2, <1>4, <2>1, <2>2 DEF Held
    <2>3. CASE nvm.devid # None
      <3>1. Held = Broken
        BY <1>1, <1>2, <2>3, HeldType, NoneAssumption
      <3>2. nvm' \in Creds
        BY DEF IInv, TypeOK
      <3>3. Held' \in Regs \cup {Broken}
        BY <2>1, <2>3, <3>2 DEF Held, Creds
      <3> QED
        BY <1>4, <3>1, <3>3
    <2> QED
      BY <2>2, <2>3
  <1> QED
    BY <1>3, <1>4

(* Every step of the machine is a step of Account or leaves it alone.      *)
LEMMA StepOfAccount ==
    ASSUME IInv, IInv', [Next]_vars
    PROVE  [A!Next]_(A!vars)
  <1> DEFINE online == running /\ state = "ONLINE"
  <1>0. /\ nvm \in Creds /\ nvm' \in Creds
        /\ online \in BOOLEAN /\ online' \in BOOLEAN
        /\ Held \in Regs \cup {None, Broken}
        /\ Held' \in Regs \cup {None, Broken}
    BY HeldType, NoneAssumption DEF IInv, TypeOK, Held, Creds
  <1>1. ASSUME Held' = Held, ~ online'
        PROVE  A!Next
    BY <1>1 DEF A!Next, A!Drop
  <1>2. ASSUME NEW k \in 0 .. 3, running, state = "SCH", nvm' = saved(k),
               ~ online' \/ k = 3
        PROVE  A!Next
    <2>1. /\ Held \in {None, Broken}
          /\ Held' = Held \/ Held' \in Regs
          /\ k = 3 => Held' \in Regs
      BY <1>2, SaveTakesAccount
    <2>2. CASE Held' \in Regs
      BY <1>0, <1>2, <2>1, <2>2 DEF A!Next, A!Register
    <2>3. CASE Held' \notin Regs
      BY <1>1, <1>2, <2>1, <2>3
    <2> QED
      BY <2>2, <2>3
  <1>3. ASSUME NEW m \in Msgs, NEW ready \in SUBSET Items, sm_run(m, ready)
        PROVE  [A!Next]_(A!vars)
    <2>1. running /\ running'
      BY <1>3 DEF sm_run
    <2>2. CASE state = "SCH" /\ credentials_saved(m)
      <3>1. PICK k \in 0 .. 3 :
              /\ nvm' = saved(k)
              /\ state' = IF k = 3 THEN "ONLINE" ELSE "ERROR"
        BY <2>2 DEF credentials_saved, finish
      <3> QED
        BY <1>2, <2>1, <2>2, <3>1
    <2>3. CASE ~ (state = "SCH" /\ credentials_saved(m))
      <3>1. nvm' = nvm
        BY <1>3, <2>3 DEF sm_run, ignore, handle, state_register,
           state_auth, state_schema, state_online, register_send,
           register_rejected, register_accepted, schema_start,
           schema_fragment, schema_end_rejected, send_schema, credVars
      <3>2. Held' = Held
        BY <3>1 DEF Held
      <3>3. CASE ~ online'
        BY <1>1, <3>2, <3>3
      <3>4. CASE online'
        <4>1. state \in {"AUTH", "ONLINE"}
          <5>1. CASE ignore(m)
            BY <3>4, <5>1 DEF ignore, smVars
          <5>2. CASE state_register(m)
            BY <3>4, <5>2 DEF state_register, register_send,
               register_rejected, register_accepted, finish
          <5>3. CASE state_schema(m)
            <6>1. PICK xpt, out : finish(m, "SCH", xpt, out)
              BY <2>3, <5>3 DEF state_schema, schema_start, schema_fragment,
                 schema_end_rejected, send_schema
            <6> QED
              BY <3>4, <6>1 DEF finish
          <5>4. CASE state = "ERROR" /\ finish(m, "ERROR", xpt_opcode, Nothing)
            BY <3>4, <5>4 DEF finish
          <5> QED
            BY <1>3, <5>1, <5>2, <5>3, <5>4 DEF sm_run, handle, state_auth,
               state_online
        <4>2. Held # None
          BY <1>0, <2>1, <4>1, HeldType DEF IInv, SessionInv, Stored
        <4> QED
          BY <2>1, <3>2, <3>4, <4>1, <4>2 DEF A!Next, A!Connect, A!vars
      <3> QED
        BY <3>3, <3>4
    <2> QED
      BY <2>2, <2>3
  <1>4. CASE factory_reset
    <2>1. PICK k \in 0 .. 3 : nvm' = wiped(k) /\ ~ running'
      BY <1>4 DEF factory_reset, reboot
    <2>2. /\ k = 0 => Held' = Held
          /\ k = 3 => Held' = None
      BY <1>0, <2>1 DEF wiped, Held, Creds
    <2>3. CASE k \in 1 .. 2
      <3>1. nvm'.uuid = None /\ nvm'.devid = nvm.devid
        BY <2>1, <2>3 DEF wiped
      <3>2. Held' = IF nvm.devid = None THEN None ELSE Broken
        BY <3>1 DEF Held
      <3> QED
        BY <1>0, <2>1, <3>2, HeldType DEF A!Next, A!Wipe, A!CutWipe
    <2>4. CASE k \in {0, 3}
      BY <1>1, <2>1, <2>2, <2>4 DEF A!Next, A!Wipe
    <2> QED
      BY <2>3, <2>4
  <1>5. ASSUME NEW m \in Msgs, power_cut_in_save(m)
        PROVE  [A!Next]_(A!vars)
    <2>1. /\ running /\ state = "SCH"
          /\ \E k \in 1 .. 2 : nvm' = saved(k)
          /\ ~ running'
      BY <1>5 DEF power_cut_in_save, reboot
    <2> QED
      BY <1>2, <2>1
  <1>6. CASE power_cut \/ \E d \in DevIds : sm_start(d)
    <2>1. nvm' = nvm /\ ~ online'
      BY <1>6 DEF power_cut, reboot, sm_start
    <2> QED
      BY <1>1, <2>1 DEF Held
  <1>7. CASE sm_stop
    BY <1>1, <1>7 DEF sm_stop, credVars, Held
  <1>8. CASE timer_expired \/ button_reset \/ UNCHANGED vars
    BY <1>8 DEF timer_expired, button_reset, vars, smVars, credVars, Held,
       A!vars
  <1> QED
    BY <1>3, <1>4, <1>5, <1>6, <1>7, <1>8 DEF Next

(* The flash keeps the account: Sm implements Account.                     *)
THEOREM AccountKept == Spec => KeepsAccount
  <1>1. Init => A!Init
    BY DEF Init, NoCreds, Held, A!Init
  <1>2. IInv /\ IInv' /\ [Next]_vars => [A!Next]_(A!vars)
    BY StepOfAccount
  <1> QED
    BY <1>1, <1>2, Invariance, PTL DEF Spec, KeepsAccount, A!Spec
=============================================================================
