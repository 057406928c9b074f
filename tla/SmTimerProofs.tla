---------------------------- MODULE SmTimerProofs ----------------------------
(***************************************************************************)
(* Wherever the interrupt of the response timer falls in a call of sm_run, *)
(* the call is one of Sm's: TimerIInv is an inductive invariant of SmTimer *)
(* and under it every line of the call is a step of Sm or none, through    *)
(* the mapping M.                                                          *)
(***************************************************************************)
EXTENDS SmTimer, TLAPS

Head == {"stop", "clear_on", "clear_xpr"}
Body == {"run", "tail", "start"}
Arming == {"set_on", "set_xpr"}

Snapshots ==
    [state : States, xpt : AnswerOpcodes \cup {NoResp},
     on : BOOLEAN, xpr : BOOLEAN, timer : BOOLEAN,
     led : Periods, opdu : OutMsgs, evt : Items \cup {0}]

(* Of the states of Sm a thing that is registered visits three.            *)
TimerTypeOK ==
    /\ TypeOK
    /\ state \in {"AUTH", "ONLINE", "ERROR"}
    /\ pc \in {"idle", "halt"} \cup Head \cup Body \cup Arming
    /\ msg \in Inputs
    /\ before \in Snapshots
    /\ Stored(nvm) /\ ~ reset

(* The message at hand answers the wait that the call found.               *)
answers_wait == before.on /\ msg.type = before.xpt

(* Between calls the machine is as Sm has it after each of its steps.      *)
BetweenInv ==
    /\ pc \in {"idle", "halt"} => WaitInv
    /\ pc = "halt" => running

(* The call at hand began between calls and was not turned away.           *)
CallInv ==
    pc \notin {"idle", "halt"} =>
        /\ running
        /\ before.timer = before.on
        /\ before.xpt \in Expected(before.state) \cup {NoResp}
        /\ before.on => ~ before.xpr /\ before.xpt # NoResp
        /\ before.xpt # NoResp => before.on \/ before.xpr
        /\ before.on => \/ answers_wait
                        \/ /\ before.state = "ONLINE"
                           /\ msg.type \in {"PUSH_DATA_REQ", "POLL_DATA_REQ"}

(* Until the handler chooses, the machine is as the call found it.         *)
FoundInv ==
    pc \in Head \cup {"run"} =>
        /\ state = before.state /\ xpt_opcode = before.xpt
        /\ led = before.led /\ opdu = before.opdu /\ evt_index = before.evt

(* An answer is taken in three steps, of which the first ends the race.    *)
TakeInv ==
    pc \in Head =>
        /\ answers_wait
        /\ pc # "stop" => ~ timer
        /\ pc = "clear_xpr" => ~ to_on

(* The handlers see the flags of the machine that the call found, cleared  *)
(* if the answer was taken: an expiry since then is in both.               *)
FlagInv ==
    pc \in Body =>
        /\ to_on = (before.on /\ ~ answers_wait)
        /\ to_xpr = (before.xpr /\ ~ answers_wait)
        /\ timer = (before.timer /\ ~ answers_wait)

(* What the handler chose, seen from the machine that the call found.      *)
outcome(next, xpt, out) ==
    /\ state = next
    /\ xpt_opcode = IF next = before.state THEN xpt ELSE NoResp
    /\ led = IF next = before.state THEN before.led ELSE period(next)
    /\ opdu = out

sends_again == before.xpt = NoResp \/ (before.xpr /\ ~ answers_wait)

Handled ==
    \/ /\ before.state = "AUTH" /\ sends_again
       /\ outcome("AUTH", "AUTH_RSP", Out("AUTH_REQ", 0))
       /\ evt_index = before.evt
    \/ /\ before.state = "AUTH" /\ ~ sends_again
       /\ outcome(IF msg.result = "OK" THEN "ONLINE" ELSE "ERROR",
                  before.xpt, Nothing)
       /\ evt_index = before.evt
    \/ /\ before.state = "ONLINE" /\ msg \in Commands
       /\ \E out \in cmd_answers(msg) : outcome("ONLINE", before.xpt, out)
       /\ evt_index = before.evt
    \/ /\ before.state = "ONLINE" /\ msg \notin Commands
       /\ before.xpt # NoResp /\ msg.result = "PERM"
       /\ outcome("AUTH", before.xpt, Nothing)
       /\ evt_index = before.evt
    \/ /\ before.state = "ONLINE" /\ msg \notin Commands
       /\ ~ (before.xpt # NoResp /\ msg.result = "PERM")
       /\ evt_index \in Items
       /\ outcome("ONLINE", "PUSH_DATA_RSP", Out("PUSH_DATA_REQ", evt_index))
    \/ /\ before.state = "ONLINE" /\ msg \notin Commands
       /\ ~ (before.xpt # NoResp /\ msg.result = "PERM")
       /\ outcome("ONLINE", NoResp, Nothing)
       /\ evt_index = before.evt
    \/ /\ before.state = "ERROR"
       /\ outcome("ERROR", before.xpt, Nothing)
       /\ evt_index = before.evt

HandledInv == pc \in {"tail", "start"} \cup Arming => Handled

(* The timer is started only for a wait that no timer runs for.            *)
StartInv ==
    pc \in {"start"} \cup Arming =>
        /\ xpt_opcode # NoResp
        /\ ~ (before.on /\ ~ answers_wait)
        /\ pc # "start" => timer
        /\ pc = "set_xpr" => to_on

TimerIInv ==
    /\ TimerTypeOK
    /\ BetweenInv
    /\ CallInv
    /\ FoundInv
    /\ TakeInv
    /\ FlagInv
    /\ HandledInv
    /\ StartInv

-----------------------------------------------------------------------------
(* Lemmas                                                                  *)

(* What a command is answered with is a message that can be sent.          *)
LEMMA AnswerIsMessage ==
    ASSUME NEW m \in Commands, NEW out \in cmd_answers(m)
    PROVE  out \in OutMsgs
  BY ItemsAssumption DEF cmd_answers, OutMsgs, Commands, Out, Requests

(* The requests of the handlers are messages, and items are in the pool.   *)
LEMMA RequestIsMessage ==
    /\ Out("AUTH_REQ", 0) \in OutMsgs /\ Nothing \in OutMsgs
    /\ \A id \in Items : Out("PUSH_DATA_REQ", id) \in OutMsgs
  BY ItemsAssumption DEF OutMsgs, Out, Nothing, Requests

(* A snapshot of a machine whose fields have their types.                  *)
LEMMA NowIsSnapshot == TypeOK => Now \in Snapshots
  BY DEF TypeOK, Now, Snapshots

-----------------------------------------------------------------------------
(* Each line of the call keeps the invariant                               *)

(* A registered thing that was just powered up: no call, nothing awaited.  *)
THEOREM TimerInitInv == TimerInit => TimerIInv
  <1> SUFFICES ASSUME TimerInit
               PROVE  TimerIInv
    OBVIOUS
  <1>1. TypeOK
    <2>1. cred \in Creds /\ nvm \in Creds
      BY DEF TimerInit, Creds
    <2> QED
      BY <2>1, RequestIsMessage DEF TimerInit, TypeOK, States, Periods
  <1>2. NoMsg \in Inputs
    BY DEF NoMsg, Inputs, Msgs
  <1>3. Stored(nvm)
    BY NoneAssumption DEF TimerInit, Stored
  <1>4. TimerTypeOK
    BY <1>1, <1>2, <1>3, NowIsSnapshot DEF TimerInit, TimerTypeOK
  <1>5. BetweenInv
    BY DEF TimerInit, BetweenInv, WaitInv
  <1> QED
    BY <1>4, <1>5 DEF TimerInit, TimerIInv, CallInv, FoundInv, TakeInv,
       FlagInv, HandledInv, StartInv, Head, Body, Arming

(* The head of sm_run turns a message away, or a call begins on the        *)
(* machine as it is (sm.c:512-539).                                        *)
LEMMA CallKeepsInv ==
    ASSUME TimerIInv, NEW m \in Inputs, call(m)
    PROVE  TimerIInv'
  <1> USE DEF call, goto, smVars, credVars, kept
  <1>1. pc = "idle" /\ running /\ TypeOK /\ WaitInv
    BY DEF TimerIInv, TimerTypeOK, BetweenInv
  <1>2. CASE ignored(m)
    <2>1. TimerTypeOK'
      BY <1>2, RequestIsMessage DEF TimerIInv, TimerTypeOK, TypeOK, Stored
    <2>2. BetweenInv'
      BY <1>1, <1>2 DEF BetweenInv, WaitInv
    <2> QED
      BY <1>2, <2>1, <2>2 DEF TimerIInv, CallInv, FoundInv, TakeInv, FlagInv,
         HandledInv, StartInv, Head, Body, Arming
  <1>3. CASE ~ ignored(m)
    <2>1. before' = Now /\ msg' = m /\ UNCHANGED opdu
          /\ pc' = IF got_resp(m) THEN "stop" ELSE "run"
      BY <1>3
    <2>2. TimerTypeOK'
      BY <1>1, <2>1, NowIsSnapshot DEF TimerIInv, TimerTypeOK, TypeOK, Stored,
         Head, Body
    <2>3. answers_wait' = got_resp(m)
      BY <2>1 DEF answers_wait, got_resp, Now
    <2>4. /\ before'.on = to_on /\ before'.xpr = to_xpr
          /\ before'.timer = timer /\ before'.xpt = xpt_opcode
          /\ before'.state = state /\ before'.led = led
          /\ before'.opdu = opdu /\ before'.evt = evt_index
      BY <2>1 DEF Now
    <2>5. timer = to_on
      BY <1>1 DEF WaitInv, TypeOK
    <2>6. CallInv'
      BY <1>1, <1>3, <2>1, <2>3, <2>4, <2>5 DEF CallInv, WaitInv, ignored,
         wl_opcode
    <2>7. FoundInv'
      BY <2>1, <2>4 DEF FoundInv
    <2>8. TakeInv' /\ FlagInv'
      BY <1>1, <2>1, <2>3, <2>4 DEF TakeInv, FlagInv, Head, Body, TypeOK
    <2> QED
      BY <2>1, <2>2, <2>6, <2>7, <2>8 DEF TimerIInv, BetweenInv, HandledInv,
         StartInv, Arming
  <1> QED
    BY <1>2, <1>3

(* k_timer_stop and the two flags: once the timer is stopped the interrupt *)
(* cannot come between (sm.c:526-533).                                     *)
LEMMA TakeKeepsInv ==
    ASSUME TimerIInv, take_answer
    PROVE  TimerIInv'
  <1> USE DEF take_answer, goto, credVars, kept
  <1>1. UNCHANGED answers_wait
    BY DEF answers_wait
  <1>2. pc \in Head /\ pc' \in {"clear_on", "clear_xpr", "run"} /\ answers_wait
        /\ running
    BY DEF TimerIInv, TakeInv, CallInv, Head
  <1>3. TimerTypeOK'
    BY <1>2 DEF TimerIInv, TimerTypeOK, TypeOK, Stored, Head, Body
  <1>4. CallInv'
    BY <1>1, <1>2 DEF TimerIInv, CallInv, Head
  <1>5. FoundInv'
    BY <1>2 DEF TimerIInv, FoundInv
  <1>6. TakeInv' /\ FlagInv'
    <2>1. CASE pc = "stop" \/ pc = "clear_on"
      BY <1>1, <1>2, <2>1 DEF TimerIInv, TakeInv, FlagInv, Head, Body
    <2>2. CASE pc = "clear_xpr"
      BY <1>1, <1>2, <2>2 DEF TimerIInv, TimerTypeOK, TypeOK, TakeInv, FlagInv,
         Head, Body
    <2> QED
      BY <1>2, <2>1, <2>2 DEF Head
  <1> QED
    BY <1>2, <1>3, <1>4, <1>5, <1>6 DEF TimerIInv, BetweenInv, HandledInv,
       StartInv, Arming, Head

(* The handlers choose on what they read in to_xpr, which is what the      *)
(* machine found has, with the answer taken (sm.c:541-594).                *)
LEMMA HandlerKeepsInv ==
    ASSUME TimerIInv, run_handler
    PROVE  TimerIInv'
  <1> USE DEF run_handler, goto, credVars, kept, chosen
  <1>1. pc = "run" /\ pc' = "tail" /\ running
        /\ UNCHANGED <<answers_wait, sends_again, before, msg>>
    BY DEF TimerIInv, CallInv, answers_wait, sends_again
  <1>2. /\ state = before.state /\ xpt_opcode = before.xpt
        /\ led = before.led /\ opdu = before.opdu /\ evt_index = before.evt
    BY <1>1 DEF TimerIInv, FoundInv
  <1>3. again = sends_again
    BY <1>1, <1>2 DEF TimerIInv, FlagInv, Body, again, sends_again
  <1>4. msg \in Inputs /\ TypeOK
    BY DEF TimerIInv, TimerTypeOK
  <1>5. TimerTypeOK' /\ Handled'
    <2> DEFINE Typed == /\ state' \in {"AUTH", "ONLINE", "ERROR"}
                        /\ xpt_opcode' \in AnswerOpcodes \cup {NoResp}
                        /\ led' \in Periods
                        /\ opdu' \in OutMsgs
                        /\ evt_index' \in Items \cup {0}
    <2>1. CASE run_auth
      <3>1. Typed
        BY <1>4, <2>1, RequestIsMessage DEF run_auth, TypeOK, period, Periods,
           AnswerOpcodes
      <3>2. Handled'
        BY <1>1, <1>2, <1>3, <2>1 DEF run_auth, Handled, outcome
      <3> QED
        BY <1>1, <1>4, <3>1, <3>2 DEF TimerIInv, TimerTypeOK, TypeOK, States,
           Stored, Body
    <2>2. CASE run_online
      <3>1. Typed
        BY <1>4, <2>2, RequestIsMessage, AnswerIsMessage DEF run_online,
           TypeOK, period, Periods, AnswerOpcodes
      <3>2. Handled'
        BY <1>1, <1>2, <2>2 DEF run_online, Handled, outcome, perm_error
      <3> QED
        BY <1>1, <1>4, <3>1, <3>2 DEF TimerIInv, TimerTypeOK, TypeOK, States,
           Stored, Body
    <2>3. CASE run_error
      <3>1. Typed
        BY <1>4, <2>3, RequestIsMessage DEF run_error, TypeOK
      <3>2. Handled'
        BY <1>1, <1>2, <2>3 DEF run_error, Handled, outcome
      <3> QED
        BY <1>1, <1>4, <3>1, <3>2 DEF TimerIInv, TimerTypeOK, TypeOK, States,
           Stored, Body
    <2> QED
      BY <2>1, <2>2, <2>3
  <1>6. CallInv'
    BY <1>1 DEF TimerIInv, CallInv
  <1>7. FlagInv'
    BY <1>1 DEF TimerIInv, FlagInv, Body
  <1> QED
    BY <1>1, <1>5, <1>6, <1>7 DEF TimerIInv, BetweenInv, FoundInv, TakeInv,
       HandledInv, StartInv, Head, Arming

(* A call that began under a wait and was not its answer handled a command *)
(* of a thing that is online, which leaves the wait alone: no such call    *)
(* comes to the lines that stop the timer (sm.c:595-604).                  *)
LEMMA CommandUnderWait ==
    ASSUME TimerIInv, pc \in {"tail", "start"}, before.on, ~ answers_wait
    PROVE  /\ before.state = "ONLINE" /\ msg \in Commands
           /\ \E out \in cmd_answers(msg) : outcome("ONLINE", before.xpt, out)
           /\ evt_index = before.evt
           /\ state = "ONLINE" /\ xpt_opcode = before.xpt
           /\ xpt_opcode # NoResp
  <1>1. /\ before.state = "ONLINE" /\ before.xpt # NoResp
        /\ msg.type \in {"PUSH_DATA_REQ", "POLL_DATA_REQ"}
    BY DEF TimerIInv, CallInv
  <1>2. msg \in Commands
    BY <1>1 DEF TimerIInv, TimerTypeOK, Inputs, Msgs, NoMsg, Answers,
       AnswerOpcodes, SchemaOpcodes
  <1>3. Handled
    BY DEF TimerIInv, HandledInv
  <1>4. /\ \E out \in cmd_answers(msg) : outcome("ONLINE", before.xpt, out)
        /\ evt_index = before.evt
    BY <1>1, <1>2, <1>3 DEF Handled
  <1> QED
    BY <1>1, <1>2, <1>4 DEF outcome

(* Whatever the handler chose, it waits for a response of its state.       *)
LEMMA ChosenIsExpected ==
    ASSUME TimerIInv, pc \in {"tail", "start"} \cup Arming
    PROVE  xpt_opcode \in Expected(state) \cup {NoResp}
  <1>1. Handled /\ before.xpt \in Expected(before.state) \cup {NoResp}
    BY DEF TimerIInv, HandledInv, CallInv, Arming
  <1> QED
    BY <1>1 DEF Handled, outcome, Expected

(* The tail starts the timer for a wait that has none, and only then       *)
(* (sm.c:595-613).                                                         *)
LEMMA TailKeepsInv ==
    ASSUME TimerIInv, tail
    PROVE  TimerIInv'
  <1> USE DEF tail, goto, vars, smVars, credVars, idVars
  <1>1. pc = "tail" /\ running /\ UNCHANGED <<answers_wait, sends_again>>
    BY DEF TimerIInv, CallInv, answers_wait, sends_again
  <1>2. TimerTypeOK'
    BY DEF TimerIInv, TimerTypeOK, TypeOK, Stored, Body
  <1>3. CASE xpt_opcode # NoResp /\ ~ to_on
    <2>1. pc' = "start"
      BY <1>3
    <2>2. CallInv'
      BY <1>1 DEF TimerIInv, CallInv
    <2>3. HandledInv' /\ FlagInv'
      BY <1>1 DEF TimerIInv, HandledInv, Handled, outcome, FlagInv, Body
    <2>4. StartInv'
      BY <1>1, <1>3, <2>1 DEF TimerIInv, FlagInv, StartInv, Body
    <2> QED
      BY <1>2, <2>1, <2>2, <2>3, <2>4 DEF TimerIInv, BetweenInv, FoundInv,
         TakeInv, Head
  <1>4. CASE xpt_opcode = NoResp \/ to_on
    <2>1. pc' = "idle"
      BY <1>4
    <2>2. /\ to_on = (before.on /\ ~ answers_wait)
          /\ to_xpr = (before.xpr /\ ~ answers_wait)
          /\ timer = (before.timer /\ ~ answers_wait)
      BY <1>1 DEF TimerIInv, FlagInv, Body
    <2>3. before.timer = before.on /\ (before.on => ~ before.xpr)
      BY <1>1 DEF TimerIInv, CallInv
    <2>4. to_on => xpt_opcode # NoResp
      BY <1>1, <2>2, CommandUnderWait
    <2>5. xpt_opcode \in Expected(state) \cup {NoResp}
      BY <1>1, ChosenIsExpected
    <2>6. WaitInv'
      BY <1>1, <1>4, <2>2, <2>3, <2>4, <2>5 DEF WaitInv
    <2> QED
      BY <1>2, <2>1, <2>6 DEF TimerIInv, BetweenInv, CallInv, FoundInv,
         TakeInv, FlagInv, HandledInv, StartInv, Head, Body, Arming
  <1> QED
    BY <1>3, <1>4

(* k_timer_start and the two flags (sm.c:606-613).                         *)
LEMMA StartKeepsInv ==
    ASSUME TimerIInv, start_timer
    PROVE  TimerIInv'
  <1> USE DEF start_timer, goto, credVars, kept
  <1>1. /\ pc \in {"start"} \cup Arming /\ running
        /\ UNCHANGED <<answers_wait, sends_again>>
    BY DEF TimerIInv, CallInv, answers_wait, sends_again, Arming
  <1>2. TimerTypeOK'
    BY DEF TimerIInv, TimerTypeOK, TypeOK, Stored, Arming
  <1>3. CASE pc \in {"start", "set_on"}
    <2>1. CallInv'
      BY <1>1, <1>3 DEF TimerIInv, CallInv
    <2>2. HandledInv' /\ StartInv'
      BY <1>1, <1>3 DEF TimerIInv, HandledInv, Handled, outcome, StartInv, Arming
    <2> QED
      BY <1>2, <1>3, <2>1, <2>2 DEF TimerIInv, BetweenInv, FoundInv, TakeInv,
         FlagInv, Head, Body
  <1>4. CASE pc = "set_xpr"
    <2>1. timer /\ to_on /\ xpt_opcode # NoResp
      BY <1>4 DEF TimerIInv, StartInv, Arming
    <2>2. xpt_opcode \in Expected(state) \cup {NoResp}
      BY <1>4, ChosenIsExpected DEF Arming
    <2>3. WaitInv'
      BY <1>1, <1>4, <2>1, <2>2 DEF WaitInv
    <2> QED
      BY <1>2, <1>4, <2>3 DEF TimerIInv, BetweenInv, CallInv, FoundInv,
         TakeInv, FlagInv, HandledInv, StartInv, Head, Body, Arming
  <1> QED
    BY <1>1, <1>3, <1>4 DEF Arming

(* The interrupt, between calls or at any line of one: an expiry before    *)
(* the flags are read is one that the call found (sm.c:50-55).             *)
LEMMA InterruptKeepsInv ==
    ASSUME TimerIInv, interrupt
    PROVE  TimerIInv'
  <1>1. /\ timer /\ timer' = FALSE /\ to_on' = FALSE /\ to_xpr' = TRUE
        /\ pc \notin Arming
        /\ UNCHANGED <<state, xpt_opcode, kept, evt_index, running, led, opdu,
                       pc, msg>>
        /\ before \in Snapshots
    BY DEF interrupt, fresh, Arming, TimerIInv, TimerTypeOK
  <1>2. /\ before' \in Snapshots
        /\ before'.state = before.state /\ before'.xpt = before.xpt
        /\ before'.led = before.led /\ before'.opdu = before.opdu
        /\ before'.evt = before.evt
    BY <1>1 DEF interrupt, Snapshots
  <1>3. TimerTypeOK'
    BY <1>1, <1>2 DEF TimerIInv, TimerTypeOK, TypeOK, Stored, kept, credVars
  <1>4. FoundInv'
    BY <1>1, <1>2 DEF TimerIInv, FoundInv
  <1>5. CASE pc \in {"idle", "halt"}
    <2>1. WaitInv' /\ BetweenInv'
      BY <1>1, <1>5 DEF TimerIInv, BetweenInv, WaitInv
    <2>2. CallInv' /\ TakeInv' /\ FlagInv' /\ HandledInv' /\ StartInv'
      BY <1>1, <1>5 DEF CallInv, TakeInv, FlagInv, HandledInv, StartInv, Head,
         Body, Arming
    <2> QED
      BY <1>3, <1>4, <2>1, <2>2 DEF TimerIInv
  <1>6. CASE pc \in Head
    <2>1. before' = before /\ UNCHANGED answers_wait
      BY <1>1, <1>6 DEF interrupt, Head, answers_wait
    <2>2. CallInv'
      BY <1>1, <1>6, <2>1 DEF TimerIInv, CallInv, Head
    <2>3. TakeInv'
      BY <1>1, <2>1 DEF TimerIInv, TakeInv
    <2> QED
      BY <1>1, <1>3, <1>4, <1>6, <2>2, <2>3 DEF TimerIInv, BetweenInv, FlagInv,
         HandledInv, StartInv, Head, Body, Arming
  <1>7. CASE pc \in Body
    <2>1. before.on /\ ~ answers_wait /\ running
      BY <1>1, <1>7 DEF TimerIInv, FlagInv, CallInv, Body
    <2>2. before'.on = FALSE /\ before'.timer = FALSE /\ before'.xpr = TRUE
          /\ ~ answers_wait'
      BY <1>1, <1>7 DEF interrupt, Body, Snapshots, answers_wait
    <2>3. CallInv'
      <3>1. before.xpt \in Expected(before.state) \cup {NoResp}
        BY <1>7 DEF TimerIInv, CallInv, Body
      <3> QED
        BY <1>1, <1>2, <2>1, <2>2, <3>1 DEF CallInv
    <2>4. FlagInv'
      BY <1>1, <2>2, <1>3 DEF FlagInv, TimerTypeOK, TypeOK
    <2>5. HandledInv'
      <3>1. ASSUME pc = "tail" \/ pc = "start"
            PROVE  Handled'
        BY <1>1, <1>2, <2>1, <3>1, CommandUnderWait DEF Handled, outcome
      <3> QED
        BY <1>1, <3>1 DEF HandledInv, Arming
    <2>6. pc # "start"
      BY <2>1 DEF TimerIInv, StartInv
    <2> QED
      BY <1>1, <1>3, <1>4, <1>7, <2>3, <2>4, <2>5, <2>6 DEF TimerIInv,
         BetweenInv, TakeInv, StartInv, Head, Body, Arming
  <1> QED
    BY <1>1, <1>5, <1>6, <1>7 DEF TimerIInv, TimerTypeOK

(* sm_start and sm_stop, in two pieces, between calls (sm.c:437-500).      *)
LEMMA ConnectionKeepsInv ==
    ASSUME TimerIInv, connect \/ disconnect \/ disconnect_stop
    PROVE  TimerIInv'
  <1> USE DEF goto, smVars, credVars, idVars, kept
  <1>1. pc \in {"idle", "halt"} /\ pc' \in {"idle", "halt"}
    BY DEF connect, disconnect, disconnect_stop
  <1>2. TimerTypeOK'
    <2> DEFINE Typed == /\ state' \in {"AUTH", "ONLINE", "ERROR"}
                        /\ xpt_opcode' \in AnswerOpcodes \cup {NoResp}
                        /\ to_on' \in BOOLEAN /\ to_xpr' \in BOOLEAN
                        /\ timer' \in BOOLEAN /\ running' \in BOOLEAN
                        /\ led' \in Periods /\ opdu' \in OutMsgs
                        /\ cred' \in Creds
    <2>1. TimerTypeOK
      BY DEF TimerIInv
    <2>2. UNCHANGED <<nvm, torn, idVars, reset, msg, before>>
      BY DEF connect, disconnect, disconnect_stop, sm_start, credVars
    <2>3. CASE connect
      <3>1. Typed
        BY <2>1, <2>3, RequestIsMessage DEF connect, sm_start, TimerTypeOK,
           TypeOK, Periods
      <3> QED
        BY <1>1, <2>1, <2>2, <3>1 DEF TimerTypeOK, TypeOK, Stored, States
    <2>4. CASE disconnect \/ disconnect_stop
      <3>1. Typed
        BY <2>1, <2>4, RequestIsMessage DEF disconnect, disconnect_stop,
           TimerTypeOK, TypeOK, Periods
      <3> QED
        BY <1>1, <2>1, <2>2, <3>1 DEF TimerTypeOK, TypeOK, Stored, States
    <2> QED
      BY <2>3, <2>4
  <1>3. BetweenInv'
    <2>1. CASE connect
      BY <2>1 DEF connect, sm_start, TimerIInv, TimerTypeOK, TypeOK,
         BetweenInv, WaitInv
    <2>2. CASE disconnect
      BY <2>2 DEF disconnect, TimerIInv, TimerTypeOK, TypeOK, BetweenInv, WaitInv
    <2>3. CASE disconnect_stop
      BY <2>3 DEF disconnect_stop, BetweenInv, WaitInv
    <2> QED
      BY <2>1, <2>2, <2>3
  <1> QED
    BY <1>1, <1>2, <1>3 DEF TimerIInv, CallInv, FoundInv, TakeInv, FlagInv,
       HandledInv, StartInv, Head, Body, Arming

(* Every line of the call, and everything around it, keeps TimerIInv.      *)
THEOREM TimerNextInv == TimerIInv /\ [TimerNext]_callVars => TimerIInv'
  <1> SUFFICES ASSUME TimerIInv, [TimerNext]_callVars
               PROVE  TimerIInv'
    OBVIOUS
  <1>1. CASE UNCHANGED callVars
    BY <1>1 DEF callVars, vars, smVars, credVars, idVars, TimerIInv,
       TimerTypeOK, TypeOK, Stored, BetweenInv, WaitInv, CallInv, FoundInv,
       TakeInv, FlagInv, HandledInv, Handled, outcome, sends_again, StartInv,
       answers_wait
  <1> QED
    BY <1>1, CallKeepsInv, TakeKeepsInv, HandlerKeepsInv, TailKeepsInv,
       StartKeepsInv, InterruptKeepsInv, ConnectionKeepsInv DEF TimerNext

(* TimerIInv holds throughout.                                             *)
THEOREM TimerInvariance == TimerSpec => []TimerIInv
  BY TimerInitInv, TimerNextInv, PTL DEF TimerSpec

(* Wherever the interrupt fell in the calls before: between calls a wait   *)
(* is one that ends, and no timer runs that nobody waits for.              *)
THEOREM RestTimed == TimerSpec => []RestIsTimed
  <1>1. TimerIInv => RestIsTimed
    BY DEF TimerIInv, TimerTypeOK, TypeOK, BetweenInv, WaitInv, RestIsTimed
  <1> QED
    BY <1>1, TimerInvariance, PTL

-----------------------------------------------------------------------------
(* Every line is a step of Sm or none                                      *)

(* The mapping shows the machine as it is between calls, and as the call   *)
(* found it inside of one.                                                 *)
LEMMA MapOutside ==
    pc \in {"idle", "halt"} =>
        /\ M.state = state /\ M.xpt = xpt_opcode /\ M.on = to_on
        /\ M.xpr = to_xpr /\ M.timer = timer /\ M.led = led
        /\ M.opdu = opdu /\ M.evt = evt_index
  BY DEF M, Now

(* Inside of a call, from its head to the last flag (sm.c:526-613), the    *)
(* machine shown is the one that the call found.                           *)
LEMMA MapInside == pc \notin {"idle", "halt"} => M = before
  BY DEF M

(* The messages and the answers to them are those of Sm.                   *)
LEMMA SameMessages ==
    /\ S!NoResp = NoResp /\ S!Nothing = Nothing
    /\ S!Commands = Commands /\ S!Msgs = Msgs
    /\ \A type, id : S!Out(type, id) = Out(type, id)
    /\ \A m : S!cmd_answers(m) = cmd_answers(m)
    /\ \A s : S!period(s) = period(s)
  <1>1. /\ S!NoResp = NoResp /\ S!Nothing = Nothing /\ S!Commands = Commands
        /\ \A type, id : S!Out(type, id) = Out(type, id)
    BY DEF S!NoResp, NoResp, S!Nothing, Nothing, S!Out, Out, S!Commands, Commands
  <1>2. S!Msgs = Msgs
    BY <1>1 DEF S!Msgs, Msgs, S!NoMsg, NoMsg, S!Answers, Answers,
       S!AnswerOpcodes, AnswerOpcodes, S!SchemaOpcodes, SchemaOpcodes,
       S!Results, Results
  <1>3. \A m : S!cmd_answers(m) = cmd_answers(m)
    BY <1>1 DEF S!cmd_answers, cmd_answers
  <1>4. \A s : S!period(s) = period(s)
    BY DEF S!period, period
  <1> QED
    BY <1>1, <1>2, <1>3, <1>4

(* A message that is turned away is a whole call; any other leaves the     *)
(* machine to the lines that follow.                                       *)
LEMMA CallSimulates ==
    ASSUME TimerIInv, NEW m \in Inputs, call(m)
    PROVE  S!Next \/ UNCHANGED S!vars
  <1>1. /\ pc = "idle" /\ running /\ ~ reset /\ m \in Msgs
        /\ UNCHANGED <<smVars, kept, evt_index, running, led>>
    BY DEF call, TimerIInv, TimerTypeOK, Inputs
  <1>2. CASE ignored(m)
    <2>1. pc' = "idle" /\ opdu' = Nothing
      BY <1>2 DEF call, goto
    <2>2. S!ignored(m)
      BY <1>1, <1>2, MapOutside DEF S!ignored, ignored, S!got_resp, got_resp,
         S!wl_opcode, wl_opcode
    <2>3. /\ M.state' = M.state /\ M.xpt' = M.xpt /\ M.on' = M.on
          /\ M.xpr' = M.xpr /\ M.timer' = M.timer /\ M.led' = M.led
          /\ M.evt' = M.evt /\ M.opdu' = Nothing
      BY <1>1, <2>1 DEF M, Now, smVars
    <2>4. S!ignore(m)
      BY <1>1, <2>2, <2>3, SameMessages DEF S!ignore, S!smVars, S!credVars,
         S!idVars, kept, credVars
    <2>5. S!sm_run(m, {})
      BY <1>1, <2>4 DEF S!sm_run
    <2> QED
      BY <1>1, <2>5, SameMessages DEF S!Next
  <1>3. CASE ~ ignored(m)
    <2>1. /\ pc' \in {"stop", "run"} /\ before' = Now /\ UNCHANGED opdu
      BY <1>3 DEF call, goto
    <2>2. M = Now /\ M' = Now
      BY <1>1, <2>1 DEF M
    <2> QED
      BY <1>1, <2>2 DEF S!vars, S!smVars, S!credVars, S!idVars, kept, credVars
  <1> QED
    BY <1>2, <1>3

(* When a call returns the flags are as the tail of Sm leaves them, seen   *)
(* from the machine that the call found.                                   *)
ReturnFlags ==
    LET on == before.on /\ ~ answers_wait
        armed == before.timer /\ ~ answers_wait
        late == before.xpr /\ ~ answers_wait
    IN  /\ to_on' = (xpt_opcode # NoResp)
        /\ to_xpr' = (late /\ IF xpt_opcode = NoResp THEN ~ on ELSE on)
        /\ timer' = IF xpt_opcode = NoResp THEN armed /\ ~ on ELSE on => armed

(* The two ways out of a call, with the timer started or not               *)
(* (sm.c:595-613), leave those flags and change nothing else.              *)
LEMMA ReturnSetsFlags ==
    ASSUME TimerIInv, tail \/ start_timer, pc' = "idle"
    PROVE  /\ pc \in {"tail", "set_xpr"} /\ running /\ Handled
           /\ UNCHANGED <<state, xpt_opcode, kept, evt_index, running, led, opdu>>
           /\ ReturnFlags
  <1>1. /\ pc \in {"tail", "set_xpr"}
        /\ UNCHANGED <<state, xpt_opcode, kept, evt_index, running, led, opdu>>
    BY DEF tail, start_timer, goto, vars, smVars, credVars, idVars, kept
  <1>2. /\ running /\ Handled /\ before.timer = before.on
        /\ before.on => ~ before.xpr
        /\ to_on \in BOOLEAN /\ to_xpr \in BOOLEAN /\ timer \in BOOLEAN
        /\ before.on \in BOOLEAN /\ before.xpr \in BOOLEAN
    BY <1>1 DEF TimerIInv, CallInv, HandledInv, Arming, TimerTypeOK, TypeOK,
       Snapshots
  <1>3. CASE pc = "tail"
    <2>1. /\ to_on = (before.on /\ ~ answers_wait)
          /\ to_xpr = (before.xpr /\ ~ answers_wait)
          /\ timer = (before.timer /\ ~ answers_wait)
      BY <1>3 DEF TimerIInv, FlagInv, Body
    <2>2. UNCHANGED <<to_on, to_xpr, timer>> /\ (xpt_opcode = NoResp \/ to_on)
      BY <1>3 DEF tail, start_timer, goto, vars, smVars
    <2>3. to_on => xpt_opcode # NoResp
      BY <1>3, <2>1, CommandUnderWait
    <2>4. ReturnFlags
      BY <1>2, <2>1, <2>2, <2>3 DEF ReturnFlags
    <2> QED
      BY <1>1, <1>2, <2>4
  <1>4. CASE pc = "set_xpr"
    <2>1. /\ xpt_opcode # NoResp /\ ~ (before.on /\ ~ answers_wait)
          /\ timer /\ to_on
      BY <1>4 DEF TimerIInv, StartInv, Arming
    <2>2. to_xpr' = FALSE /\ UNCHANGED <<to_on, timer>>
      BY <1>4 DEF tail, start_timer, goto
    <2>3. ReturnFlags
      BY <1>2, <2>1, <2>2 DEF ReturnFlags
    <2> QED
      BY <1>1, <1>2, <2>3
  <1> QED
    BY <1>1, <1>3, <1>4

(* With those flags an outcome of the handler is what Sm's finish leaves.  *)
LEMMA OutcomeIsFinish ==
    ASSUME pc \notin {"idle", "halt"}, pc' = "idle", ReturnFlags,
           UNCHANGED <<state, xpt_opcode, evt_index, led, opdu>>,
           NEW next, NEW xpt, NEW out, outcome(next, xpt, out)
    PROVE  S!finish(msg, next, xpt, out)
  <1>1. M = before /\ M' = Now'
    BY DEF M
  <1>2. /\ M.state' = state /\ M.xpt' = xpt_opcode /\ M.on' = to_on'
        /\ M.xpr' = to_xpr' /\ M.timer' = timer' /\ M.led' = led
        /\ M.opdu' = opdu
    BY <1>1 DEF Now
  <1>3. S!got_resp(msg) = answers_wait
    BY <1>1 DEF S!got_resp, answers_wait
  <1>4. S!expired(msg) = (before.xpr /\ ~ answers_wait)
    BY <1>1, <1>3 DEF S!expired
  <1> QED
    BY <1>1, <1>2, <1>3, <1>4, SameMessages DEF S!finish, outcome, ReturnFlags

(* So a call that returns is one call of Sm, on the message it was given   *)
(* and with the items ready that it found ready.                           *)
LEMMA ReturnSimulates ==
    ASSUME TimerIInv, tail \/ start_timer, pc' = "idle"
    PROVE  S!Next
  <1>1. /\ pc \in {"tail", "set_xpr"} /\ running /\ Handled
        /\ UNCHANGED <<state, xpt_opcode, kept, evt_index, running, led, opdu>>
        /\ ReturnFlags
    BY ReturnSetsFlags
  <1>2. M = before /\ M.evt' = evt_index
    BY <1>1 DEF M, Now
  <1>3. /\ msg \in Msgs /\ msg.type # "UNREG_REQ" /\ reset = FALSE
        /\ UNCHANGED <<cred, nvm, torn, id_index, acked, reset>>
    BY <1>1 DEF TimerIInv, TimerTypeOK, TypeOK, Inputs, kept, credVars
  <1>4. ASSUME NEW next, NEW xpt, NEW out, outcome(next, xpt, out)
        PROVE  S!finish(msg, next, xpt, out)
    BY <1>1, <1>4, OutcomeIsFinish
  <1>5. ~ S!ignored(msg)
    <2>1. before.on => \/ answers_wait
                       \/ /\ before.state = "ONLINE"
                          /\ msg.type \in {"PUSH_DATA_REQ", "POLL_DATA_REQ"}
      BY <1>1 DEF TimerIInv, CallInv
    <2> QED
      BY <1>2, <2>1 DEF S!ignored, S!got_resp, S!wl_opcode, answers_wait
  <1>6. S!send_again(msg) <=> sends_again
    BY <1>2, SameMessages DEF S!send_again, S!expired, S!got_resp, sends_again,
       answers_wait
  <1>7. S!perm_error(msg) <=> before.xpt # NoResp /\ msg.result = "PERM"
    BY <1>2, SameMessages DEF S!perm_error
  <1>8. \E ready \in SUBSET Items : S!handle(msg, ready)
    <2>1. CASE before.state = "AUTH"
      <3>1. evt_index = before.evt /\ (S!auth_send(msg) \/ S!auth_answered(msg))
        BY <1>1, <1>2, <1>4, <1>6, <2>1, SameMessages DEF Handled, S!auth_send,
           S!auth_answered
      <3>2. S!state_auth(msg)
        BY <1>2, <1>3, <2>1, <3>1 DEF S!state_auth, S!credVars, S!idVars
      <3> QED
        BY <1>3, <1>5, <3>2 DEF S!handle
    <2>2. CASE before.state = "ONLINE" /\ msg \in Commands
      <3>1. S!process_cmd(msg)
        <4>1. /\ \E out \in cmd_answers(msg) : outcome("ONLINE", before.xpt, out)
              /\ evt_index = before.evt
          BY <1>1, <2>2 DEF Handled
        <4> QED
          BY <1>2, <1>3, <1>4, <2>2, <4>1, SameMessages DEF S!process_cmd
      <3>2. S!state_online(msg, {})
        BY <1>2, <1>3, <2>2, <3>1 DEF S!state_online, S!credVars
      <3> QED
        BY <1>5, <3>2 DEF S!handle
    <2>3. CASE before.state = "ONLINE" /\ msg \notin Commands
      <3>1. \E ready \in SUBSET Items : S!process_event(msg, ready)
        <4>1. CASE S!perm_error(msg)
          <5>1. evt_index = before.evt /\ outcome("AUTH", before.xpt, Nothing)
            BY <1>1, <1>7, <2>3, <4>1 DEF Handled
          <5>2. S!event_perm_error(msg)
            BY <1>2, <1>4, <4>1, <5>1, SameMessages DEF S!event_perm_error
          <5> QED
            BY <1>3, <2>3, <5>2, SameMessages DEF S!process_event
        <4>2. CASE /\ ~ S!perm_error(msg) /\ evt_index \in Items
                   /\ outcome("ONLINE", "PUSH_DATA_RSP",
                              Out("PUSH_DATA_REQ", evt_index))
          <5>1. S!distance(evt_index) <= S!distance(evt_index)
            <6>1. \A i \in Items \cup {0} : i \in Nat
              BY ItemsAssumption
            <6>2. before.evt \in Items \cup {0} /\ LastId \in Items
              BY ItemsAssumption DEF TimerIInv, TimerTypeOK, Snapshots
            <6>3. evt_index \in Nat /\ LastId \in Nat /\ before.evt \in Nat
              BY <4>2, <6>1, <6>2
            <6> QED
              BY <1>2, <6>3 DEF S!distance
          <5>2. S!event_send(msg, {evt_index})
            BY <1>2, <1>4, <4>2, <5>1, SameMessages DEF S!event_send
          <5> QED
            BY <1>3, <2>3, <4>2, <5>2, SameMessages DEF S!process_event
        <4>3. CASE /\ ~ S!perm_error(msg) /\ evt_index = before.evt
                   /\ outcome("ONLINE", NoResp, Nothing)
          <5>1. S!event_idle(msg, {})
            BY <1>2, <1>4, <4>3, SameMessages DEF S!event_idle
          <5> QED
            BY <1>3, <2>3, <5>1, SameMessages DEF S!process_event
        <4> QED
          BY <1>1, <1>7, <2>3, <4>1, <4>2, <4>3 DEF Handled
      <3>2. \E ready \in SUBSET Items : S!state_online(msg, ready)
        BY <1>2, <1>3, <2>3, <3>1 DEF S!state_online, S!credVars
      <3> QED
        BY <1>5, <3>2 DEF S!handle
    <2>4. CASE before.state = "ERROR"
      <3>1. evt_index = before.evt /\ S!finish(msg, "ERROR", M.xpt, S!Nothing)
        BY <1>1, <1>2, <1>4, <2>4, SameMessages DEF Handled
      <3> QED
        BY <1>2, <1>3, <1>5, <2>4, <3>1 DEF S!handle, S!credVars, S!idVars
    <2> QED
      BY <1>1, <2>1, <2>2, <2>3, <2>4 DEF Handled
  <1>9. \E ready \in SUBSET Items : S!sm_run(msg, ready)
    BY <1>1, <1>3, <1>8 DEF S!sm_run
  <1> QED
    BY <1>3, <1>9, SameMessages DEF S!Next

(* The lines in the middle of a call show nothing of it.                   *)
LEMMA MiddleStutters ==
    ASSUME TimerIInv,
           \/ take_answer \/ run_handler
           \/ (tail \/ start_timer) /\ pc' # "idle"
    PROVE  UNCHANGED S!vars
  <1>1. pc \notin {"idle", "halt"} /\ pc' \notin {"idle", "halt"}
        /\ UNCHANGED <<before, kept, running>>
    BY DEF take_answer, run_handler, tail, start_timer, goto, vars, smVars,
       credVars, idVars, kept
  <1>2. M = before /\ M' = before
    BY <1>1 DEF M
  <1> QED
    BY <1>1, <1>2 DEF S!vars, S!smVars, S!credVars, S!idVars, kept, credVars

(* An expiry is Sm's, before the call that it falls in or between calls;   *)
(* while the answer is taken it is as if it had not come.                  *)
LEMMA InterruptSimulates ==
    ASSUME TimerIInv, interrupt
    PROVE  S!Next \/ UNCHANGED S!vars
  <1>1. /\ timer /\ timer' = FALSE /\ to_on' = FALSE /\ to_xpr' = TRUE
        /\ UNCHANGED <<state, xpt_opcode, cred, nvm, torn, id_index, acked,
                       reset, evt_index, running, led, opdu, pc>>
        /\ before \in Snapshots
    BY DEF interrupt, kept, credVars, TimerIInv, TimerTypeOK
  <1>2. CASE pc \in {"idle", "halt"} \cup Body
    <2>1. /\ M.timer = TRUE /\ M.timer' = FALSE /\ M.on' = FALSE /\ M.xpr' = TRUE
          /\ M.state' = M.state /\ M.xpt' = M.xpt /\ M.led' = M.led
          /\ M.opdu' = M.opdu /\ M.evt' = M.evt
      <3>1. CASE pc \in {"idle", "halt"}
        BY <1>1, <3>1 DEF M, Now, TimerIInv, TimerTypeOK, TypeOK
      <3>2. CASE pc \in Body
        <4>1. before.timer = TRUE
          BY <1>1, <3>2 DEF TimerIInv, FlagInv, Snapshots
        <4>2. M = before /\ M' = before'
          BY <1>1, <3>2 DEF M, Body
        <4> QED
          BY <1>1, <3>2, <4>1, <4>2 DEF interrupt, Body, Snapshots
      <3> QED
        BY <1>2, <3>1, <3>2
    <2>2. S!timer_expired
      BY <1>1, <2>1 DEF S!timer_expired, S!credVars, S!idVars
    <2> QED
      BY <2>2 DEF S!Next
  <1>3. CASE pc \notin {"idle", "halt"} \cup Body
    <2>1. before' = before
      BY <1>3 DEF interrupt, Body
    <2>2. M = before /\ M' = before
      BY <1>1, <1>3, <2>1 DEF M
    <2> QED
      BY <1>1, <2>2 DEF S!vars, S!smVars, S!credVars, S!idVars
  <1> QED
    BY <1>2, <1>3

(* The connection: sm_stop may find the timer expired between its test and *)
(* its k_timer_stop, and ends with the same machine.                       *)
LEMMA ConnectionSimulates ==
    ASSUME TimerIInv, connect \/ disconnect \/ disconnect_stop
    PROVE  S!Next \/ UNCHANGED S!vars
  <1>1. /\ pc \in {"idle", "halt"} /\ pc' \in {"idle", "halt"}
        /\ UNCHANGED <<nvm, torn, id_index, evt_index, acked, reset>>
        /\ ~ reset
    BY DEF connect, disconnect, disconnect_stop, goto, sm_start, credVars,
       idVars, kept, TimerIInv, TimerTypeOK
  <1>2. /\ M.state = state /\ M.xpt = xpt_opcode /\ M.on = to_on
        /\ M.xpr = to_xpr /\ M.timer = timer /\ M.led = led
        /\ M.opdu = opdu /\ M.evt = evt_index
    BY <1>1, MapOutside
  <1>3. /\ M.state' = state' /\ M.xpt' = xpt_opcode' /\ M.on' = to_on'
        /\ M.xpr' = to_xpr' /\ M.timer' = timer' /\ M.led' = led'
        /\ M.opdu' = opdu' /\ M.evt' = evt_index'
    BY <1>1 DEF M, Now
  <1>4. CASE connect
    <2>1. PICK d \in DevIds : sm_start(d)
      BY <1>4 DEF connect
    <2>2. S!sm_start(d)
      BY <1>1, <1>2, <1>3, <2>1, SameMessages DEF sm_start, S!sm_start,
         Stored, S!Stored, S!idVars
    <2> QED
      BY <2>2 DEF S!Next
  <1>5. CASE disconnect /\ to_on
    BY <1>1, <1>2, <1>3, <1>5 DEF disconnect, smVars, kept, credVars, S!vars,
       S!smVars, S!credVars, S!idVars
  <1>6. CASE disconnect /\ ~ to_on
    <2>1. timer' = timer /\ timer = FALSE
      BY <1>1, <1>6 DEF disconnect, smVars, TimerIInv, TimerTypeOK, TypeOK,
         BetweenInv, WaitInv
    <2>2. S!sm_stop
      BY <1>1, <1>2, <1>3, <1>6, <2>1, SameMessages DEF disconnect, smVars,
         kept, credVars, S!sm_stop, S!credVars, S!idVars
    <2> QED
      BY <2>2 DEF S!Next
  <1>7. CASE disconnect_stop
    <2>1. (timer /\ ~ to_on) = FALSE
      BY <1>7 DEF disconnect_stop, TimerIInv, TimerTypeOK, TypeOK, BetweenInv,
         WaitInv
    <2>2. running
      BY <1>7 DEF disconnect_stop, TimerIInv, BetweenInv
    <2>3. S!sm_stop
      BY <1>1, <1>2, <1>3, <1>7, <2>1, <2>2, SameMessages DEF disconnect_stop,
         kept, credVars, S!sm_stop, S!credVars, S!idVars
    <2> QED
      BY <2>3 DEF S!Next
  <1> QED
    BY <1>4, <1>5, <1>6, <1>7

(* The refinement: sm_run line by line, interrupted anywhere, behaves as   *)
(* the machine that Sm describes a call at a time.                         *)
THEOREM CallsRefineSm == TimerSpec => CallsAreAtomic
  <1>1. TimerIInv /\ [TimerNext]_callVars => [S!Next]_(S!vars)
    <2> SUFFICES ASSUME TimerIInv, [TimerNext]_callVars
                 PROVE  S!Next \/ UNCHANGED S!vars
      OBVIOUS
    <2>1. CASE UNCHANGED callVars
      BY <2>1 DEF callVars, vars, smVars, credVars, idVars, S!vars, S!smVars,
         S!credVars, S!idVars, M, Now
    <2>2. CASE tail \/ start_timer
      BY <2>2, ReturnSimulates, MiddleStutters
    <2> QED
      BY <2>1, <2>2, CallSimulates, MiddleStutters, InterruptSimulates,
         ConnectionSimulates DEF TimerNext
  <1> QED
    BY <1>1, TimerInvariance, PTL DEF TimerSpec, CallsAreAtomic

=============================================================================
