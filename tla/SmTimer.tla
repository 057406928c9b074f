------------------------------- MODULE SmTimer -------------------------------
(***************************************************************************)
(* sm_run line by line against the interrupt of its response timer         *)
(* (sm.c:50-55, 512-618): the two share to_on and to_xpr with no lock.     *)
(*                                                                         *)
(* Sm takes a whole call as one step.  Here a registered thing runs the    *)
(* same call in the pieces that the interrupt can fall between, and every  *)
(* step is shown to be one of Sm's: what an expiry inside of a call leaves *)
(* is what it would have left before the call, or had it not come at all.  *)
(* The handlers touch the flags only where AUTH and ONLINE do, so those    *)
(* two states stand for all of them.                                       *)
(***************************************************************************)
EXTENDS Sm

VARIABLES
    pc,       \* where the protocol thread is
    msg,      \* the message at hand
    before    \* history: the machine as the call at hand found it

callVars == <<vars, pc, msg, before>>
kept == <<credVars, id_index, acked, reset>>

Now == [state |-> state, xpt |-> xpt_opcode, on |-> to_on, xpr |-> to_xpr,
        timer |-> timer, led |-> led, opdu |-> opdu, evt |-> evt_index]

goto(place) == pc' = place

(* UNREG_REQ ends the session elsewhere.                                   *)
Inputs == {m \in Msgs : m.type # "UNREG_REQ"}

-----------------------------------------------------------------------------
(* The head: sm.c:526-539                                                  *)

(* to_on is read, and the message compared.                                *)
call(m) ==
    /\ pc = "idle" /\ running
    /\ msg' = m
    /\ IF ignored(m)
       THEN goto("idle") /\ opdu' = Nothing /\ UNCHANGED before
       ELSE /\ goto(IF got_resp(m) THEN "stop" ELSE "run")
            /\ before' = Now
            /\ UNCHANGED opdu
    /\ UNCHANGED <<smVars, kept, evt_index, running, led>>

(* Slip: the flags are cleared before the timer is stopped.                *)
slip_flags_first ==
    /\ pc \in {"stop", "clear_on", "clear_xpr"}
    /\ CASE pc = "stop" -> goto("clear_on") /\ to_xpr' = FALSE
                           /\ UNCHANGED <<to_on, timer>>
         [] pc = "clear_on" -> goto("clear_xpr") /\ to_on' = FALSE
                               /\ UNCHANGED <<to_xpr, timer>>
         [] OTHER -> goto("run") /\ timer' = FALSE
                     /\ UNCHANGED <<to_on, to_xpr>>
    /\ UNCHANGED <<state, xpt_opcode, kept, evt_index, running, led, opdu, msg,
                   before>>

(* The answer came: k_timer_stop, then the two flags.                      *)
take_answer ==
    /\ \/ /\ pc = "stop" /\ goto("clear_on")
          /\ timer' = FALSE
          /\ UNCHANGED <<to_on, to_xpr>>
       \/ /\ pc = "clear_on" /\ goto("clear_xpr")
          /\ to_on' = FALSE
          /\ UNCHANGED <<to_xpr, timer>>
       \/ /\ pc = "clear_xpr" /\ goto("run")
          /\ to_xpr' = FALSE
          /\ UNCHANGED <<to_on, timer>>
    /\ UNCHANGED <<state, xpt_opcode, kept, evt_index, running, led, opdu, msg,
                   before>>

-----------------------------------------------------------------------------
(* The handlers, which read to_xpr                                         *)

(* The next state and wait; "state = next" at the end of the call is told  *)
(* here, as the interrupt does not look at it.                             *)
chosen(next, xpt, out) ==
    /\ state' = next
    /\ xpt_opcode' = IF next = state THEN xpt ELSE NoResp
    /\ led' = IF next = state THEN led ELSE period(next)
    /\ opdu' = out

again == xpt_opcode = NoResp \/ to_xpr

run_auth ==
    /\ state = "AUTH"
    /\ IF again
       THEN chosen("AUTH", "AUTH_RSP", Out("AUTH_REQ", 0))
       ELSE chosen(IF msg.result = "OK" THEN "ONLINE" ELSE "ERROR",
                   xpt_opcode, Nothing)
    /\ UNCHANGED evt_index

run_online ==
    /\ state = "ONLINE"
    /\ \/ /\ msg \in Commands
          /\ \E out \in cmd_answers(msg) : chosen("ONLINE", xpt_opcode, out)
          /\ UNCHANGED evt_index
       \/ /\ msg \notin Commands /\ perm_error(msg)
          /\ chosen("AUTH", xpt_opcode, Nothing)
          /\ UNCHANGED evt_index
       \/ /\ msg \notin Commands /\ ~ perm_error(msg)
          /\ \/ \E id \in Items :
                    /\ chosen("ONLINE", "PUSH_DATA_RSP", Out("PUSH_DATA_REQ", id))
                    /\ evt_index' = id
             \/ /\ chosen("ONLINE", NoResp, Nothing)
                /\ UNCHANGED evt_index

run_error ==
    /\ state = "ERROR"
    /\ chosen("ERROR", xpt_opcode, Nothing)
    /\ UNCHANGED evt_index

run_handler ==
    /\ pc = "run" /\ goto("tail")
    /\ run_auth \/ run_online \/ run_error
    /\ UNCHANGED <<to_on, to_xpr, timer, kept, running, msg, before>>

-----------------------------------------------------------------------------
(* The tail: sm.c:596-613.  A call that finds to_on set here handled a     *)
(* command, which leaves the wait alone: to_on is never set when nothing   *)
(* is waited for, and the lines that stop the timer then have no work.     *)

tail ==
    /\ pc = "tail"
    /\ goto(IF xpt_opcode # NoResp /\ ~ to_on THEN "start" ELSE "idle")
    /\ UNCHANGED <<vars, msg, before>>

start_timer ==
    /\ \/ /\ pc = "start" /\ goto("set_on")
          /\ timer' = TRUE
          /\ UNCHANGED <<to_on, to_xpr>>
       \/ /\ pc = "set_on" /\ goto("set_xpr")
          /\ to_on' = TRUE
          /\ UNCHANGED <<to_xpr, timer>>
       \/ /\ pc = "set_xpr" /\ goto("idle")
          /\ to_xpr' = FALSE
          /\ UNCHANGED <<to_on, timer>>
    /\ UNCHANGED <<state, xpt_opcode, kept, evt_index, running, led, opdu, msg,
                   before>>

-----------------------------------------------------------------------------
(* The interrupt, and the connection                                       *)

(* The timer was started in this call and runs for TIMEOUT_WIN, 3 s: the   *)
(* call returns sooner.                                                    *)
fresh == pc \in {"set_on", "set_xpr"}

(* While a command is handled, or to_on is tested for it, an expiry is one *)
(* that came before the call; while an answer is taken it is none.         *)
interrupt ==
    /\ timer /\ ~ fresh
    /\ timer' = FALSE /\ to_on' = FALSE /\ to_xpr' = TRUE
    /\ before' = IF pc \in {"run", "tail", "start"}
                 THEN [before EXCEPT !.timer = FALSE, !.on = FALSE, !.xpr = TRUE]
                 ELSE before
    /\ UNCHANGED <<state, xpt_opcode, kept, evt_index, running, led, opdu, pc, msg>>

connect ==
    /\ pc = "idle"
    /\ \E d \in DevIds : sm_start(d)
    /\ UNCHANGED <<pc, msg, before>>

(* Slip: sm_stop clears to_on and tests it then.                           *)
slip_stop_tests_late ==
    /\ pc = "idle" /\ running
    /\ to_on' = FALSE
    /\ running' = FALSE /\ led' = "DISCONN" /\ opdu' = Nothing
    /\ UNCHANGED <<state, xpt_opcode, to_xpr, timer, kept, evt_index, pc, msg, before>>

(* sm_stop tests to_on ...                                                 *)
disconnect ==
    /\ pc = "idle" /\ running
    /\ IF to_on
       THEN goto("halt") /\ UNCHANGED <<running, led, opdu>>
       ELSE goto("idle") /\ running' = FALSE /\ led' = "DISCONN" /\ opdu' = Nothing
    /\ UNCHANGED <<smVars, kept, evt_index, msg, before>>

(* ... and stops the timer.                                                *)
disconnect_stop ==
    /\ pc = "halt" /\ goto("idle")
    /\ timer' = FALSE
    /\ running' = FALSE /\ led' = "DISCONN" /\ opdu' = Nothing
    /\ UNCHANGED <<state, xpt_opcode, to_on, to_xpr, kept, evt_index, msg, before>>

-----------------------------------------------------------------------------
(* Specification                                                           *)

TimerInit ==
    /\ state = "AUTH" /\ xpt_opcode = NoResp
    /\ to_on = FALSE /\ to_xpr = FALSE /\ timer = FALSE
    /\ \E r \in Regs, d \in DevIds : cred = [uuid |-> r, token |-> r, devid |-> d]
    /\ nvm = cred
    /\ id_index = 0 /\ evt_index = 0
    /\ running = FALSE /\ reset = FALSE
    /\ led = "DISCONN" /\ opdu = Nothing
    /\ acked = {} /\ torn = FALSE
    /\ pc = "idle" /\ msg = NoMsg /\ before = Now

TimerNext ==
    \/ \E m \in Inputs : call(m)
    \/ take_answer \/ run_handler \/ tail \/ start_timer
    \/ interrupt
    \/ connect \/ disconnect \/ disconnect_stop

TimerSpec == TimerInit /\ [][TimerNext]_callVars

-----------------------------------------------------------------------------
(* Properties                                                              *)

(* Between calls a wait is one that ends: its timer runs, or the expiry    *)
(* was recorded and the next call will not be turned away by to_on.  And   *)
(* no timer runs that nobody waits for, in a session or outside of one.    *)
RestIsTimed ==
    pc = "idle" =>
        /\ running /\ xpt_opcode # NoResp => timer \/ (to_xpr /\ ~ to_on)
        /\ timer => running /\ to_on /\ xpt_opcode # NoResp

(* Wherever in it the interrupt falls, a call does what one of Sm's calls  *)
(* does in a single step, with the expiry before it or with none.          *)
M == IF pc \in {"idle", "halt"} THEN Now ELSE before

S == INSTANCE Sm WITH
        state <- M.state, xpt_opcode <- M.xpt, to_on <- M.on, to_xpr <- M.xpr,
        timer <- M.timer, led <- M.led, opdu <- M.opdu, evt_index <- M.evt

CallsAreAtomic == [][S!Next]_(S!vars)

=============================================================================
