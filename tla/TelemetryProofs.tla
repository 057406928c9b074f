---------------------------- MODULE TelemetryProofs ----------------------------
(***************************************************************************)
(* Proofs about Telemetry: for every set of items and values, and however  *)
(* many messages are under way, an item at rest is one the cloud knows the *)
(* value of, and an answer confirms another push than its own only after a *)
(* wait has timed out or a poll was answered.                              *)
(*                                                                         *)
(* The machine of Sm is in IInv throughout (SmProofs): its steps here are  *)
(* steps of Sm, with messages that the cloud has sent.                     *)
(***************************************************************************)
EXTENDS Telemetry, SmProofs, SequenceTheorems

(* Messages the thing reads from the pipe, and those it sends.             *)
FromCloud ==
    {Answer(type, result) : type \in {"PUSH_DATA_RSP", "AUTH_RSP"},
                            result \in Results}
    \cup {Command(type, id) : type \in {"PUSH_DATA_REQ", "POLL_DATA_REQ"},
                              id \in Items}
UpMsgs == [type : {"PUSH_DATA_REQ", "PUSH_DATA_RSP", "AUTH_REQ"},
           id : Items \cup {0}, val : Values, own : BOOLEAN]
DownMsgs == [msg : FromCloud, val : Values, own : BOOLEAN]

StreamInv ==
    /\ up \in Seq(UpMsgs) /\ down \in Seq(DownMsgs)
    /\ \A i \in 1 .. Len(up) : up[i].type # "AUTH_REQ" => up[i].id \in Items

(* Nothing is under way without a connection.                              *)
SilenceInv == running = FALSE => up = << >> /\ down = << >>

(* A push is awaited for an item.                                          *)
PolledInv == xpt_opcode = "PUSH_DATA_RSP" => evt_index \in Items

(* A message of the thing that carries a value of the item.                *)
carries(u, id) == u.type # "AUTH_REQ" /\ u.id = id

(* The push that is still the latest carries the value of the item polled  *)
(* last, and nothing after it carries another: unless the item was polled  *)
(* or written by the cloud in the meantime.                                *)
OwnPushInv ==
    \A i \in 1 .. Len(up) : up[i].own = TRUE =>
        /\ up[i].type = "PUSH_DATA_REQ"
        /\ up[i].id = evt_index /\ evt_index \in Items
        /\ evt_index \notin told =>
              /\ up[i].val = value[evt_index]
              /\ \A j \in 1 .. Len(up) : i < j => ~ carries(up[j], evt_index)

(* An answer to it that accepts it: the cloud has the value, and nothing   *)
(* is under way that could replace it.                                     *)
OwnAnswerInv ==
    \A i \in 1 .. Len(down) : down[i].own = TRUE =>
        /\ down[i].msg.type = "PUSH_DATA_RSP"
        /\ evt_index \in Items
        /\ down[i].msg.result = "OK" /\ evt_index \notin told =>
              /\ value[evt_index] = known[evt_index]
              /\ \A j \in 1 .. Len(up) : ~ carries(up[j], evt_index)

asks(i) == up[i].type = "PUSH_DATA_REQ"
answers(i) == down[i].msg.type = "PUSH_DATA_RSP"

(* On an undisturbed connection no wait has expired, and one push or its   *)
(* answer is under way, if any: the one that is waited for.                *)
MatchInv ==
    disturbed = FALSE =>
        /\ to_xpr = FALSE
        /\ \A i \in 1 .. Len(up) : asks(i) =>
              /\ up[i].own = TRUE /\ xpt_opcode = "PUSH_DATA_RSP"
              /\ \A j \in 1 .. Len(up) : asks(j) => i = j
              /\ \A j \in 1 .. Len(down) : ~ answers(j)
        /\ \A i \in 1 .. Len(down) : answers(i) =>
              /\ down[i].own = TRUE /\ xpt_opcode = "PUSH_DATA_RSP"
              /\ \A j \in 1 .. Len(down) : answers(j) => i = j

LinkIInv ==
    /\ IInv /\ LinkTypeOK
    /\ StreamInv /\ SilenceInv /\ PolledInv
    /\ RestMeansKnown
    /\ OwnPushInv /\ OwnAnswerInv
    /\ MatchInv

-----------------------------------------------------------------------------
(* Messages and sequences of them                                          *)

(* Whatever the cloud sends here is a message of Sm, and is a command just *)
(* if its type says so.                                                    *)
LEMMA CloudSends ==
  /\ FromCloud \cup {NoMsg} \subseteq Msgs
  /\ \A m \in FromCloud \cup {NoMsg} :
        /\ m \in Commands => /\ m.type \in {"PUSH_DATA_REQ", "POLL_DATA_REQ"}
                             /\ m.id \in Items
        /\ m \notin Commands =>
              m.type \notin {"PUSH_DATA_REQ", "POLL_DATA_REQ"}
  /\ NoMsg \notin Commands
<1>1. (CHOOSE r \in Regs : TRUE) \in Regs
  BY RegisteredAssumption
<1>2. \A type \in {"PUSH_DATA_RSP", "AUTH_RSP"}, result \in Results :
        /\ Answer(type, result) \in Answers
        /\ Answer(type, result) \notin Commands
        /\ Answer(type, result).type = type
  BY <1>1 DEF Answer, Answers, AnswerOpcodes, Commands
<1>3. \A id \in Items : id \in 0 .. (DataMax + 1)
  BY ItemsAssumption
<1>4. \A type \in {"PUSH_DATA_REQ", "POLL_DATA_REQ"}, id \in Items :
        /\ Command(type, id) \in Commands
        /\ Command(type, id).type = type /\ Command(type, id).id = id
  BY <1>3 DEF Command, Commands
<1>5. NoMsg \notin Commands /\ NoMsg.type = "NONE"
  BY DEF NoMsg, Commands
<1> QED
  BY <1>2, <1>4, <1>5 DEF FromCloud, Msgs

(* The messages after the first k, in their order.                         *)
LEMMA RestOf ==
  ASSUME NEW S, NEW s \in Seq(S), NEW k \in Nat, k <= Len(s)
  PROVE  /\ SubSeq(s, k + 1, Len(s)) \in Seq(S)
         /\ Len(SubSeq(s, k + 1, Len(s))) = Len(s) - k
         /\ \A i \in 1 .. (Len(s) - k) :
               SubSeq(s, k + 1, Len(s))[i] = s[i + k]
<1>1. Len(s) \in Nat /\ \A i \in (k + 1) .. Len(s) : s[i] \in S
  BY LenProperties
<1>2. /\ SubSeq(s, k + 1, Len(s)) \in Seq(S)
      /\ Len(SubSeq(s, k + 1, Len(s))) =
            IF k + 1 <= Len(s) THEN Len(s) - (k + 1) + 1 ELSE 0
      /\ \A i \in 1 .. Len(s) - (k + 1) + 1 :
            SubSeq(s, k + 1, Len(s))[i] = s[k + 1 + i - 1]
  BY <1>1, SubSeqProperties
<1>3. \A i \in 1 .. (Len(s) - k) :
        SubSeq(s, k + 1, Len(s))[i] = s[i + k]
  <2> SUFFICES ASSUME NEW i \in 1 .. (Len(s) - k)
               PROVE  SubSeq(s, k + 1, Len(s))[i] = s[i + k]
    OBVIOUS
  <2>1. i \in 1 .. Len(s) - (k + 1) + 1 /\ k + 1 + i - 1 = i + k
    BY <1>1
  <2> QED
    BY <1>2, <2>1
<1>4. Len(SubSeq(s, k + 1, Len(s))) = Len(s) - k
  BY <1>1, <1>2
<1> QED
  BY <1>2, <1>3, <1>4

(* With the next push none of the messages under way is its own.           *)
LEMMA OlderUp ==
  ASSUME NEW s \in Seq(UpMsgs)
  PROVE  /\ older(s) \in Seq(UpMsgs) /\ Len(older(s)) = Len(s)
         /\ \A i \in 1 .. Len(s) :
               /\ older(s)[i].own = FALSE
               /\ older(s)[i].type = s[i].type /\ older(s)[i].id = s[i].id
               /\ older(s)[i].val = s[i].val
<1>1. Len(s) \in Nat /\ DOMAIN s = 1 .. Len(s)
  BY LenProperties
<1>2. \A i \in 1 .. Len(s) : s[i] \in UpMsgs
  BY ElementOfSeq
<1>3. \A u \in UpMsgs : /\ [u EXCEPT !.own = FALSE] \in UpMsgs
                        /\ [u EXCEPT !.own = FALSE].own = FALSE
                        /\ [u EXCEPT !.own = FALSE].type = u.type
                        /\ [u EXCEPT !.own = FALSE].id = u.id
                        /\ [u EXCEPT !.own = FALSE].val = u.val
  BY DEF UpMsgs
<1>4. older(s) = [i \in 1 .. Len(s) |-> [s[i] EXCEPT !.own = FALSE]]
  BY <1>1 DEF older
<1>5. older(s) \in [1 .. Len(s) -> UpMsgs]
  BY <1>2, <1>3, <1>4
<1>6. older(s) \in Seq(UpMsgs) /\ Len(older(s)) = Len(s)
  BY <1>1, <1>5
<1>7. \A i \in 1 .. Len(s) : older(s)[i] = [s[i] EXCEPT !.own = FALSE]
  BY <1>4
<1>8. ASSUME NEW i \in 1 .. Len(s)
      PROVE  /\ older(s)[i].own = FALSE
             /\ older(s)[i].type = s[i].type /\ older(s)[i].id = s[i].id
             /\ older(s)[i].val = s[i].val
  <2>1. PICK u \in UpMsgs : u = s[i]
    BY <1>2
  <2>2. older(s)[i] = [u EXCEPT !.own = FALSE]
    BY <1>7, <2>1
  <2> QED
    BY <1>3, <2>1, <2>2
<1> QED
  BY <1>6, <1>8

(* ... and neither is one of the answers.                                  *)
LEMMA OlderDown ==
  ASSUME NEW s \in Seq(DownMsgs)
  PROVE  /\ older(s) \in Seq(DownMsgs) /\ Len(older(s)) = Len(s)
         /\ \A i \in 1 .. Len(s) :
               /\ older(s)[i].own = FALSE
               /\ older(s)[i].msg = s[i].msg
<1>1. Len(s) \in Nat /\ DOMAIN s = 1 .. Len(s)
  BY LenProperties
<1>2. \A i \in 1 .. Len(s) : s[i] \in DownMsgs
  BY ElementOfSeq
<1>3. \A d \in DownMsgs : /\ [d EXCEPT !.own = FALSE] \in DownMsgs
                          /\ [d EXCEPT !.own = FALSE].own = FALSE
                          /\ [d EXCEPT !.own = FALSE].msg = d.msg
  BY DEF DownMsgs
<1>4. older(s) = [i \in 1 .. Len(s) |-> [s[i] EXCEPT !.own = FALSE]]
  BY <1>1 DEF older
<1>5. older(s) \in [1 .. Len(s) -> DownMsgs]
  BY <1>2, <1>3, <1>4
<1>6. older(s) \in Seq(DownMsgs) /\ Len(older(s)) = Len(s)
  BY <1>1, <1>5
<1>7. \A i \in 1 .. Len(s) : older(s)[i] = [s[i] EXCEPT !.own = FALSE]
  BY <1>4
<1> QED
  BY <1>2, <1>3, <1>6, <1>7

-----------------------------------------------------------------------------
(* What a call of sm_run does to the wait for an answer                    *)

(* A push is only awaited online: a call that finds one awaited, in time   *)
(* and unanswered, goes on to wait (sm.c:526-539).                         *)
LEMMA WaitGoesOn ==
  ASSUME IInv, NEW m \in FromCloud \cup {NoMsg}, running, ~ ignored(m),
         xpt_opcode = "PUSH_DATA_RSP", ~ to_xpr, m.type # "PUSH_DATA_RSP"
  PROVE  m \in Commands /\ state = "ONLINE"
<1>1. to_on
  BY DEF IInv, WaitInv, NoResp
<1>2. wl_opcode(m)
  BY <1>1 DEF ignored, got_resp
<1> QED
  BY <1>2, CloudSends DEF wl_opcode

(* What a call leaves of the wait, and when it may poll the next item      *)
(* (sm.c:512-618).                                                         *)
LEMMA RunEffect ==
  ASSUME IInv, NEW m \in FromCloud \cup {NoMsg},
         NEW ready_now \in SUBSET Items, sm_run(m, ready_now)
  PROVE  /\ running = TRUE /\ running' = TRUE
         /\ to_xpr = FALSE => to_xpr' = FALSE
         /\ m \notin Commands /\ opdu'.type = "PUSH_DATA_REQ" =>
               /\ opdu'.id = evt_index' /\ evt_index' \in Items
               /\ xpt_opcode' = "PUSH_DATA_RSP"
               /\ \/ to_xpr = TRUE
                  \/ xpt_opcode # "PUSH_DATA_RSP"
                  \/ m.type = "PUSH_DATA_RSP"
         /\ ~ (m \notin Commands /\ opdu'.type = "PUSH_DATA_REQ") =>
               /\ evt_index' = evt_index
               /\ xpt_opcode' = "PUSH_DATA_RSP" => xpt_opcode = "PUSH_DATA_RSP"
               /\ \/ to_xpr = TRUE
                  \/ m.type = "PUSH_DATA_RSP"
                  \/ xpt_opcode # "PUSH_DATA_RSP"
                  \/ xpt_opcode' = "PUSH_DATA_RSP"
         /\ m \in Commands /\ opdu'.type \in {"PUSH_DATA_REQ", "PUSH_DATA_RSP"}
               => state = "ONLINE"
<1>1. running = TRUE /\ running' = TRUE /\ (ignore(m) \/ handle(m, ready_now))
  BY DEF sm_run, IInv, TypeOK
<1>2. CASE ignore(m)
  <2>1. /\ opdu' = Nothing /\ evt_index' = evt_index
        /\ xpt_opcode' = xpt_opcode /\ to_xpr' = to_xpr
    BY <1>2 DEF ignore, smVars, idVars
  <2> QED
    BY <1>1, <2>1 DEF Nothing, Out
<1>3. CASE handle(m, ready_now)
  <2>0. ~ ignored(m)
    BY <1>3 DEF handle
  <2>1. to_xpr \in BOOLEAN /\ to_on \in BOOLEAN /\ timer \in BOOLEAN
        /\ evt_index \in Items \cup {0}
    BY DEF IInv, TypeOK
  <2>2. \A next, xpt, out : finish(m, next, xpt, out) =>
          /\ opdu' = out /\ state' = next
          /\ xpt_opcode' = IF next = state THEN xpt ELSE NoResp
          /\ to_xpr = FALSE => to_xpr' = FALSE
    <3> SUFFICES ASSUME NEW next, NEW xpt, NEW out, finish(m, next, xpt, out)
                 PROVE  /\ opdu' = out /\ state' = next
                        /\ xpt_opcode' = IF next = state THEN xpt ELSE NoResp
                        /\ to_xpr = FALSE => to_xpr' = FALSE
      OBVIOUS
    <3>1. /\ opdu' = out /\ state' = next
          /\ xpt_opcode' = IF next = state THEN xpt ELSE NoResp
      BY DEF finish
    <3>2. CASE to_xpr = FALSE
      BY <3>2, <2>1 DEF finish, expired
    <3> QED
      BY <3>1, <3>2
  <2>3. xpt_opcode \in Expected(state) \cup {NoResp}
    BY <1>1 DEF IInv, WaitInv
  <2>4. CASE state # "ONLINE"
    <3>1. xpt_opcode # "PUSH_DATA_RSP"
      BY <2>3, <2>4 DEF Expected, NoResp, SchemaOpcodes, IInv, TypeOK, States
    <3>2. /\ evt_index' = evt_index
          /\ \E next, out : \E xpt \in {xpt_opcode, "REG_RSP", "AUTH_RSP",
                                        "SCHM_END_RSP", "SCHM_FRAG_RSP"} :
               /\ finish(m, next, xpt, out)
               /\ out.type \notin {"PUSH_DATA_REQ", "PUSH_DATA_RSP"}
      <4>1. CASE state_register(m)
        BY <4>1 DEF state_register, register_send, register_rejected,
                    register_accepted, idVars, Out, Nothing
      <4>2. CASE state_auth(m)
        BY <4>2 DEF state_auth, auth_send, auth_answered, idVars, Out, Nothing
      <4>3. CASE state_schema(m)
        <5>1. CASE \E from : send_schema(m, from)
          BY <5>1 DEF send_schema, Out
        <5>2. CASE credentials_saved(m)
          BY <5>2 DEF credentials_saved, Out, Nothing
        <5> QED
          BY <4>3, <5>1, <5>2 DEF state_schema, schema_start, schema_fragment,
                                  schema_end_rejected
      <4>4. CASE /\ state = "ERROR"
                 /\ finish(m, "ERROR", xpt_opcode, Nothing)
                 /\ UNCHANGED <<credVars, idVars, reset>>
        BY <4>4 DEF idVars, Out, Nothing
      <4> QED
        BY <1>3, <2>4, <4>1, <4>2, <4>3, <4>4 DEF handle, state_online
    <3>3. /\ opdu'.type \notin {"PUSH_DATA_REQ", "PUSH_DATA_RSP"}
          /\ xpt_opcode' # "PUSH_DATA_RSP"
          /\ to_xpr = FALSE => to_xpr' = FALSE
      BY <2>2, <3>1, <3>2 DEF NoResp
    <3> QED
      BY <1>1, <3>1, <3>2, <3>3
  <2>5. CASE state = "ONLINE"
    <3>1. state_online(m, ready_now)
      BY <1>3, <2>5 DEF handle, state_register, state_auth, state_schema
    <3>2. xpt_opcode \in {"PUSH_DATA_RSP", NoResp}
      BY <2>3, <2>5 DEF Expected
    <3>3. \/ to_xpr = TRUE
          \/ xpt_opcode # "PUSH_DATA_RSP"
          \/ m.type = "PUSH_DATA_RSP"
          \/ m \in Commands
      BY <1>1, <2>0, <2>1, WaitGoesOn
    <3>4. CASE process_cmd(m)
      <4>1. /\ m \in Commands /\ evt_index' = evt_index
            /\ \E out : finish(m, "ONLINE", xpt_opcode, out)
        BY <3>4 DEF process_cmd
      <4>2. xpt_opcode' = xpt_opcode /\ (to_xpr = FALSE => to_xpr' = FALSE)
        BY <2>2, <2>5, <4>1
      <4> QED
        BY <1>1, <2>5, <4>1, <4>2
    <3>5. CASE m \notin Commands /\ event_send(m, ready_now)
      <4>1. PICK id \in ready_now :
              /\ evt_index' = id
              /\ finish(m, "ONLINE", "PUSH_DATA_RSP", Out("PUSH_DATA_REQ", id))
        BY <3>5 DEF event_send
      <4>2. /\ opdu' = Out("PUSH_DATA_REQ", id)
            /\ xpt_opcode' = "PUSH_DATA_RSP"
            /\ to_xpr = FALSE => to_xpr' = FALSE
        BY <2>2, <2>5, <4>1
      <4>3. opdu'.type = "PUSH_DATA_REQ" /\ opdu'.id = id
        BY <4>2 DEF Out
      <4> QED
        BY <1>1, <3>3, <3>5, <4>1, <4>2, <4>3
    <3>6. CASE m \notin Commands
               /\ (event_idle(m, ready_now) \/ event_perm_error(m))
      <4>1. PICK next \in {"ONLINE", "AUTH"}, xpt \in {NoResp, xpt_opcode} :
              /\ evt_index' = evt_index
              /\ finish(m, next, xpt, Nothing)
        BY <3>6 DEF event_idle, event_perm_error
      <4>2. /\ opdu' = Nothing
            /\ xpt_opcode' \in {NoResp, xpt_opcode}
            /\ to_xpr = FALSE => to_xpr' = FALSE
        BY <2>2, <4>1
      <4>3. opdu'.type = "NONE"
        BY <4>2 DEF Nothing, Out
      <4> QED
        BY <1>1, <3>3, <3>6, <4>1, <4>2, <4>3 DEF NoResp
    <3> QED
      BY <3>1, <3>4, <3>5, <3>6 DEF state_online, process_event
  <2> QED
    BY <2>4, <2>5
<1> QED
  BY <1>1, <1>2, <1>3

-----------------------------------------------------------------------------
(* A turn of the protocol thread                                           *)

(* The message the turn handles, and those it leaves in the pipe.          *)
at_hand(k) == IF k = 0 THEN Down(NoMsg, 0, FALSE) ELSE Head(down)
left(k) == SubSeq(down, k + 1, Len(down))

(* A push of the turn is the next item's report.                           *)
reports(m) == m \notin Commands /\ opdu'.type = "PUSH_DATA_REQ"

(* What every turn begins with: one message, or none, is handled by        *)
(* sm_run, and k messages are gone from the pipe (proto.c:44-126).         *)
LEMMA TurnReads ==
  ASSUME LinkIInv, NEW k \in 0 .. InFlight, k <= Len(down), turn(k)
  PROVE  /\ at_hand(k).msg \in FromCloud \cup {NoMsg}
         /\ at_hand(k).val \in Values /\ at_hand(k).own \in BOOLEAN
         /\ k = 0 => at_hand(k).msg = NoMsg /\ at_hand(k).own = FALSE
         /\ k # 0 => 1 \in 1 .. Len(down) /\ at_hand(k) = down[1]
         /\ left(k) \in Seq(DownMsgs) /\ Len(left(k)) = Len(down) - k
         /\ \A i \in 1 .. (Len(down) - k) : left(k)[i] = down[i + k]
         /\ sm_run(at_hand(k).msg, ready(at_hand(k).msg))
         /\ ready(at_hand(k).msg) \in SUBSET Items
<1>1. k \in Nat /\ down \in Seq(DownMsgs) /\ Len(down) \in Nat
  BY LenProperties DEF LinkIInv, StreamInv
<1>2. /\ left(k) \in Seq(DownMsgs) /\ Len(left(k)) = Len(down) - k
      /\ \A i \in 1 .. (Len(down) - k) : left(k)[i] = down[i + k]
  BY <1>1, RestOf DEF left
<1>3. k # 0 => 1 \in 1 .. Len(down) /\ at_hand(k) = down[1]
  BY <1>1 DEF at_hand
<1>4. k # 0 => at_hand(k) \in DownMsgs
  BY <1>1, <1>3, ElementOfSeq
<1>5. k = 0 => at_hand(k) = Down(NoMsg, 0, FALSE)
  BY DEF at_hand
<1>6. sm_run(at_hand(k).msg, ready(at_hand(k).msg))
  BY DEF turn, at_hand
<1>7. ready(at_hand(k).msg) \in SUBSET Items
  BY DEF ready
<1>8. CASE k = 0
  <2>1. /\ at_hand(k).msg = NoMsg /\ at_hand(k).own = FALSE
        /\ at_hand(k).val = 0
    BY <1>5, <1>8 DEF Down
  <2> QED
    BY <1>2, <1>6, <1>7, <1>8, <2>1, BoundsAssumption
<1>9. CASE k # 0
  <2>1. /\ at_hand(k).msg \in FromCloud /\ at_hand(k).own \in BOOLEAN
        /\ at_hand(k).val \in Values
    BY <1>4, <1>9 DEF DownMsgs
  <2> QED
    BY <1>2, <1>3, <1>6, <1>7, <1>9, <2>1
<1> QED
  BY <1>8, <1>9

(* How it ends: one of four ways, with the history kept.                   *)
LEMMA TurnWrites ==
  ASSUME NEW k \in 0 .. InFlight, turn(k)
  PROVE  /\ \/ turn_pushes(at_hand(k).msg, left(k))
            \/ turn_answers_poll(at_hand(k).msg, left(k))
            \/ turn_takes_write(at_hand(k).msg, at_hand(k).val, left(k))
            \/ turn_else(at_hand(k).msg, left(k))
         /\ Len(up') + Len(down') <= InFlight
         /\ recorded(at_hand(k).msg, at_hand(k).own)
         /\ known' = known /\ commands' = commands
BY DEF turn, at_hand, left

(* Only an answer to a push that is waited for confirms an item; its own   *)
(* means that the cloud has the item, and on an undisturbed connection it  *)
(* is its own (proxy.c:72, sm.c:296).                                      *)
LEMMA ConfirmsOwn ==
  ASSUME LinkIInv, NEW k \in 0 .. InFlight, k <= Len(down), turn(k),
         confirms(at_hand(k).msg)
  PROVE  /\ evt_index \in Items
         /\ at_hand(k).own = TRUE /\ evt_index \notin told =>
               /\ value[evt_index] = known[evt_index]
               /\ \A j \in 1 .. Len(up) : ~ carries(up[j], evt_index)
         /\ disturbed = FALSE => at_hand(k).own = TRUE
<1> DEFINE m == at_hand(k).msg
<1>1. /\ state = "ONLINE" /\ m \notin Commands /\ ~ ignored(m)
      /\ xpt_opcode # NoResp /\ ~ expired(m) /\ m.result = "OK"
  BY DEF confirms
<1>2. m \in FromCloud \cup {NoMsg} /\ IInv /\ running
  BY TurnReads DEF LinkIInv, sm_run
<1>3. xpt_opcode = "PUSH_DATA_RSP"
  BY <1>1, <1>2 DEF IInv, WaitInv, Expected
<1>4. evt_index \in Items
  BY <1>3 DEF LinkIInv, PolledInv
<1>5. at_hand(k).own = TRUE => 1 \in 1 .. Len(down) /\ at_hand(k) = down[1]
  BY TurnReads
<1>6. ASSUME at_hand(k).own = TRUE, evt_index \notin told
      PROVE  /\ value[evt_index] = known[evt_index]
             /\ \A j \in 1 .. Len(up) : ~ carries(up[j], evt_index)
  <2>1. 1 \in 1 .. Len(down) /\ down[1].own = TRUE /\ down[1].msg.result = "OK"
    BY <1>1, <1>5, <1>6
  <2> QED
    BY <1>6, <2>1 DEF LinkIInv, OwnAnswerInv
<1>7. ASSUME disturbed = FALSE
      PROVE  at_hand(k).own = TRUE
  <2>1. ~ to_xpr
    BY <1>7 DEF LinkIInv, MatchInv
  <2>2. m.type = "PUSH_DATA_RSP"
    <3> HIDE DEF m
    <3> QED
      BY <1>1, <1>2, <1>3, <2>1, WaitGoesOn
  <2>3. k # 0
    <3>1. k = 0 => m = NoMsg
      BY TurnReads
    <3>2. NoMsg.type # "PUSH_DATA_RSP"
      BY DEF NoMsg
    <3> QED
      BY <2>2, <3>1, <3>2
  <2>4. 1 \in 1 .. Len(down) /\ at_hand(k) = down[1]
    BY <2>3, TurnReads
  <2>5. answers(1)
    BY <2>2, <2>4 DEF answers
  <2> QED
    BY <1>7, <2>4, <2>5 DEF LinkIInv, MatchInv
<1> QED
  BY <1>4, <1>6, <1>7

(* The history of a turn: what it reports anew leaves it, and only that.   *)
LEMMA TurnHistory ==
  ASSUME LinkIInv, NEW k \in 0 .. InFlight, k <= Len(down), turn(k)
  PROVE  /\ told' \subseteq Items /\ misled' \subseteq Items
         /\ ~ reports(at_hand(k).msg) =>
               /\ told \subseteq told' /\ misled \subseteq misled'
         /\ reports(at_hand(k).msg) =>
               /\ \A id \in told : id # opdu'.id => id \in told'
               /\ \A id \in misled : id # opdu'.id => id \in misled'
               /\ opdu'.id \notin told' \cup misled'
         /\ at_hand(k).msg \in Commands /\ state = "ONLINE" =>
               at_hand(k).msg.id \in told'
         /\ confirms(at_hand(k).msg) /\ at_hand(k).own = FALSE =>
               \/ evt_index \in misled'
               \/ reports(at_hand(k).msg) /\ evt_index = opdu'.id
         /\ disturbed = FALSE => misled' \subseteq misled
<1> DEFINE m == at_hand(k).msg
           own == at_hand(k).own
           reported == IF m \in Commands /\ state = "ONLINE" THEN {m.id} ELSE {}
           pushed == IF reports(m) THEN {opdu'.id} ELSE {}
<1>1. /\ told' = (told \cup reported) \ pushed
      /\ misled' = (IF confirms(m) /\ ~ own THEN misled \cup {evt_index}
                    ELSE misled) \ pushed
  BY TurnWrites DEF recorded, reports
<1>2. own \in BOOLEAN /\ told \subseteq Items /\ misled \subseteq Items
  BY TurnReads DEF LinkIInv, LinkTypeOK
<1>3. m \in Commands => m.id \in Items
  BY TurnReads, CloudSends
<1>4. confirms(m) => evt_index \in Items
  BY ConfirmsOwn
<1>5. disturbed = FALSE /\ confirms(m) => own = TRUE
  BY ConfirmsOwn
<1>6. reports(m) => m \notin Commands
  BY DEF reports
<1> HIDE DEF m, own
<1>7. told' \subseteq Items /\ misled' \subseteq Items
  BY <1>1, <1>2, <1>3, <1>4
<1>8. ~ reports(m) => told \subseteq told' /\ misled \subseteq misled'
  BY <1>1
<1>9. reports(m) =>
        /\ \A id \in told : id # opdu'.id => id \in told'
        /\ \A id \in misled : id # opdu'.id => id \in misled'
        /\ opdu'.id \notin told' \cup misled'
  BY <1>1
<1>10. m \in Commands /\ state = "ONLINE" => m.id \in told'
  BY <1>1, <1>6
<1>11. confirms(m) /\ own = FALSE =>
         evt_index \in misled' \/ (reports(m) /\ evt_index = opdu'.id)
  BY <1>1
<1>12. disturbed = FALSE => misled' \subseteq misled
  BY <1>1, <1>2, <1>5
<1> QED
  BY <1>7, <1>8, <1>9, <1>10, <1>11, <1>12 DEF m, own

(* A message that is added comes last.                                     *)
LEMMA AddsOne ==
  ASSUME NEW S, NEW s \in Seq(S), NEW t, NEW e \in S, t = Append(s, e)
  PROVE  /\ t \in Seq(S) /\ Len(t) = Len(s) + 1
         /\ \A i \in 1 .. Len(s) : t[i] = s[i]
         /\ \A i \in 1 .. Len(t) : i > Len(s) => i = Len(t) /\ t[i] = e
<1>1. Len(s) \in Nat
  BY LenProperties
<1>2. /\ t \in Seq(S) /\ Len(t) = Len(s) + 1
      /\ \A i \in 1 .. Len(s) : t[i] = s[i]
      /\ t[Len(s) + 1] = e
  BY AppendProperties
<1>3. ASSUME NEW i \in 1 .. Len(t), i > Len(s)
      PROVE  i = Len(t) /\ t[i] = e
  <2>1. i = Len(s) + 1
    BY <1>1, <1>2, <1>3
  <2> QED
    BY <1>2, <2>1
<1> QED
  BY <1>2, <1>3

(* A turn that reports nothing anew: what it sends is about an item that   *)
(* the cloud polled or wrote, or about none (sm.c:303-394).                *)
LEMMA QuietTurn ==
  ASSUME LinkIInv, NEW k \in 0 .. InFlight, k <= Len(down), turn(k),
         ~ reports(at_hand(k).msg)
  PROVE  /\ up' \in Seq(UpMsgs) /\ Len(up') >= Len(up)
         /\ \A i \in 1 .. Len(up) : up'[i] = up[i]
         /\ \A i \in 1 .. Len(up') : i > Len(up) =>
               /\ up'[i].own = FALSE
               /\ up'[i].type # "AUTH_REQ" =>
                     up'[i].id \in Items /\ up'[i].id \in told'
               /\ up'[i].type = "PUSH_DATA_REQ" => disturbed' = TRUE
         /\ down' = left(k)
         /\ value' \in [Items -> Values] /\ target' \in [Items -> Values]
         /\ send' \in [Items -> BOOLEAN]
         /\ \A id \in Items : id \notin told' =>
               /\ value'[id] = value[id]
               /\ send'[id] = FALSE =>
                     \/ send[id] = FALSE
                     \/ confirms(at_hand(k).msg) /\ id = evt_index
         /\ disturbed' \in {disturbed, TRUE}
<1> DEFINE m == at_hand(k).msg
           v == at_hand(k).val
<1>1. m \in FromCloud \cup {NoMsg} /\ v \in Values
  BY TurnReads
<1>2. /\ value \in [Items -> Values] /\ target \in [Items -> Values]
      /\ send \in [Items -> BOOLEAN] /\ up \in Seq(UpMsgs)
  BY DEF LinkIInv, LinkTypeOK, StreamInv
<1>3. /\ m \in Commands => m.id \in Items
      /\ m.type \in {"PUSH_DATA_REQ", "POLL_DATA_REQ"} => m \in Commands
  BY <1>1, CloudSends
<1>4. m \in Commands /\ opdu'.type \in {"PUSH_DATA_REQ", "PUSH_DATA_RSP"} =>
        m.id \in told'
  <2>1. m \in Commands /\ opdu'.type \in {"PUSH_DATA_REQ", "PUSH_DATA_RSP"} =>
          state = "ONLINE"
    BY TurnReads, RunEffect DEF LinkIInv
  <2> QED
    BY <2>1, TurnHistory
<1>5. confirms(m) => m \notin Commands
  BY DEF confirms
<1>6. ~ reports(m)
  OBVIOUS
<1>7. Len(up) \in Nat
  BY <1>2, LenProperties
<1>8. \/ turn_answers_poll(m, left(k))
      \/ turn_takes_write(m, v, left(k))
      \/ turn_else(m, left(k))
  BY <1>6, TurnWrites DEF turn_pushes, reports
<1> HIDE DEF m, v
<1>9. CASE turn_answers_poll(m, left(k))
  <2>1. /\ m.type = "POLL_DATA_REQ" /\ opdu'.type = "PUSH_DATA_REQ"
        /\ value' = [value EXCEPT ![m.id] = target[m.id]]
        /\ send' = [send EXCEPT ![m.id] = FALSE]
        /\ up' = Append(up, Up("PUSH_DATA_REQ", m.id, target[m.id], FALSE))
        /\ down' = left(k) /\ disturbed' = TRUE /\ target' = target
    BY <1>9 DEF turn_answers_poll
  <2>2. m.id \in Items /\ m.id \in told'
    BY <1>3, <1>4, <2>1
  <2> DEFINE u == Up("PUSH_DATA_REQ", m.id, target[m.id], FALSE)
  <2>3. /\ u \in UpMsgs /\ u.own = FALSE /\ u.id = m.id
        /\ u.type = "PUSH_DATA_REQ"
    BY <1>2, <2>2 DEF Up, UpMsgs
  <2> HIDE DEF u
  <2>4. /\ up' \in Seq(UpMsgs) /\ Len(up') = Len(up) + 1
        /\ \A i \in 1 .. Len(up) : up'[i] = up[i]
        /\ \A i \in 1 .. Len(up') : i > Len(up) => up'[i] = u
    <3>1. up' = Append(up, u)
      BY <2>1 DEF u
    <3> QED
      BY <1>2, <2>3, <3>1, AddsOne
  <2>5. \A i \in 1 .. Len(up') : i > Len(up) =>
               /\ up'[i].own = FALSE
               /\ up'[i].type # "AUTH_REQ" =>
                     up'[i].id \in Items /\ up'[i].id \in told'
               /\ up'[i].type = "PUSH_DATA_REQ" => disturbed' = TRUE
    BY <2>1, <2>2, <2>3, <2>4
  <2>6. \A id \in Items : id \notin told' =>
          value'[id] = value[id] /\ send'[id] = send[id]
    BY <1>2, <2>1, <2>2
  <2>7. value' \in [Items -> Values] /\ send' \in [Items -> BOOLEAN]
    BY <1>2, <2>1, <2>2
  <2>8. Len(up') >= Len(up)
    BY <1>7, <2>4
  <2>9. disturbed' \in {disturbed, TRUE} /\ target' \in [Items -> Values]
    BY <1>2, <2>1, <2>7
  <2>10. \A id \in Items : id \notin told' =>
           /\ value'[id] = value[id]
           /\ send'[id] = FALSE =>
                 send[id] = FALSE \/ (confirms(at_hand(k).msg) /\ id = evt_index)
    BY <2>6
  <2>11. down' = left(k)
    BY <2>1
  <2> QED
    BY <2>4, <2>5, <2>7, <2>8, <2>9, <2>10, <2>11
<1>10. CASE turn_takes_write(m, v, left(k))
  <2>1. /\ m.type = "PUSH_DATA_REQ" /\ opdu'.type = "PUSH_DATA_RSP"
        /\ value' = [value EXCEPT ![m.id] = v]
        /\ target' = [target EXCEPT ![m.id] = v]
        /\ up' = Append(up, Up("PUSH_DATA_RSP", m.id, v, FALSE))
        /\ down' = left(k) /\ disturbed' = disturbed /\ send' = send
    BY <1>10 DEF turn_takes_write
  <2>2. m.id \in Items /\ m.id \in told'
    BY <1>3, <1>4, <2>1
  <2> DEFINE u == Up("PUSH_DATA_RSP", m.id, v, FALSE)
  <2>3. /\ u \in UpMsgs /\ u.own = FALSE /\ u.id = m.id
        /\ u.type = "PUSH_DATA_RSP"
    BY <1>1, <2>2 DEF Up, UpMsgs, m, v
  <2> HIDE DEF u
  <2>4. /\ up' \in Seq(UpMsgs) /\ Len(up') = Len(up) + 1
        /\ \A i \in 1 .. Len(up) : up'[i] = up[i]
        /\ \A i \in 1 .. Len(up') : i > Len(up) => up'[i] = u
    <3>1. up' = Append(up, u)
      BY <2>1 DEF u
    <3> QED
      BY <1>2, <2>3, <3>1, AddsOne
  <2>5. \A i \in 1 .. Len(up') : i > Len(up) =>
               /\ up'[i].own = FALSE
               /\ up'[i].type # "AUTH_REQ" =>
                     up'[i].id \in Items /\ up'[i].id \in told'
               /\ up'[i].type = "PUSH_DATA_REQ" => disturbed' = TRUE
    BY <2>1, <2>2, <2>3, <2>4
  <2>6. \A id \in Items : id \notin told' =>
          value'[id] = value[id] /\ send'[id] = send[id]
    BY <1>2, <2>1, <2>2
  <2>7. value' \in [Items -> Values] /\ target' \in [Items -> Values]
        /\ send' \in [Items -> BOOLEAN]
    BY <1>1, <1>2, <2>1, <2>2 DEF v
  <2>8. Len(up') >= Len(up)
    BY <1>7, <2>4
  <2>9. disturbed' \in {disturbed, TRUE} /\ target' \in [Items -> Values]
    BY <1>2, <2>1, <2>7
  <2>10. \A id \in Items : id \notin told' =>
           /\ value'[id] = value[id]
           /\ send'[id] = FALSE =>
                 send[id] = FALSE \/ (confirms(at_hand(k).msg) /\ id = evt_index)
    BY <2>6
  <2>11. down' = left(k)
    BY <2>1
  <2> QED
    BY <2>4, <2>5, <2>7, <2>8, <2>9, <2>10, <2>11
<1>11. CASE turn_else(m, left(k))
  <2>1. /\ send' = marks(m) /\ down' = left(k)
        /\ up' \in {up, Append(up, Up("AUTH_REQ", 0, 0, FALSE))}
        /\ value' = value /\ target' = target /\ disturbed' = disturbed
    BY <1>11 DEF turn_else
  <2> DEFINE u == Up("AUTH_REQ", 0, 0, FALSE)
  <2>2. /\ u \in UpMsgs /\ u.own = FALSE /\ u.type = "AUTH_REQ"
    BY BoundsAssumption DEF Up, UpMsgs
  <2> HIDE DEF u
  <2>3. /\ up' \in Seq(UpMsgs) /\ Len(up') >= Len(up)
        /\ \A i \in 1 .. Len(up) : up'[i] = up[i]
        /\ \A i \in 1 .. Len(up') : i > Len(up) => up'[i] = u
    <3>1. CASE up' = up
      BY <1>2, <1>7, <3>1
    <3>2. CASE up' = Append(up, u)
      BY <1>2, <1>7, <2>2, <3>2, AddsOne
    <3> QED
      BY <2>1, <3>1, <3>2 DEF u
  <2>4. \A i \in 1 .. Len(up') : i > Len(up) =>
               /\ up'[i].own = FALSE /\ up'[i].type = "AUTH_REQ"
    BY <2>2, <2>3
  <2>5. /\ send' \in [Items -> BOOLEAN]
        /\ \A id \in Items : send'[id] = FALSE =>
              send[id] = FALSE \/ (confirms(m) /\ id = evt_index)
    <3>1. CASE confirms(m)
      <4>1. send' = [send EXCEPT ![evt_index] = FALSE]
        BY <2>1, <3>1 DEF marks
      <4> QED
        BY <1>2, <3>1, <4>1
    <3>2. CASE ~ confirms(m)
      BY <1>2, <2>1, <3>2 DEF marks
    <3> QED
      BY <3>1, <3>2
  <2> QED
    BY <1>2, <2>1, <2>3, <2>4, <2>5 DEF m
<1> QED
  BY <1>8, <1>9, <1>10, <1>11

(* A turn that reports the next item: its push comes last and is the only  *)
(* one that is its own from now on (sm.c:259-301).                         *)
LEMMA PushTurn ==
  ASSUME LinkIInv, NEW k \in 0 .. InFlight, k <= Len(down), turn(k),
         reports(at_hand(k).msg)
  PROVE  /\ opdu'.id \in Items /\ opdu'.id = evt_index'
         /\ up' \in Seq(UpMsgs) /\ Len(up') = Len(up) + 1
         /\ \A i \in 1 .. Len(up) :
               /\ up'[i].own = FALSE
               /\ up'[i].type = up[i].type /\ up'[i].id = up[i].id
         /\ \A i \in 1 .. Len(up') : i > Len(up) =>
               /\ i = Len(up') /\ up'[i].own = TRUE
               /\ up'[i].type = "PUSH_DATA_REQ" /\ up'[i].id = opdu'.id
               /\ up'[i].val = value'[opdu'.id]
         /\ down' \in Seq(DownMsgs) /\ Len(down') = Len(down) - k
         /\ \A i \in 1 .. Len(down') :
               down'[i].own = FALSE /\ down'[i].msg = down[i + k].msg
         /\ value' \in [Items -> Values] /\ target' = target
         /\ send' \in [Items -> BOOLEAN] /\ send'[opdu'.id] = TRUE
         /\ \A id \in Items : id # opdu'.id =>
               /\ value'[id] = value[id]
               /\ send'[id] = FALSE =>
                     \/ send[id] = FALSE
                     \/ confirms(at_hand(k).msg) /\ id = evt_index
         /\ disturbed' = disturbed
<1> DEFINE m == at_hand(k).msg
           new == opdu'.id
           u == Up("PUSH_DATA_REQ", new, target[new], TRUE)
<1>1. m \notin Commands /\ opdu'.type = "PUSH_DATA_REQ"
  BY DEF reports
<1>2. /\ value \in [Items -> Values] /\ target \in [Items -> Values]
      /\ send \in [Items -> BOOLEAN] /\ up \in Seq(UpMsgs)
  BY DEF LinkIInv, LinkTypeOK, StreamInv
<1>3. m \in FromCloud \cup {NoMsg} /\ ready(m) \in SUBSET Items
      /\ sm_run(m, ready(m)) /\ IInv
  BY TurnReads DEF LinkIInv
<1>4. new = evt_index' /\ new \in Items
  <2> HIDE DEF m
  <2> QED
    BY <1>1, <1>3, RunEffect
<1>5. turn_pushes(m, left(k))
  <2>1. m.type \in {"PUSH_DATA_REQ", "POLL_DATA_REQ"} => m \in Commands
    BY <1>3, CloudSends
  <2> QED
    BY <1>1, <2>1, TurnWrites DEF turn_answers_poll, turn_takes_write, turn_else
<1>6. /\ value' = [value EXCEPT ![new] = target[new]]
      /\ send' = [marks(m) EXCEPT ![new] = TRUE]
      /\ up' = Append(older(up), u)
      /\ down' = older(left(k))
      /\ target' = target /\ disturbed' = disturbed
  BY <1>5 DEF turn_pushes
<1>7. /\ u \in UpMsgs /\ u.own = TRUE /\ u.type = "PUSH_DATA_REQ"
      /\ u.id = new /\ u.val = target[new]
  BY <1>2, <1>4 DEF Up, UpMsgs
<1>8. value'[new] = target[new] /\ value' \in [Items -> Values]
      /\ \A id \in Items : id # new => value'[id] = value[id]
  BY <1>2, <1>4, <1>6
<1> HIDE DEF u, new
<1>9. older(up) \in Seq(UpMsgs) /\ Len(older(up)) = Len(up)
      /\ \A i \in 1 .. Len(up) :
            /\ older(up)[i].own = FALSE
            /\ older(up)[i].type = up[i].type /\ older(up)[i].id = up[i].id
  BY <1>2, OlderUp
<1>10. /\ up' \in Seq(UpMsgs) /\ Len(up') = Len(up) + 1
       /\ \A i \in 1 .. Len(up) : up'[i] = older(up)[i]
       /\ \A i \in 1 .. Len(up') : i > Len(up) => i = Len(up') /\ up'[i] = u
  BY <1>6, <1>7, <1>9, AddsOne
<1>11. /\ \A i \in 1 .. Len(up) :
             /\ up'[i].own = FALSE
             /\ up'[i].type = up[i].type /\ up'[i].id = up[i].id
       /\ \A i \in 1 .. Len(up') : i > Len(up) =>
             /\ i = Len(up') /\ up'[i].own = TRUE
             /\ up'[i].type = "PUSH_DATA_REQ" /\ up'[i].id = new
             /\ up'[i].val = value'[new]
  BY <1>7, <1>8, <1>9, <1>10
<1>12. /\ down' \in Seq(DownMsgs) /\ Len(down') = Len(down) - k
       /\ \A i \in 1 .. Len(down') :
             down'[i].own = FALSE /\ down'[i].msg = down[i + k].msg
  <2>1. left(k) \in Seq(DownMsgs) /\ Len(left(k)) = Len(down) - k
        /\ \A i \in 1 .. (Len(down) - k) : left(k)[i] = down[i + k]
    BY TurnReads
  <2>2. down' \in Seq(DownMsgs) /\ Len(down') = Len(left(k))
        /\ \A i \in 1 .. Len(left(k)) :
              down'[i].own = FALSE /\ down'[i].msg = left(k)[i].msg
    BY <1>6, <2>1, OlderDown
  <2> QED
    BY <2>1, <2>2
<1>13. /\ send' \in [Items -> BOOLEAN] /\ send'[new] = TRUE
       /\ \A id \in Items : id # new /\ send'[id] = FALSE =>
             send[id] = FALSE \/ (confirms(m) /\ id = evt_index)
  <2>1. /\ marks(m) \in [Items -> BOOLEAN]
        /\ \A id \in Items : marks(m)[id] = FALSE =>
              send[id] = FALSE \/ (confirms(m) /\ id = evt_index)
    <3>1. CASE confirms(m)
      BY <1>2, <3>1 DEF marks
    <3>2. CASE ~ confirms(m)
      BY <1>2, <3>2 DEF marks
    <3> QED
      BY <3>1, <3>2
  <2> HIDE DEF m
  <2> QED
    BY <1>4, <1>6, <2>1
<1> QED
  BY <1>4, <1>6, <1>8, <1>10, <1>11, <1>12, <1>13 DEF new

(* The rest of an item survives a turn: what confirms it is its own answer *)
(* or counts as misled (proxy.c:72).                                       *)
LEMMA TurnKeepsRest ==
  ASSUME LinkIInv, NEW k \in 0 .. InFlight, k <= Len(down), turn(k)
  PROVE  RestMeansKnown'
<1> DEFINE m == at_hand(k).msg
<1>1. /\ up \in Seq(UpMsgs) /\ Len(up) \in Nat /\ RestMeansKnown
      /\ send \in [Items -> BOOLEAN] /\ known' = known
  BY LenProperties, TurnWrites DEF LinkIInv, LinkTypeOK, StreamInv
<1>2. at_hand(k).own \in BOOLEAN /\ send' \in [Items -> BOOLEAN]
  BY TurnReads, QuietTurn, PushTurn
<1>3. Len(up') \in Nat
  <2>1. up' \in Seq(UpMsgs)
    BY QuietTurn, PushTurn
  <2> QED
    BY <2>1, LenProperties
<1> SUFFICES ASSUME NEW id \in Items, id \notin told' \cup misled',
                    send'[id] = FALSE
             PROVE  /\ value'[id] = known'[id]
                    /\ \A i \in 1 .. Len(up') :
                          up'[i].type # "AUTH_REQ" => up'[i].id # id
  BY <1>2 DEF RestMeansKnown
<1>4. /\ ~ reports(m) \/ id # opdu'.id
      /\ id \notin told /\ id \notin misled
      /\ value'[id] = value[id]
      /\ send[id] = FALSE \/ (confirms(m) /\ id = evt_index)
  <2>1. CASE ~ reports(m)
    BY <2>1, QuietTurn, TurnHistory
  <2>2. CASE reports(m)
    BY <2>2, PushTurn, TurnHistory
  <2> QED
    BY <2>1, <2>2
<1>5. /\ value[id] = known[id]
      /\ \A i \in 1 .. Len(up) : up[i].type # "AUTH_REQ" => up[i].id # id
  <2>1. CASE send[id] = FALSE
    BY <1>1, <1>4, <2>1 DEF RestMeansKnown
  <2>2. CASE confirms(m) /\ id = evt_index
    <3>1. at_hand(k).own = TRUE
      BY <1>2, <1>4, <2>2, TurnHistory
    <3> QED
      BY <1>4, <2>2, <3>1, ConfirmsOwn DEF carries
  <2> QED
    BY <1>4, <2>1, <2>2
<1>6. ASSUME NEW i \in 1 .. Len(up'), up'[i].type # "AUTH_REQ", up'[i].id = id
      PROVE  FALSE
  <2>1. i > Len(up) \/ i \in 1 .. Len(up)
    BY <1>1, <1>3
  <2>2. CASE ~ reports(m)
    BY <1>5, <1>6, <2>1, <2>2, QuietTurn
  <2>3. CASE reports(m)
    BY <1>4, <1>5, <1>6, <2>1, <2>3, PushTurn
  <2> QED
    BY <2>2, <2>3
<1> QED
  BY <1>1, <1>4, <1>5, <1>6

(* What is its own stays its own in a turn that reports nothing anew, and  *)
(* gives way to the new push in one that does (sm.c:259-301).              *)
LEMMA TurnKeepsOwn ==
  ASSUME LinkIInv, NEW k \in 0 .. InFlight, k <= Len(down), turn(k)
  PROVE  OwnPushInv' /\ OwnAnswerInv'
<1> DEFINE m == at_hand(k).msg
<1>1. /\ up \in Seq(UpMsgs) /\ Len(up) \in Nat /\ known' = known
      /\ down \in Seq(DownMsgs) /\ Len(down) \in Nat /\ k \in Nat
      /\ OwnPushInv /\ OwnAnswerInv
  BY LenProperties, TurnWrites DEF LinkIInv, StreamInv
<1>2. Len(up') \in Nat
  <2>1. up' \in Seq(UpMsgs)
    BY QuietTurn, PushTurn
  <2> QED
    BY <2>1, LenProperties
<1>3. CASE reports(m)
  <2>1. OwnAnswerInv'
    BY <1>3, PushTurn DEF OwnAnswerInv
  <2>2. OwnPushInv'
    <3> SUFFICES ASSUME NEW i \in 1 .. Len(up'), up'[i].own = TRUE
                 PROVE  /\ up'[i].type = "PUSH_DATA_REQ"
                        /\ up'[i].id = evt_index' /\ evt_index' \in Items
                        /\ up'[i].val = value'[evt_index']
                        /\ \A j \in 1 .. Len(up') :
                              i < j => ~ carries(up'[j], evt_index')
      BY DEF OwnPushInv, carries
    <3>1. i > Len(up)
      <4>1. i > Len(up) \/ i \in 1 .. Len(up)
        BY <1>1, <1>2
      <4> QED
        BY <1>3, <4>1, PushTurn
    <3>2. /\ i = Len(up') /\ up'[i].type = "PUSH_DATA_REQ"
          /\ up'[i].id = opdu'.id /\ up'[i].val = value'[opdu'.id]
          /\ opdu'.id \in Items /\ opdu'.id = evt_index'
      BY <1>3, <3>1, PushTurn
    <3> QED
      BY <1>2, <3>2
  <2> QED
    BY <2>1, <2>2
<1>4. CASE ~ reports(m)
  <2>1. evt_index' = evt_index
    <3>1. m \in FromCloud \cup {NoMsg} /\ ready(m) \in SUBSET Items
          /\ sm_run(m, ready(m)) /\ IInv
      BY TurnReads DEF LinkIInv
    <3> HIDE DEF m
    <3> QED
      BY <1>4, <3>1, RunEffect DEF reports
  <2>2. /\ evt_index \in Items /\ evt_index \notin told' =>
              evt_index \notin told /\ value'[evt_index] = value[evt_index]
    BY <1>4, QuietTurn, TurnHistory
  <2>3. ASSUME NEW j \in 1 .. Len(up'), evt_index \in Items,
               evt_index \notin told', carries(up'[j], evt_index)
        PROVE  j \in 1 .. Len(up) /\ carries(up[j], evt_index)
    <3>1. j > Len(up) \/ j \in 1 .. Len(up)
      BY <1>1, <1>2
    <3>2. CASE j > Len(up)
      BY <1>4, <2>3, <3>2, QuietTurn DEF carries
    <3>3. CASE j \in 1 .. Len(up)
      BY <1>4, <2>3, <3>3, QuietTurn
    <3> QED
      BY <3>1, <3>2, <3>3
  <2>4. OwnPushInv'
    <3> SUFFICES ASSUME NEW i \in 1 .. Len(up'), up'[i].own = TRUE
                 PROVE  /\ up'[i].type = "PUSH_DATA_REQ"
                        /\ up'[i].id = evt_index /\ evt_index \in Items
                        /\ evt_index \notin told' =>
                              /\ up'[i].val = value'[evt_index]
                              /\ \A j \in 1 .. Len(up') :
                                    i < j => ~ carries(up'[j], evt_index)
      BY <2>1 DEF OwnPushInv, carries
    <3>1. i \in 1 .. Len(up)
      <4>1. i > Len(up) \/ i \in 1 .. Len(up)
        BY <1>1, <1>2
      <4> QED
        BY <1>4, <4>1, QuietTurn
    <3>2. up'[i] = up[i]
      BY <1>4, <3>1, QuietTurn
    <3>3. /\ up[i].type = "PUSH_DATA_REQ"
          /\ up[i].id = evt_index /\ evt_index \in Items
          /\ evt_index \notin told =>
                /\ up[i].val = value[evt_index]
                /\ \A j \in 1 .. Len(up) :
                      i < j => ~ carries(up[j], evt_index)
      BY <1>1, <3>1, <3>2 DEF OwnPushInv
    <3> QED
      BY <2>2, <2>3, <3>2, <3>3
  <2>5. OwnAnswerInv'
    <3>1. /\ down' = left(k) /\ Len(left(k)) = Len(down) - k
          /\ \A i \in 1 .. (Len(down) - k) : left(k)[i] = down[i + k]
      BY <1>4, QuietTurn, TurnReads
    <3> SUFFICES ASSUME NEW i \in 1 .. Len(down'), down'[i].own = TRUE
                 PROVE  /\ down'[i].msg.type = "PUSH_DATA_RSP"
                        /\ evt_index \in Items
                        /\ down'[i].msg.result = "OK"
                           /\ evt_index \notin told' =>
                              /\ value'[evt_index] = known[evt_index]
                              /\ \A j \in 1 .. Len(up') :
                                    ~ carries(up'[j], evt_index)
      BY <1>1, <2>1 DEF OwnAnswerInv, carries
    <3>2. i + k \in 1 .. Len(down) /\ down'[i] = down[i + k]
      BY <1>1, <3>1
    <3>3. /\ down'[i].msg.type = "PUSH_DATA_RSP"
          /\ evt_index \in Items
          /\ down'[i].msg.result = "OK" /\ evt_index \notin told =>
                /\ value[evt_index] = known[evt_index]
                /\ \A j \in 1 .. Len(up) : ~ carries(up[j], evt_index)
      BY <1>1, <3>2 DEF OwnAnswerInv
    <3> QED
      BY <2>2, <2>3, <3>3
  <2> QED
    BY <2>4, <2>5
<1> QED
  BY <1>3, <1>4

(* As long as nothing disturbs the connection, a turn sends a push only    *)
(* when the one before it is answered, and that answer is the message it   *)
(* handles (sm.c:526-539).                                                 *)
LEMMA TurnKeepsMatch ==
  ASSUME LinkIInv, NEW k \in 0 .. InFlight, k <= Len(down), turn(k)
  PROVE  MatchInv'
<1> DEFINE m == at_hand(k).msg
<1> SUFFICES ASSUME disturbed' = FALSE
             PROVE  /\ to_xpr' = FALSE
                    /\ \A i \in 1 .. Len(up') : up'[i].type = "PUSH_DATA_REQ" =>
                          /\ up'[i].own = TRUE
                          /\ xpt_opcode' = "PUSH_DATA_RSP"
                          /\ \A j \in 1 .. Len(up') :
                                up'[j].type = "PUSH_DATA_REQ" => i = j
                          /\ \A j \in 1 .. Len(down') :
                                down'[j].msg.type # "PUSH_DATA_RSP"
                    /\ \A i \in 1 .. Len(down') :
                          down'[i].msg.type = "PUSH_DATA_RSP" =>
                             /\ down'[i].own = TRUE
                             /\ xpt_opcode' = "PUSH_DATA_RSP"
                             /\ \A j \in 1 .. Len(down') :
                                   down'[j].msg.type = "PUSH_DATA_RSP" => i = j
  BY DEF MatchInv, asks, answers
<1>1. /\ up \in Seq(UpMsgs) /\ Len(up) \in Nat
      /\ down \in Seq(DownMsgs) /\ Len(down) \in Nat /\ k \in Nat
  BY LenProperties DEF LinkIInv, StreamInv
<1>2. disturbed = FALSE
  BY QuietTurn, PushTurn
<1>3. /\ to_xpr = FALSE
      /\ \A i \in 1 .. Len(up) : up[i].type = "PUSH_DATA_REQ" =>
            /\ up[i].own = TRUE /\ xpt_opcode = "PUSH_DATA_RSP"
            /\ \A j \in 1 .. Len(up) : up[j].type = "PUSH_DATA_REQ" => i = j
            /\ \A j \in 1 .. Len(down) : down[j].msg.type # "PUSH_DATA_RSP"
      /\ \A i \in 1 .. Len(down) : down[i].msg.type = "PUSH_DATA_RSP" =>
            /\ down[i].own = TRUE /\ xpt_opcode = "PUSH_DATA_RSP"
            /\ \A j \in 1 .. Len(down) :
                  down[j].msg.type = "PUSH_DATA_RSP" => i = j
  BY <1>2 DEF LinkIInv, MatchInv, asks, answers
<1>4. /\ m \in FromCloud \cup {NoMsg} /\ ready(m) \in SUBSET Items
      /\ sm_run(m, ready(m)) /\ IInv
  BY TurnReads DEF LinkIInv
<1>5. m.type = "PUSH_DATA_RSP" =>
        k # 0 /\ 1 \in 1 .. Len(down) /\ down[1].msg.type = "PUSH_DATA_RSP"
  <2>1. NoMsg.type # "PUSH_DATA_RSP"
    BY DEF NoMsg
  <2> QED
    BY <2>1, TurnReads
<1>6. ASSUME NEW i \in 1 .. (Len(down) - k)
      PROVE  /\ i + k \in 1 .. Len(down)
             /\ m.type = "PUSH_DATA_RSP" =>
                   down[i + k].msg.type # "PUSH_DATA_RSP"
  <2>1. i + k \in 1 .. Len(down) /\ (k # 0 => i + k # 1)
    BY <1>1
  <2> HIDE DEF m
  <2> QED
    BY <1>3, <1>5, <2>1
<1>7. CASE reports(m)
  <2>1. /\ xpt_opcode' = "PUSH_DATA_RSP" /\ to_xpr' = FALSE
        /\ xpt_opcode # "PUSH_DATA_RSP" \/ m.type = "PUSH_DATA_RSP"
    <3> HIDE DEF m
    <3> QED
      BY <1>3, <1>4, <1>7, RunEffect DEF reports
  <2>2. \A i \in 1 .. Len(up) : up[i].type # "PUSH_DATA_REQ"
    <3> HIDE DEF m
    <3> QED
      BY <1>3, <1>5, <2>1
  <2>3. \A i \in 1 .. (Len(down) - k) :
          down[i + k].msg.type # "PUSH_DATA_RSP"
    <3> HIDE DEF m
    <3> QED
      BY <1>3, <1>6, <2>1
  <2>4. Len(up') \in Nat
    <3>1. up' \in Seq(UpMsgs)
      BY <1>7, PushTurn
    <3> QED
      BY <3>1, LenProperties
  <2>5. ASSUME NEW i \in 1 .. Len(down')
        PROVE  down'[i].msg.type # "PUSH_DATA_RSP"
    <3>1. /\ Len(down') = Len(down) - k /\ down'[i].msg = down[i + k].msg
      BY <1>7, PushTurn
    <3> QED
      BY <2>3, <3>1
  <2>6. ASSUME NEW i \in 1 .. Len(up'), up'[i].type = "PUSH_DATA_REQ"
        PROVE  i = Len(up') /\ up'[i].own = TRUE
    <3>1. i > Len(up) \/ i \in 1 .. Len(up)
      BY <1>1, <2>4
    <3>2. i \notin 1 .. Len(up)
      BY <1>7, <2>2, <2>6, PushTurn
    <3> QED
      BY <1>7, <3>1, <3>2, PushTurn
  <2> QED
    BY <2>1, <2>5, <2>6
<1>8. CASE ~ reports(m)
  <2>1. /\ to_xpr' = FALSE
        /\ \/ m.type = "PUSH_DATA_RSP"
           \/ xpt_opcode # "PUSH_DATA_RSP"
           \/ xpt_opcode' = "PUSH_DATA_RSP"
    <3> HIDE DEF m
    <3> QED
      BY <1>3, <1>4, <1>8, RunEffect DEF reports
  <2>2. /\ down' = left(k) /\ Len(left(k)) = Len(down) - k
        /\ \A i \in 1 .. (Len(down) - k) : left(k)[i] = down[i + k]
    BY <1>8, QuietTurn, TurnReads
  <2>3. ASSUME NEW i \in 1 .. Len(down'),
               down'[i].msg.type = "PUSH_DATA_RSP"
        PROVE  /\ i \in 1 .. (Len(down) - k) /\ i + k \in 1 .. Len(down)
               /\ down'[i] = down[i + k]
               /\ xpt_opcode' = "PUSH_DATA_RSP"
    <3>1. i \in 1 .. (Len(down) - k) /\ down'[i] = down[i + k]
      BY <2>2
    <3>2. i + k \in 1 .. Len(down) /\ m.type # "PUSH_DATA_RSP"
      BY <1>6, <2>3, <3>1
    <3> QED
      BY <1>3, <2>1, <2>3, <3>1, <3>2
  <2>4. ASSUME NEW i \in 1 .. Len(up'), up'[i].type = "PUSH_DATA_REQ"
        PROVE  /\ i \in 1 .. Len(up) /\ up'[i] = up[i]
               /\ xpt_opcode' = "PUSH_DATA_RSP"
    <3>1. Len(up') \in Nat
      <4>1. up' \in Seq(UpMsgs)
        BY <1>8, QuietTurn
      <4> QED
        BY <4>1, LenProperties
    <3>2. i > Len(up) \/ i \in 1 .. Len(up)
      BY <1>1, <3>1
    <3>3. i \in 1 .. Len(up) /\ up'[i] = up[i]
      BY <1>8, <2>4, <3>2, QuietTurn
    <3>4. m.type # "PUSH_DATA_RSP" /\ xpt_opcode = "PUSH_DATA_RSP"
      <4> HIDE DEF m
      <4> QED
        BY <1>3, <1>5, <2>4, <3>3
    <3> QED
      BY <2>1, <3>3, <3>4
  <2>5. ASSUME NEW i \in 1 .. Len(up'), up'[i].type = "PUSH_DATA_REQ"
        PROVE  /\ up'[i].own = TRUE
               /\ \A j \in 1 .. Len(up') :
                     up'[j].type = "PUSH_DATA_REQ" => i = j
               /\ \A j \in 1 .. Len(down') :
                     down'[j].msg.type # "PUSH_DATA_RSP"
    <3>1. i \in 1 .. Len(up) /\ up'[i] = up[i]
      BY <2>4, <2>5
    <3>2. /\ up[i].own = TRUE
          /\ \A j \in 1 .. Len(up) : up[j].type = "PUSH_DATA_REQ" => i = j
          /\ \A j \in 1 .. Len(down) : down[j].msg.type # "PUSH_DATA_RSP"
      BY <1>3, <2>5, <3>1
    <3> QED
      BY <2>3, <2>4, <3>1, <3>2
  <2>6. ASSUME NEW i \in 1 .. Len(down'),
               down'[i].msg.type = "PUSH_DATA_RSP"
        PROVE  /\ down'[i].own = TRUE
               /\ \A j \in 1 .. Len(down') :
                     down'[j].msg.type = "PUSH_DATA_RSP" => i = j
    <3>1. i + k \in 1 .. Len(down) /\ down'[i] = down[i + k]
      BY <2>3, <2>6
    <3>2. /\ down[i + k].own = TRUE
          /\ \A j \in 1 .. Len(down) :
                down[j].msg.type = "PUSH_DATA_RSP" => i + k = j
      BY <1>3, <2>6, <3>1
    <3>3. ASSUME NEW j \in 1 .. Len(down'),
                 down'[j].msg.type = "PUSH_DATA_RSP"
          PROVE  i = j
      <4>1. j + k \in 1 .. Len(down) /\ down'[j] = down[j + k]
        BY <2>3, <3>3
      <4>2. i + k = j + k /\ i \in Int /\ j \in Int
        BY <3>2, <3>3, <4>1
      <4> QED
        BY <1>1, <4>2
    <3> QED
      BY <3>1, <3>2, <3>3
  <2> QED
    BY <2>1, <2>3, <2>4, <2>5, <2>6
<1> QED
  BY <1>7, <1>8

(* A turn of the protocol thread keeps the invariant.                      *)
LEMMA TurnKeeps ==
  ASSUME LinkIInv, NEW k \in 0 .. InFlight, k <= Len(down), turn(k)
  PROVE  LinkIInv'
<1> DEFINE m == at_hand(k).msg
<1>1. /\ m \in FromCloud \cup {NoMsg} /\ ready(m) \in SUBSET Items
      /\ sm_run(m, ready(m)) /\ IInv
  BY TurnReads DEF LinkIInv
<1>2. IInv'
  <2>1. m \in Msgs
    BY <1>1, CloudSends
  <2> HIDE DEF m
  <2> QED
    BY <1>1, <2>1, RunKeepsInv
<1>3. /\ Len(up) \in Nat /\ up \in Seq(UpMsgs)
      /\ \A i \in 1 .. Len(up) : up[i].type # "AUTH_REQ" => up[i].id \in Items
      /\ known \in [Items -> Values] /\ commands \in 0 .. Demands
      /\ value \in [Items -> Values] /\ target \in [Items -> Values]
      /\ disturbed \in BOOLEAN
  BY LenProperties DEF LinkIInv, StreamInv, LinkTypeOK
<1>4. StreamInv'
  <2>1. up' \in Seq(UpMsgs) /\ down' \in Seq(DownMsgs)
    <3>1. left(k) \in Seq(DownMsgs)
      BY TurnReads
    <3>2. CASE reports(m)
      BY <3>2, PushTurn
    <3>3. CASE ~ reports(m)
      BY <3>1, <3>3, QuietTurn
    <3> QED
      BY <3>2, <3>3
  <2>2. ASSUME NEW i \in 1 .. Len(up'), up'[i].type # "AUTH_REQ"
        PROVE  up'[i].id \in Items
    <3>1. i > Len(up) \/ i \in 1 .. Len(up)
      BY <1>3, <2>1, LenProperties
    <3>2. CASE reports(m)
      BY <1>3, <2>2, <3>1, <3>2, PushTurn
    <3>3. CASE ~ reports(m)
      BY <1>3, <2>2, <3>1, <3>3, QuietTurn
    <3> QED
      BY <3>2, <3>3
  <2> QED
    BY <2>1, <2>2 DEF StreamInv
<1>5. LinkTypeOK'
  <2>1. /\ value' \in [Items -> Values] /\ target' \in [Items -> Values]
        /\ send' \in [Items -> BOOLEAN] /\ disturbed' \in BOOLEAN
    <3>1. CASE reports(m)
      BY <1>3, <3>1, PushTurn
    <3>2. CASE ~ reports(m)
      BY <1>3, <3>2, QuietTurn
    <3> QED
      BY <3>1, <3>2
  <2>2. Len(up') + Len(down') <= InFlight /\ known' = known
        /\ commands' = commands
    BY TurnWrites
  <2>3. told' \subseteq Items /\ misled' \subseteq Items
    BY TurnHistory
  <2>4. TypeOK'
    BY <1>2 DEF IInv
  <2> QED
    BY <1>3, <2>1, <2>2, <2>3, <2>4 DEF LinkTypeOK
<1>6. SilenceInv' /\ PolledInv'
  <2>1. PolledInv
    BY DEF LinkIInv
  <2> HIDE DEF m
  <2> QED
    BY <1>1, <2>1, RunEffect DEF SilenceInv, PolledInv
<1> QED
  BY <1>2, <1>4, <1>5, <1>6, TurnKeepsRest, TurnKeepsOwn, TurnKeepsMatch
     DEF LinkIInv

-----------------------------------------------------------------------------
(* The connection, the application and the cloud                           *)

(* The machine is where it was, and has nothing to send.                   *)
LEMMA MachineRests ==
  ASSUME IInv, machine_rests
  PROVE  /\ IInv'
         /\ UNCHANGED <<state, xpt_opcode, to_xpr, evt_index, running>>
<1>1. Nothing \in OutMsgs
  BY ItemsAssumption DEF OutMsgs, Out, Nothing, Requests
<1>2. /\ opdu' = Nothing
      /\ UNCHANGED <<state, xpt_opcode, to_on, to_xpr, timer, cred, nvm, torn,
                     id_index, evt_index, acked, running, reset, led>>
  BY DEF machine_rests, smVars, credVars, idVars
<1> QED
  BY <1>1, <1>2 DEF IInv, TypeOK, WaitInv, SchemaInv, SessionInv, ShownInv,
                    CredentialsPaired

(* An expiry disturbs the connection and touches no item and no message.   *)
LEMMA ExpiryKeeps ==
  ASSUME LinkIInv, expires
  PROVE  LinkIInv'
<1>1. /\ timer_expired /\ disturbed' = TRUE
      /\ UNCHANGED <<value, send, target, known, up, down, commands, told,
                     misled>>
  BY DEF expires, items, stream
<1>2. IInv'
  BY <1>1, StepKeepsInv DEF LinkIInv, Next
<1>3. UNCHANGED <<xpt_opcode, evt_index, running>>
  BY <1>1 DEF timer_expired, idVars
<1>4. LinkTypeOK'
  BY <1>1, <1>2 DEF LinkIInv, LinkTypeOK, IInv
<1>5. StreamInv' /\ SilenceInv' /\ PolledInv' /\ RestMeansKnown'
  BY <1>1, <1>3 DEF LinkIInv, StreamInv, SilenceInv, PolledInv, RestMeansKnown
<1>6. OwnPushInv' /\ OwnAnswerInv' /\ MatchInv'
  BY <1>1, <1>3 DEF LinkIInv, OwnPushInv, OwnAnswerInv, MatchInv, carries
<1> QED
  BY <1>2, <1>4, <1>5, <1>6 DEF LinkIInv

(* Connections come up empty and take down what was under way              *)
(* (sm.c:437-500, net.c:79-106).                                           *)
LEMMA LinkKeeps ==
  ASSUME LinkIInv, connects \/ drops
  PROVE  LinkIInv'
<1>1. /\ (\E d \in DevIds : sm_start(d)) \/ sm_stop
      /\ evt_index' = evt_index
      /\ UNCHANGED <<value, send, target, known, commands, told, misled>>
      /\ disturbed' \in BOOLEAN
  BY DEF connects, drops, items, sm_start, sm_stop, idVars, history, LinkIInv,
         LinkTypeOK
<1>2. IInv'
  BY <1>1, StepKeepsInv DEF LinkIInv, Next
<1>3. up' = << >> /\ down' = << >>
  <2>1. CASE connects
    <3>1. running = FALSE /\ up' = up /\ down' = down
      BY <2>1 DEF connects, stream, sm_start, LinkIInv, IInv, TypeOK
    <3> QED
      BY <3>1 DEF LinkIInv, SilenceInv
  <2>2. CASE drops
    BY <2>2 DEF drops
  <2> QED
    BY <2>1, <2>2
<1>4. (xpt_opcode' = "PUSH_DATA_RSP" => xpt_opcode = "PUSH_DATA_RSP")
      /\ (disturbed' = FALSE => to_xpr' = FALSE)
  <2>1. CASE connects
    BY <2>1 DEF connects, sm_start, NoResp
  <2>2. CASE drops
    BY <2>2 DEF drops, sm_stop, history, LinkIInv, MatchInv
  <2> QED
    BY <2>1, <2>2
<1>5. /\ << >> \in Seq(UpMsgs) /\ << >> \in Seq(DownMsgs) /\ Len(<< >>) = 0
      /\ 0 + 0 <= InFlight
  BY EmptySeq, BoundsAssumption
<1>6. Len(up') = 0 /\ Len(down') = 0 /\ 1 .. 0 = {}
  BY <1>3, <1>5
<1>7. LinkTypeOK'
  BY <1>1, <1>2, <1>5, <1>6 DEF LinkIInv, LinkTypeOK, IInv
<1>8. StreamInv' /\ SilenceInv' /\ PolledInv'
  BY <1>1, <1>3, <1>4, <1>5, <1>6 DEF LinkIInv, StreamInv, SilenceInv, PolledInv
<1>9. RestMeansKnown'
  BY <1>1, <1>6 DEF LinkIInv, RestMeansKnown
<1>10. OwnPushInv' /\ OwnAnswerInv' /\ MatchInv'
  BY <1>4, <1>6 DEF OwnPushInv, OwnAnswerInv, MatchInv
<1> QED
  BY <1>2, <1>7, <1>8, <1>9, <1>10 DEF LinkIInv

(* The application changes its own variable only (knot.h:16-25).           *)
LEMMA ApplicationKeeps ==
  ASSUME LinkIInv, NEW id \in Items, NEW v \in Values, loop_sets(id, v)
  PROVE  LinkIInv'
<1>1. /\ machine_rests /\ target' = [target EXCEPT ![id] = v]
      /\ UNCHANGED <<value, send, known, up, down, commands, told, misled,
                     disturbed>>
  BY DEF loop_sets, stream, history
<1>2. IInv' /\ UNCHANGED <<xpt_opcode, to_xpr, evt_index, running>>
  BY <1>1, MachineRests DEF LinkIInv
<1>3. LinkTypeOK'
  BY <1>1, <1>2 DEF LinkIInv, LinkTypeOK, IInv
<1>4. StreamInv' /\ SilenceInv' /\ PolledInv' /\ RestMeansKnown'
  BY <1>1, <1>2 DEF LinkIInv, StreamInv, SilenceInv, PolledInv, RestMeansKnown
<1>5. OwnPushInv' /\ OwnAnswerInv' /\ MatchInv'
  BY <1>1, <1>2 DEF LinkIInv, OwnPushInv, OwnAnswerInv, MatchInv, carries, asks,
                    answers
<1> QED
  BY <1>2, <1>3, <1>4, <1>5 DEF LinkIInv

(* A poll or a write of the cloud is no answer, and comes last.            *)
LEMMA CommandKeeps ==
  ASSUME LinkIInv, cloud_commands
  PROVE  LinkIInv'
<1>1. PICK id \in Items, v \in Values,
           type \in {"PUSH_DATA_REQ", "POLL_DATA_REQ"} :
        down' = Append(down, Down(Command(type, id), v, FALSE))
  BY DEF cloud_commands
<1>2. /\ machine_rests /\ running /\ room /\ commands > 0
      /\ commands' = commands - 1
      /\ UNCHANGED <<value, send, target, known, up, told, misled, disturbed>>
  BY DEF cloud_commands, items, history
<1>3. IInv' /\ UNCHANGED <<xpt_opcode, to_xpr, evt_index, running>>
  BY <1>2, MachineRests DEF LinkIInv
<1> DEFINE d == Down(Command(type, id), v, FALSE)
<1>4. /\ d \in DownMsgs /\ d.own = FALSE /\ d.msg.type # "PUSH_DATA_RSP"
  <2>1. /\ d.msg = Command(type, id) /\ d.val = v /\ d.own = FALSE
    BY DEF Down
  <2>2. Command(type, id) \in FromCloud /\ Command(type, id).type = type
    BY DEF FromCloud, Command
  <2>3. d \in DownMsgs
    BY <2>2 DEF Down, DownMsgs
  <2> QED
    BY <2>1, <2>2, <2>3
<1> HIDE DEF d
<1>5. /\ down \in Seq(DownMsgs) /\ Len(down) \in Nat /\ Len(up) \in Nat
      /\ up \in Seq(UpMsgs)
  BY LenProperties DEF LinkIInv, StreamInv
<1>6. /\ down' \in Seq(DownMsgs) /\ Len(down') = Len(down) + 1
      /\ \A i \in 1 .. Len(down) : down'[i] = down[i]
      /\ \A i \in 1 .. Len(down') : i > Len(down) => down'[i] = d
  <2>1. down' = Append(down, d)
    BY <1>1 DEF d
  <2> QED
    BY <1>4, <1>5, <2>1, AddsOne
<1>7. \A i \in 1 .. Len(down') : i \in 1 .. Len(down) \/ i > Len(down)
  BY <1>5, <1>6
<1>8. ASSUME NEW i \in 1 .. Len(down'),
             down'[i].own = TRUE \/ down'[i].msg.type = "PUSH_DATA_RSP"
      PROVE  i \in 1 .. Len(down) /\ down'[i] = down[i]
  BY <1>4, <1>6, <1>7, <1>8
<1>9. LinkTypeOK'
  <2>1. Len(up') + Len(down') <= InFlight
    BY <1>2, <1>5, <1>6, BoundsAssumption DEF room
  <2>2. commands' \in 0 .. Demands
    BY <1>2, BoundsAssumption DEF LinkIInv, LinkTypeOK
  <2> QED
    BY <1>2, <1>3, <2>1, <2>2 DEF LinkIInv, LinkTypeOK, IInv
<1>10. StreamInv' /\ SilenceInv' /\ PolledInv' /\ RestMeansKnown'
  BY <1>2, <1>3, <1>6
     DEF LinkIInv, StreamInv, SilenceInv, PolledInv, RestMeansKnown
<1>11. OwnPushInv'
  BY <1>2, <1>3 DEF LinkIInv, OwnPushInv, carries
<1>12. OwnAnswerInv'
  BY <1>2, <1>3, <1>8 DEF LinkIInv, OwnAnswerInv, carries
<1>13. MatchInv'
  <2> SUFFICES ASSUME disturbed = FALSE
               PROVE  MatchInv'
    BY <1>2 DEF MatchInv
  <2>1. /\ to_xpr = FALSE
        /\ \A i \in 1 .. Len(up) : asks(i) =>
              /\ up[i].own = TRUE /\ xpt_opcode = "PUSH_DATA_RSP"
              /\ \A j \in 1 .. Len(up) : asks(j) => i = j
              /\ \A j \in 1 .. Len(down) : ~ answers(j)
        /\ \A i \in 1 .. Len(down) : answers(i) =>
              /\ down[i].own = TRUE /\ xpt_opcode = "PUSH_DATA_RSP"
              /\ \A j \in 1 .. Len(down) : answers(j) => i = j
    BY DEF LinkIInv, MatchInv
  <2>2. \A i : asks(i)' <=> asks(i)
    BY <1>2 DEF asks
  <2>3. \A i \in 1 .. Len(down') : answers(i)' =>
          i \in 1 .. Len(down) /\ down'[i] = down[i] /\ answers(i)
    BY <1>8 DEF answers
  <2> QED
    BY <1>2, <1>3, <2>1, <2>2, <2>3 DEF MatchInv
<1> QED
  BY <1>3, <1>9, <1>10, <1>11, <1>12, <1>13 DEF LinkIInv

(* The cloud takes the first message: if it is the push that is its own,   *)
(* the value it now has is the item's, and the answer is its own too.  No  *)
(* other value replaces that of an item at rest.                           *)
LEMMA CloudKeeps ==
  ASSUME LinkIInv, NEW result \in Results, cloud_takes(result)
  PROVE  LinkIInv'
<1> DEFINE u == up[1]
           asked == u.type = "PUSH_DATA_REQ"
<1>1. /\ up \in Seq(UpMsgs) /\ Len(up) \in Nat /\ up # << >>
      /\ down \in Seq(DownMsgs) /\ Len(down) \in Nat
      /\ \A i \in 1 .. Len(up) : up[i].type # "AUTH_REQ" => up[i].id \in Items
  BY LenProperties DEF LinkIInv, StreamInv, cloud_takes
<1>2. /\ 1 \in 1 .. Len(up) /\ Head(up) = u /\ u \in UpMsgs
  <2>1. Len(up) # 0
    BY <1>1, EmptySeq
  <2> QED
    BY <1>1, <2>1, ElementOfSeq
<1>3. /\ machine_rests
      /\ UNCHANGED <<value, send, target, commands, told, misled, disturbed>>
      /\ up' = Tail(up)
      /\ ~ asked => result = "OK"
      /\ known' = IF u.type # "AUTH_REQ" /\ result = "OK"
                  THEN [known EXCEPT ![u.id] = u.val] ELSE known
      /\ down' = CASE asked ->
                        Append(down, Down(Answer("PUSH_DATA_RSP", result), 0, u.own))
                   [] u.type = "AUTH_REQ" ->
                        Append(down, Down(Answer("AUTH_RSP", "OK"), 0, FALSE))
                   [] OTHER -> down
  BY <1>2 DEF cloud_takes, items, history
<1>4. IInv' /\ UNCHANGED <<xpt_opcode, to_xpr, evt_index, running>>
  BY <1>3, MachineRests DEF LinkIInv
<1>5. /\ up' \in Seq(UpMsgs) /\ Len(up') = Len(up) - 1
      /\ \A i \in 1 .. Len(up') : up'[i] = up[i + 1]
      /\ \A i \in 1 .. Len(up') : i + 1 \in 1 .. Len(up) /\ i + 1 # 1
  <2>1. /\ up' \in Seq(UpMsgs) /\ Len(up') = Len(up) - 1
        /\ \A i \in 1 .. Len(up') : up'[i] = up[i + 1]
    BY <1>1, <1>3, HeadTailProperties
  <2> QED
    BY <1>1, <2>1
<1>6. /\ down' \in Seq(DownMsgs)
      /\ Len(down') \in {Len(down), Len(down) + 1}
      /\ \A i \in 1 .. Len(down) : down'[i] = down[i]
      /\ \A i \in 1 .. Len(down') : i > Len(down) =>
            /\ i = Len(down')
            /\ down'[i].own = TRUE \/ down'[i].msg.type = "PUSH_DATA_RSP" =>
                  /\ asked /\ down'[i].own = u.own
                  /\ down'[i].msg.type = "PUSH_DATA_RSP"
                  /\ down'[i].msg.result = result
  <2>1. CASE asked
    <3> DEFINE d == Down(Answer("PUSH_DATA_RSP", result), 0, u.own)
    <3>1. /\ d \in DownMsgs /\ d.own = u.own
          /\ d.msg.type = "PUSH_DATA_RSP" /\ d.msg.result = result
      <4>1. Answer("PUSH_DATA_RSP", result) \in FromCloud
        BY DEF FromCloud
      <4>2. u.own \in BOOLEAN
        BY <1>2 DEF UpMsgs
      <4>3. d \in DownMsgs
        BY <4>1, <4>2, BoundsAssumption DEF Down, DownMsgs
      <4>4. d.own = u.own /\ d.msg = Answer("PUSH_DATA_RSP", result)
        BY DEF Down
      <4> QED
        BY <4>3, <4>4 DEF Answer
    <3>2. down' = Append(down, d)
      BY <1>3, <2>1
    <3> HIDE DEF d
    <3> QED
      BY <1>1, <2>1, <3>1, <3>2, AddsOne
  <2>2. CASE ~ asked /\ u.type = "AUTH_REQ"
    <3> DEFINE d == Down(Answer("AUTH_RSP", "OK"), 0, FALSE)
    <3>1. /\ d \in DownMsgs /\ d.own = FALSE /\ d.msg.type = "AUTH_RSP"
      <4>1. Answer("AUTH_RSP", "OK") \in FromCloud
        BY DEF FromCloud, Results
      <4>2. d \in DownMsgs
        BY <4>1, BoundsAssumption DEF Down, DownMsgs
      <4>3. d.own = FALSE /\ d.msg = Answer("AUTH_RSP", "OK")
        BY DEF Down
      <4>4. Answer("AUTH_RSP", "OK").type = "AUTH_RSP"
        BY DEF Answer
      <4> HIDE DEF d
      <4> QED
        BY <4>2, <4>3, <4>4
    <3>2. down' = Append(down, d)
      BY <1>3, <2>2
    <3> HIDE DEF d
    <3> QED
      BY <1>1, <2>2, <3>1, <3>2, AddsOne
  <2>3. CASE ~ asked /\ u.type # "AUTH_REQ"
    <3>1. down' = down
      BY <1>3, <2>3
    <3> QED
      BY <1>1, <3>1
  <2> QED
    BY <2>1, <2>2, <2>3
<1>7. \A i \in 1 .. Len(down') : i \in 1 .. Len(down) \/ i > Len(down)
  BY <1>1, <1>6
<1> HIDE DEF u
<1>8. LinkTypeOK'
  <2>1. Len(up') + Len(down') <= InFlight
    BY <1>1, <1>5, <1>6, BoundsAssumption DEF LinkIInv, LinkTypeOK
  <2>2. known' \in [Items -> Values]
    <3>1. u.val \in Values
      BY <1>2 DEF UpMsgs
    <3> QED
      BY <1>3, <3>1 DEF LinkIInv, LinkTypeOK
  <2> QED
    BY <1>3, <1>4, <2>1, <2>2 DEF LinkIInv, LinkTypeOK, IInv
<1>9. StreamInv' /\ PolledInv'
  BY <1>1, <1>4, <1>5, <1>6 DEF LinkIInv, StreamInv, PolledInv
<1>10. SilenceInv'
  BY <1>1, <1>4 DEF LinkIInv, SilenceInv
<1>11. \A id \in Items : ~ carries(u, id) => known'[id] = known[id]
  BY <1>3 DEF LinkIInv, LinkTypeOK, carries
<1>12. RestMeansKnown'
  <2> SUFFICES ASSUME NEW id \in Items \ (told \cup misled), ~ send[id]
               PROVE  /\ value[id] = known'[id]
                      /\ \A i \in 1 .. Len(up') :
                            up'[i].type # "AUTH_REQ" => up'[i].id # id
    BY <1>3 DEF RestMeansKnown
  <2>1. /\ value[id] = known[id]
        /\ \A i \in 1 .. Len(up) : up[i].type # "AUTH_REQ" => up[i].id # id
    BY DEF LinkIInv, RestMeansKnown
  <2>2. ~ carries(u, id)
    BY <1>2, <2>1 DEF carries, u
  <2> QED
    BY <1>5, <1>11, <2>1, <2>2
<1>13. OwnPushInv'
  <2> SUFFICES ASSUME NEW i \in 1 .. Len(up'), up'[i].own = TRUE
               PROVE  /\ up'[i].type = "PUSH_DATA_REQ"
                      /\ up'[i].id = evt_index /\ evt_index \in Items
                      /\ evt_index \notin told =>
                            /\ up'[i].val = value[evt_index]
                            /\ \A j \in 1 .. Len(up') :
                                  i < j => ~ carries(up'[j], evt_index)
    BY <1>3, <1>4 DEF OwnPushInv, carries
  <2>1. i + 1 \in 1 .. Len(up) /\ up'[i] = up[i + 1]
    BY <1>5
  <2>2. /\ up[i + 1].type = "PUSH_DATA_REQ"
        /\ up[i + 1].id = evt_index /\ evt_index \in Items
        /\ evt_index \notin told =>
              /\ up[i + 1].val = value[evt_index]
              /\ \A j \in 1 .. Len(up) :
                    i + 1 < j => ~ carries(up[j], evt_index)
    BY <2>1 DEF LinkIInv, OwnPushInv
  <2>3. ASSUME NEW j \in 1 .. Len(up'), i < j
        PROVE  j + 1 \in 1 .. Len(up) /\ i + 1 < j + 1 /\ up'[j] = up[j + 1]
    BY <1>5, <2>3
  <2> QED
    BY <2>1, <2>2, <2>3
<1>14. OwnAnswerInv'
  <2> SUFFICES ASSUME NEW i \in 1 .. Len(down'), down'[i].own = TRUE
               PROVE  /\ down'[i].msg.type = "PUSH_DATA_RSP"
                      /\ evt_index \in Items
                      /\ (down'[i].msg.result = "OK" /\ evt_index \notin told) =>
                            /\ value[evt_index] = known'[evt_index]
                            /\ \A j \in 1 .. Len(up') :
                                  ~ carries(up'[j], evt_index)
    BY <1>3, <1>4 DEF OwnAnswerInv, carries
  <2>1. CASE i \in 1 .. Len(down)
    <3>1. /\ down'[i] = down[i]
          /\ down[i].msg.type = "PUSH_DATA_RSP" /\ evt_index \in Items
          /\ (down[i].msg.result = "OK" /\ evt_index \notin told) =>
                /\ value[evt_index] = known[evt_index]
                /\ \A j \in 1 .. Len(up) : ~ carries(up[j], evt_index)
      BY <1>6, <2>1 DEF LinkIInv, OwnAnswerInv
    <3>2. (\A j \in 1 .. Len(up) : ~ carries(up[j], evt_index)) =>
             ~ carries(u, evt_index)
      BY <1>2 DEF u
    <3> QED
      BY <1>5, <1>11, <3>1, <3>2
  <2>2. CASE i > Len(down)
    <3>1. /\ asked /\ u.own = TRUE
          /\ down'[i].msg.type = "PUSH_DATA_RSP"
          /\ down'[i].msg.result = result
      BY <1>6, <2>2
    <3>2. /\ u.id = evt_index /\ evt_index \in Items
          /\ evt_index \notin told =>
                /\ u.val = value[evt_index]
                /\ \A j \in 1 .. Len(up) : 1 < j => ~ carries(up[j], evt_index)
      BY <1>2, <3>1 DEF LinkIInv, OwnPushInv, u
    <3>3. result = "OK" => known'[evt_index] = u.val
      BY <1>3, <3>1, <3>2 DEF LinkIInv, LinkTypeOK
    <3>4. \A j \in 1 .. Len(up') : 1 < j + 1
      BY <1>5
    <3> QED
      BY <1>5, <3>1, <3>2, <3>3, <3>4
  <2> QED
    BY <1>7, <2>1, <2>2
<1>15. MatchInv'
  <2> SUFFICES ASSUME disturbed = FALSE
               PROVE  MatchInv'
    BY <1>3 DEF MatchInv
  <2>1. /\ to_xpr = FALSE
        /\ \A i \in 1 .. Len(up) : asks(i) =>
              /\ up[i].own = TRUE /\ xpt_opcode = "PUSH_DATA_RSP"
              /\ \A j \in 1 .. Len(up) : asks(j) => i = j
              /\ \A j \in 1 .. Len(down) : ~ answers(j)
        /\ \A i \in 1 .. Len(down) : answers(i) =>
              /\ down[i].own = TRUE /\ xpt_opcode = "PUSH_DATA_RSP"
              /\ \A j \in 1 .. Len(down) : answers(j) => i = j
    BY DEF LinkIInv, MatchInv
  <2>2. \A i \in 1 .. Len(up') : asks(i)' =>
          /\ asks(i + 1) /\ i + 1 \in 1 .. Len(up) /\ i + 1 # 1
          /\ up'[i] = up[i + 1]
    BY <1>5 DEF asks
  <2>3. \A i \in 1 .. Len(down') : answers(i)' =>
          \/ i \in 1 .. Len(down) /\ down'[i] = down[i] /\ answers(i)
          \/ /\ i > Len(down) /\ i = Len(down')
             /\ asks(1) /\ down'[i].own = up[1].own
    BY <1>6, <1>7 DEF answers, asks, u
  <2>4. \A i \in 1 .. Len(up') : asks(i)' =>
          /\ up'[i].own = TRUE /\ xpt_opcode = "PUSH_DATA_RSP"
          /\ \A j \in 1 .. Len(down') : ~ answers(j)'
    BY <1>2, <2>1, <2>2, <2>3
  <2>5. \A i \in 1 .. Len(up'), j \in 1 .. Len(up') :
          asks(i)' /\ asks(j)' => i = j
    <3> SUFFICES ASSUME NEW i \in 1 .. Len(up'), NEW j \in 1 .. Len(up'),
                        asks(i)', asks(j)'
                 PROVE  i = j
      OBVIOUS
    <3>1. i + 1 = j + 1
      BY <2>1, <2>2
    <3> QED
      BY <3>1
  <2>6. \A i \in 1 .. Len(down') : answers(i)' =>
          /\ down'[i].own = TRUE /\ xpt_opcode = "PUSH_DATA_RSP"
          /\ \A j \in 1 .. Len(down') : answers(j)' => i = j
    BY <1>2, <2>1, <2>3
  <2> QED
    BY <1>4, <2>1, <2>4, <2>5, <2>6 DEF MatchInv
<1> QED
  BY <1>4, <1>8, <1>9, <1>10, <1>12, <1>13, <1>14, <1>15 DEF LinkIInv

-----------------------------------------------------------------------------
(* The theorems                                                            *)

(* A thing that is registered, with its values known to the cloud.         *)
THEOREM LinkInitInv == LinkInit => LinkIInv
<1> SUFFICES ASSUME LinkInit PROVE LinkIInv
  OBVIOUS
<1>1. /\ (CHOOSE r \in Regs : TRUE) \in Regs
      /\ (CHOOSE d \in DevIds : TRUE) \in DevIds
  BY RegisteredAssumption
<1>2. \A r \in Regs : r # None
  BY NoneAssumption
<1>3. PICK r \in Regs, d \in DevIds :
        nvm = [uuid |-> r, token |-> r, devid |-> d]
  BY <1>1 DEF LinkInit
<1>4. Nothing \in OutMsgs /\ NoCreds \in Creds
  BY ItemsAssumption DEF OutMsgs, Out, Nothing, Requests, Creds, NoCreds
<1>5. /\ nvm \in Creds /\ nvm.uuid = nvm.token /\ nvm.uuid # None
  BY <1>2, <1>3 DEF Creds
<1>6. TypeOK
  BY <1>4, <1>5 DEF LinkInit, TypeOK, States, Periods
<1>7. WaitInv /\ SchemaInv /\ SessionInv /\ CredentialsPaired /\ ShownInv
  BY <1>5 DEF LinkInit, WaitInv, SchemaInv, SessionInv, CredentialsPaired,
              ShownInv
<1>8. IInv
  BY <1>6, <1>7 DEF IInv
<1>9. /\ << >> \in Seq(UpMsgs) /\ << >> \in Seq(DownMsgs) /\ Len(<< >>) = 0
  BY EmptySeq
<1>10. /\ up = << >> /\ down = << >> /\ Len(up) = 0 /\ Len(down) = 0
       /\ 1 .. 0 = {}
  BY <1>9 DEF LinkInit
<1>11. /\ value = [i \in Items |-> 0] /\ target = value /\ known = value
       /\ send \in [Items -> BOOLEAN]
       /\ value \in [Items -> Values]
  BY BoundsAssumption DEF LinkInit, none
<1>12. LinkTypeOK
  <2>1. Len(up) + Len(down) <= InFlight
    BY <1>10, BoundsAssumption
  <2>2. commands \in 0 .. Demands
    BY BoundsAssumption DEF LinkInit
  <2>3. told = {} /\ misled = {} /\ disturbed = FALSE
    BY DEF LinkInit
  <2>4. target \in [Items -> Values] /\ known \in [Items -> Values]
    BY <1>11
  <2> QED
    BY <1>6, <1>11, <2>1, <2>2, <2>3, <2>4 DEF LinkTypeOK
<1>13. StreamInv /\ SilenceInv /\ PolledInv
  BY <1>9, <1>10 DEF LinkInit, StreamInv, SilenceInv, PolledInv, NoResp
<1>14. RestMeansKnown /\ OwnPushInv /\ OwnAnswerInv
  BY <1>10, <1>11 DEF RestMeansKnown, OwnPushInv, OwnAnswerInv
<1>15. MatchInv
  BY <1>10 DEF LinkInit, MatchInv
<1> QED
  BY <1>8, <1>12, <1>13, <1>14, <1>15 DEF LinkIInv

(* Every step of the thing, its timer, the connection, the application and *)
(* the cloud keeps the invariant.                                          *)
THEOREM LinkNextInv == LinkIInv /\ [LinkNext]_linkVars => LinkIInv'
<1> SUFFICES ASSUME LinkIInv, [LinkNext]_linkVars PROVE LinkIInv'
  OBVIOUS
<1>1. CASE \E k \in 0 .. InFlight : k <= Len(down) /\ turn(k)
  BY <1>1, TurnKeeps
<1>2. CASE expires
  BY <1>2, ExpiryKeeps
<1>3. CASE connects \/ drops
  BY <1>3, LinkKeeps
<1>4. CASE \E id \in Items, v \in Values : loop_sets(id, v)
  BY <1>4, ApplicationKeeps
<1>5. CASE \E result \in Results : cloud_takes(result)
  BY <1>5, CloudKeeps
<1>6. CASE cloud_commands
  BY <1>6, CommandKeeps
<1>7. CASE UNCHANGED linkVars
  <2>1. /\ UNCHANGED vars
        /\ UNCHANGED <<value, send, target, known, up, down, commands, told,
                       misled, disturbed>>
    BY <1>7 DEF linkVars, items, stream, history
  <2>2. UNCHANGED <<xpt_opcode, to_xpr, evt_index, running>>
    BY <2>1 DEF vars, smVars, idVars
  <2>3. IInv'
    BY <2>1, StepKeepsInv DEF LinkIInv
  <2>4. LinkTypeOK'
    BY <2>1, <2>3 DEF LinkIInv, LinkTypeOK, IInv
  <2>5. StreamInv' /\ SilenceInv' /\ PolledInv' /\ RestMeansKnown'
    BY <2>1, <2>2 DEF LinkIInv, StreamInv, SilenceInv, PolledInv,
                      RestMeansKnown
  <2>6. OwnPushInv' /\ OwnAnswerInv' /\ MatchInv'
    BY <2>1, <2>2 DEF LinkIInv, OwnPushInv, OwnAnswerInv, MatchInv, carries,
                      asks, answers
  <2> QED
    BY <2>3, <2>4, <2>5, <2>6 DEF LinkIInv
<1> QED
  BY <1>1, <1>2, <1>3, <1>4, <1>5, <1>6, <1>7 DEF LinkNext

(* The invariant holds in every behaviour of the thing and the cloud.      *)
THEOREM LinkInvariance == LinkSpec => []LinkIInv
BY LinkInitInv, LinkNextInv, PTL DEF LinkSpec

(* Items, messages and machine keep their types, and the bound on messages *)
(* under way holds.                                                        *)
THEOREM LinkTyped == LinkSpec => []LinkTypeOK
<1>1. LinkIInv => LinkTypeOK
  BY DEF LinkIInv
<1> QED
  BY <1>1, LinkInvariance, PTL

(* An item at rest is one the cloud knows the value of, through lost       *)
(* connections, refusals and late answers (proxy.c:72).                    *)
THEOREM RestKnown == LinkSpec => []RestMeansKnown
<1>1. LinkIInv => RestMeansKnown
  BY DEF LinkIInv
<1> QED
  BY <1>1, LinkInvariance, PTL

(* Until a wait times out or a poll is answered on a connection, every     *)
(* answer confirms the push it belongs to (sm.c:296).                      *)
THEOREM AnswersBelong == LinkSpec => AnswersMatch
<1> DEFINE Match == misled' \subseteq misled \/ disturbed
<1>1. LinkIInv /\ [LinkNext]_linkVars => [Match]_linkVars
  <2> SUFFICES ASSUME LinkIInv, LinkNext PROVE Match
    OBVIOUS
  <2>1. CASE \E k \in 0 .. InFlight : k <= Len(down) /\ turn(k)
    <3>1. PICK k \in 0 .. InFlight : k <= Len(down) /\ turn(k)
      BY <2>1
    <3>2. disturbed = FALSE => misled' \subseteq misled
      BY <3>1, TurnHistory
    <3>3. disturbed \in BOOLEAN
      BY DEF LinkIInv, LinkTypeOK
    <3> QED
      BY <3>2, <3>3
  <2>2. CASE expires \/ connects
    BY <2>2 DEF expires, connects
  <2>3. CASE drops \/ cloud_commands
    BY <2>3 DEF drops, cloud_commands, history
  <2>4. CASE \E id \in Items, v \in Values : loop_sets(id, v)
    BY <2>4 DEF loop_sets, history
  <2>5. CASE \E result \in Results : cloud_takes(result)
    BY <2>5 DEF cloud_takes, history
  <2> QED
    BY <2>1, <2>2, <2>3, <2>4, <2>5 DEF LinkNext
<1> QED
  BY <1>1, LinkInvariance, PTL DEF LinkSpec, AnswersMatch

===============================================================================
