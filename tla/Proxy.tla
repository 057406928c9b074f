-------------------------------- MODULE Proxy --------------------------------
(***************************************************************************)
(* The data proxy, core/src/proxy.c: the pool of items an application      *)
(* registers, the events that make an item's value due for the cloud, and  *)
(* the writes and polls that come from the cloud.                          *)
(*                                                                         *)
(* The callers are the application (setup() and loop() of knot.h) and the  *)
(* state machine of sm.c, which has one push waiting for its answer at a   *)
(* time.  Each call is one step: application, proxy and state machine run  *)
(* in the protocol thread.  A value is a small number whatever its type;   *)
(* the unit of time is a second.                                           *)
(***************************************************************************)
EXTENDS Integers, FiniteSets

CONSTANTS
    Ids,        \* ids that an application may pass: an unsigned byte
    DataMax,    \* CONFIG_KNOT_THING_DATA_MAX
    Setup,      \* what setup() asks for: id -> [vtype, flags, lower,
                \*   upper, time_sec, guarded]: guarded items have
                \*   callbacks that may fail
    Values,     \* values of a data item, 0 being the cleared one
    Wrap,       \* the u32_t times wrap here
    Horizon,    \* bound of the uptime
    NoId        \* 0xff: no item

Events == {"CHANGE", "TIME", "UPPER", "LOWER"}
Types == {"BOOL", "INT", "FLOAT", "RAW"}

ASSUME IdsAssumption ==
    Ids \subseteq Nat /\ DataMax \in Nat /\ NoId \notin Ids \cup Values

ASSUME ValuesAssumption == Values \subseteq 0 .. 999 /\ 0 \in Values

(* knot_config_is_valid refuses limits on a BOOL or RAW item.              *)
ASSUME SetupAssumption ==
    /\ DOMAIN Setup \subseteq Ids
    /\ \A id \in DOMAIN Setup :
          /\ Setup[id].vtype \in Types
          /\ Setup[id].flags \subseteq Events
          /\ Setup[id].lower \in Int /\ Setup[id].upper \in Int
          /\ Setup[id].vtype \in {"BOOL", "RAW"} =>
                Setup[id].flags \cap {"UPPER", "LOWER"} = {}
          /\ Setup[id].time_sec \in 0 .. (Wrap - 1)
          /\ Setup[id].guarded \in BOOLEAN

ASSUME WrapAssumption == Wrap \in Nat \ {0} /\ Horizon \in Nat

VARIABLES
    registered,   \* ids whose slot is taken: proxy_pool[id].id # 0xff
    last_id,      \* largest id registered, NoId (0xff) at first
    flags,        \* config.event_flags of each slot
    value,        \* value of each slot: the last one sent or written
    send,         \* 'value' must be sent
    upper_flag,   \* upper limit crossed
    lower_flag,   \* lower limit crossed
    last_timeout, \* last time the TIME event came
    \* around the proxy:
    target,       \* the application's variable behind each item
    setup_done,   \* setup() returned, loop() is being called
    now,          \* k_uptime_get(), 64 bits wide
    awaiting,     \* id_index of the push the state machine waits for
    \* history:
    inflight,     \* the value of that push, NoId once something newer went
    known,        \* the value of the item that the cloud has for certain
    unsure,       \* how "value" came to differ from it since the last push
    seen,         \* the value last read, NoId before that
    returned,     \* that read returned the value, and not NULL
    stamp         \* the uptime, in full, when last_timeout was set

pool == <<registered, last_id, flags>>
sampled == <<value, send, upper_flag, lower_flag, last_timeout>>
cloud == <<awaiting, inflight, known, unsure>>
history == <<seen, returned, stamp>>
vars == <<pool, sampled, cloud, target, setup_done, now, history>>

-----------------------------------------------------------------------------
(* setup()                                                                 *)

(* Slip: the last id registered is taken for the largest.                  *)
slip_last_registered(id) == TRUE

larger(id) == last_id = NoId \/ id > last_id

(* Slip: the id is held against the last index that is too large.          *)
slip_in_pool(id) == id <= DataMax

in_pool(id) == id < DataMax

(* A refused call returns -1 and changes nothing.                          *)
knot_data_register(id) ==
    /\ ~ setup_done
    /\ in_pool(id)
    /\ id \notin registered
    /\ registered' = registered \cup {id}
    /\ last_id' = IF larger(id) THEN id ELSE last_id
    /\ send' = [send EXCEPT ![id] = FALSE]
    /\ upper_flag' = [upper_flag EXCEPT ![id] = FALSE]
    /\ lower_flag' = [lower_flag EXCEPT ![id] = FALSE]
    /\ flags' = [flags EXCEPT ![id] = {}]
    /\ UNCHANGED <<value, last_timeout, cloud, target, setup_done, now,
                   history>>

knot_data_config(id) ==
    /\ ~ setup_done
    /\ id \in registered
    /\ flags' = [flags EXCEPT ![id] = Setup[id].flags]
    /\ UNCHANGED <<registered, last_id, sampled, cloud, target, setup_done,
                   now, history>>

(* An application has at least one item: without any, last_id stays 0xff   *)
(* and the walks over the items leave the pool.                            *)
setup_returns ==
    /\ ~ setup_done
    /\ registered # {}
    /\ setup_done' = TRUE
    /\ UNCHANGED <<pool, sampled, cloud, target, now, history>>

-----------------------------------------------------------------------------
(* proxy_read                                                              *)

(* The uptime is cut to 32 bits and the subtraction is unsigned.           *)
uptime32 == now % Wrap

(* Slip: the difference is taken as a signed number.                       *)
slip_elapsed_signed(id) == uptime32 - last_timeout[id]

elapsed(id) == (uptime32 - last_timeout[id]) % Wrap

check_timeout(id) ==
    "TIME" \in flags[id] /\ elapsed(id) >= Setup[id].time_sec

(* What val_i reads of the union after val_f was stored: the bits of a     *)
(* float are no small integer, except those of zero.                       *)
val_i(id) ==
    IF Setup[id].vtype = "FLOAT" /\ value[id] # 0 THEN 1000 + value[id]
                                                  ELSE value[id]

(* Slip: the event is taken for a request to send at every read.           *)
slip_change_always(id, v) == "CHANGE" \in flags[id]

(* The FLOAT case uses check_int_change too.                               *)
check_change(id, v) == "CHANGE" \in flags[id] /\ v # val_i(id)

check_upper(id, v) == "UPPER" \in flags[id] /\ v > Setup[id].upper
check_lower(id, v) == "LOWER" \in flags[id] /\ v < Setup[id].lower

(* Slip: a limit reports for as long as it is exceeded.                    *)
slip_limit_level(id, v) == check_upper(id, v) \/ check_lower(id, v)

(* A limit reports when it is crossed, not while it is exceeded.           *)
crossing(id, v) ==
    \/ check_upper(id, v) /\ ~ upper_flag[id]
    \/ check_lower(id, v) /\ ~ lower_flag[id]

due(id, v, forced) ==
    forced \/ check_timeout(id) \/ check_change(id, v) \/ crossing(id, v)

(* Slips: the value sent is not marked as waiting for its answer; the mark *)
(* of a limit is set when it is crossed and never taken back.              *)
slip_send_once(id, v, forced, wait_resp) ==
    /\ value' = [value EXCEPT ![id] = IF due(id, v, forced) THEN v ELSE @]
    /\ send' = [send EXCEPT ![id] = FALSE]
    /\ upper_flag' = [upper_flag EXCEPT ![id] = check_upper(id, v)]
    /\ lower_flag' = [lower_flag EXCEPT ![id] = check_lower(id, v)]
    /\ last_timeout' = [last_timeout EXCEPT
                          ![id] = IF check_timeout(id) THEN uptime32 ELSE @]

slip_limit_sticks(id, v, forced, wait_resp) ==
    /\ value' = [value EXCEPT ![id] = IF due(id, v, forced) THEN v ELSE @]
    /\ send' = [send EXCEPT ![id] =
                  IF due(id, v, forced) THEN wait_resp ELSE forced]
    /\ upper_flag' = [upper_flag EXCEPT ![id] = @ \/ check_upper(id, v)]
    /\ lower_flag' = [lower_flag EXCEPT ![id] = @ \/ check_lower(id, v)]
    /\ last_timeout' = [last_timeout EXCEPT
                          ![id] = IF check_timeout(id) THEN uptime32 ELSE @]

(* Reading v: the flags follow the value read, and a value that is due is  *)
(* kept and stays marked until its answer if one is awaited.               *)
set_proxy_value(id, v, forced, wait_resp) ==
    /\ value' = [value EXCEPT ![id] = IF due(id, v, forced) THEN v ELSE @]
    /\ send' = [send EXCEPT ![id] =
                  IF due(id, v, forced) THEN wait_resp ELSE forced]
    /\ upper_flag' = [upper_flag EXCEPT ![id] = check_upper(id, v)]
    /\ lower_flag' = [lower_flag EXCEPT ![id] = check_lower(id, v)]
    /\ last_timeout' = [last_timeout EXCEPT
                          ![id] = IF check_timeout(id) THEN uptime32 ELSE @]

(* The read callback may refresh the variable; when it fails the call      *)
(* changes nothing.                                                        *)
proxy_read(id, v, forced, wait_resp) ==
    /\ id \in registered
    /\ target' = [target EXCEPT ![id] = v]
    /\ seen' = [seen EXCEPT ![id] = v]
    /\ returned' = [returned EXCEPT ![id] = due(id, v, forced)]
    /\ stamp' = [stamp EXCEPT ![id] = IF check_timeout(id) THEN now ELSE @]
    /\ set_proxy_value(id, v, forced, wait_resp)

-----------------------------------------------------------------------------
(* The state machine's calls                                               *)

(* process_event: the item is read in its turn and pushed if it is due.    *)
poll(id, v) ==
    /\ setup_done
    /\ awaiting = NoId
    /\ proxy_read(id, v, send[id], TRUE)
    /\ IF due(id, v, send[id])
       THEN /\ awaiting' = id
            /\ inflight' = v
            /\ unsure' = [unsure EXCEPT ![id] = {}]
       ELSE UNCHANGED <<awaiting, inflight, unsure>>
    /\ UNCHANGED <<pool, known, setup_done, now>>

(* The answer to the push came.                                            *)
proxy_confirm_sent ==
    /\ awaiting # NoId
    /\ send' = [send EXCEPT ![awaiting] = FALSE]
    /\ known' = IF inflight = NoId THEN known
                ELSE [known EXCEPT ![awaiting] = inflight]
    /\ awaiting' = NoId /\ inflight' = NoId
    /\ UNCHANGED <<pool, value, upper_flag, lower_flag, last_timeout, unsure,
                   target, setup_done, now, history>>

(* Slip: an answer counts whatever its result.                             *)
slip_failure_confirms ==
    /\ awaiting # NoId
    /\ send' = [send EXCEPT ![awaiting] = FALSE]
    /\ awaiting' = NoId /\ inflight' = NoId
    /\ UNCHANGED <<pool, value, upper_flag, lower_flag, last_timeout, known,
                   unsure, target, setup_done, now, history>>

(* It did not, or it was an error: the next item is polled.                *)
push_failed ==
    /\ awaiting # NoId
    /\ awaiting' = NoId /\ inflight' = NoId
    /\ UNCHANGED <<pool, sampled, known, unsure, target, setup_done, now,
                   history>>

(* Something newer than the push in flight was told about the item.        *)
told(id, v) ==
    /\ known' = [known EXCEPT ![id] = v]
    /\ inflight' = IF awaiting = id THEN NoId ELSE inflight
    /\ UNCHANGED awaiting

(* POLL_DATA_REQ: proxy_force_send and a read that awaits no answer.  The  *)
(* value is handed to the network, which may lose it.                      *)
poll_request(id, v) ==
    /\ setup_done
    /\ proxy_read(id, v, TRUE, FALSE)
    /\ \/ told(id, v) /\ unsure' = [unsure EXCEPT ![id] = {}]
       \/ /\ unsure' = [unsure EXCEPT ![id] = @ \cup {"poll"}]
          /\ UNCHANGED <<awaiting, inflight, known>>
    /\ UNCHANGED <<pool, setup_done, now>>

(* The read callback fails after proxy_force_send: the mark stays.         *)
poll_request_failed(id) ==
    /\ setup_done
    /\ id \in registered /\ Setup[id].guarded
    /\ send' = [send EXCEPT ![id] = TRUE]
    /\ UNCHANGED <<pool, value, upper_flag, lower_flag, last_timeout, cloud,
                   target, setup_done, now, history>>

(* PUSH_DATA_REQ accepted by the application, or without a write callback. *)
proxy_write(id, v) ==
    /\ setup_done
    /\ id \in registered
    /\ value' = [value EXCEPT ![id] = v]
    /\ target' = [target EXCEPT ![id] = v]
    /\ told(id, v)
    /\ unsure' = [unsure EXCEPT ![id] = {}]
    /\ UNCHANGED <<pool, send, upper_flag, lower_flag, last_timeout,
                   setup_done, now, history>>

(* ... refused by its callback, or too long for a RAW item: the variable   *)
(* is restored, "value" is not.                                            *)
proxy_write_refused(id, v) ==
    /\ setup_done
    /\ id \in registered /\ (Setup[id].guarded \/ Setup[id].vtype = "RAW")
    /\ value' = [value EXCEPT ![id] = v]
    /\ unsure' = [unsure EXCEPT ![id] = @ \cup {"write"}]
    /\ UNCHANGED <<pool, send, upper_flag, lower_flag, last_timeout, awaiting,
                   inflight, known, target, setup_done, now, history>>

-----------------------------------------------------------------------------
(* The application and the clock                                           *)

loop_sets(id, v) ==
    /\ setup_done
    /\ id \in registered
    /\ target' = [target EXCEPT ![id] = v]
    /\ UNCHANGED <<pool, sampled, cloud, setup_done, now, history>>

tick ==
    /\ now < Horizon
    /\ now' = now + 1
    /\ UNCHANGED <<pool, sampled, cloud, target, setup_done, history>>

-----------------------------------------------------------------------------
(* Specification: proxy_init, then setup(), then loop() and the calls of   *)
(* the state machine in any order                                          *)

Init ==
    /\ registered = {} /\ last_id = NoId
    /\ flags = [id \in Ids |-> {}]
    /\ value = [id \in Ids |-> 0] /\ target = [id \in Ids |-> 0]
    /\ send = [id \in Ids |-> FALSE]
    /\ upper_flag = [id \in Ids |-> FALSE]
    /\ lower_flag = [id \in Ids |-> FALSE]
    /\ last_timeout = [id \in Ids |-> 0] /\ stamp = [id \in Ids |-> 0]
    /\ setup_done = FALSE /\ now = 0
    /\ awaiting = NoId /\ inflight = NoId
    /\ known = [id \in Ids |-> 0]     \* the cloud takes a new item for 0
    /\ unsure = [id \in Ids |-> {}]
    /\ seen = [id \in Ids |-> NoId] /\ returned = [id \in Ids |-> FALSE]

Vals(id) == IF Setup[id].vtype = "BOOL" THEN Values \cap {0, 1} ELSE Values

SetupStep ==
    \/ \E id \in DOMAIN Setup : knot_data_register(id) \/ knot_data_config(id)
    \/ setup_returns

(* Without a read callback the variable is read as it is.                  *)
readable(id) == IF Setup[id].guarded THEN Vals(id) ELSE {target[id]}

CloudStep ==
    \E id \in registered :
        \/ \E v \in readable(id) : poll_request(id, v)
        \/ \E v \in Vals(id) : proxy_write(id, v) \/ proxy_write_refused(id, v)
        \/ poll_request_failed(id)

PollStep(id) == \E v \in readable(id) : poll(id, v)

Next ==
    \/ SetupStep
    \/ \E id \in registered : PollStep(id)
    \/ proxy_confirm_sent \/ push_failed
    \/ CloudStep
    \/ \E id \in registered : \E v \in Vals(id) : loop_sets(id, v)
    \/ tick

Spec == Init /\ [][Next]_vars

(* setup() returns, items are polled in turn, and pushes that are repeated *)
(* are answered at last.                                                   *)
Fairness ==
    /\ WF_vars(setup_returns)
    /\ WF_vars(push_failed)
    /\ \A id \in DOMAIN Setup :
          /\ SF_vars(id \in registered /\ poll(id, target[id]))
          /\ SF_vars(awaiting = id /\ proxy_confirm_sent)

FairSpec == Spec /\ Fairness

-----------------------------------------------------------------------------
(* Properties                                                              *)

TypeOK ==
    /\ registered \subseteq {id \in Ids : id < DataMax}
    /\ last_id \in Ids \cup {NoId}
    /\ flags \in [Ids -> SUBSET Events]
    /\ value \in [Ids -> Values] /\ target \in [Ids -> Values]
    /\ send \in [Ids -> BOOLEAN]
    /\ upper_flag \in [Ids -> BOOLEAN] /\ lower_flag \in [Ids -> BOOLEAN]
    /\ last_timeout \in [Ids -> 0 .. (Wrap - 1)]
    /\ stamp \in [Ids -> 0 .. Horizon]
    /\ setup_done \in BOOLEAN /\ now \in 0 .. Horizon
    /\ awaiting \in registered \cup {NoId}
    /\ inflight \in Values \cup {NoId}
    /\ known \in [Ids -> Values]
    /\ unsure \in [Ids -> SUBSET {"poll", "write"}]
    /\ seen \in [Ids -> Values \cup {NoId}] /\ returned \in [Ids -> BOOLEAN]

(* proxy_get_last_id bounds every walk over the items, of the schemas and  *)
(* of the polling: it is the largest id registered in whatever order       *)
(* (proxy.c:198).                                                          *)
LastIdIsLargest ==
    IF registered = {} THEN last_id = NoId
    ELSE last_id \in registered /\ \A id \in registered : id <= last_id

(* An item that is not marked to be sent shows a value that the cloud has, *)
(* through lost answers, polls and writes in between - unless a poll's     *)
(* answer was lost or a write refused since it was last pushed.            *)
QuietIsKnown ==
    \A id \in registered :
        ~ send[id] /\ unsure[id] = {} => value[id] = known[id]

(* The period is measured right across the wrap of the 32-bit uptime, as   *)
(* long as the item is read once in a wrap (proxy.c:327-329).              *)
PeriodSurvivesWrap ==
    \A id \in registered :
        "TIME" \in flags[id] /\ now - stamp[id] < Wrap =>
            (check_timeout(id) <=> now - stamp[id] >= Setup[id].time_sec)

(* Item id starts to be pushed without being pending or asked for.         *)
newly_pushed(id) == awaiting = NoId /\ awaiting' = id /\ ~ send[id]

(* "Send message if proxy value is updated" (proxy.c:456): an item with    *)
(* no other event is pushed anew only with a value that is not the last.   *)
OnlyUpdatesSent ==
    [][ \A id \in registered :
          newly_pushed(id) /\ flags[id] = {"CHANGE"}
              => value'[id] # value[id] ]_vars

(* The limits of the item that a value is beyond.                          *)
beyond(id, v) ==
    {limit \in flags[id] \cap {"UPPER", "LOWER"} :
        /\ v # NoId
        /\ limit = "UPPER" => v > Setup[id].upper
        /\ limit = "LOWER" => v < Setup[id].lower}

(* "Send only at crossing" (proxy.c:381): an item with limits whose period  *)
(* is not over is pushed anew only when the value read is beyond a limit   *)
(* that the one read before was not beyond.                                *)
SentOnlyAtCrossing ==
    [][ \A id \in registered :
          newly_pushed(id) /\ "CHANGE" \notin flags[id] /\ ~ check_timeout(id)
              => ~ beyond(id, seen'[id]) \subseteq beyond(id, seen[id]) ]_vars

(* A read that finds the value beyond a limit that the one before was not  *)
(* beyond always gets it to the cloud (proxy.c:373-381): proxy_read returns *)
(* it and keeps it, and it is pushed and stays marked until its answer, or *)
(* it goes out in the answer to a poll, for which nothing is awaited.      *)
pushed(id) ==
    /\ awaiting = NoId /\ awaiting' = id
    /\ inflight' = seen'[id]
    /\ send'[id]

told_at_poll(id) == awaiting' = awaiting /\ ~ send'[id]

gets_out(id) == returned'[id] /\ value'[id] = seen'[id]
                   /\ (pushed(id) \/ told_at_poll(id))

CrossingSent ==
    [][ \A id \in registered :
          ~ beyond(id, seen'[id]) \subseteq beyond(id, seen[id])
              => gets_out(id) ]_vars

(* A change that stays is known to the cloud in the end and from then on,  *)
(* whatever pushes are lost before, when no poll's answer is lost and no   *)
(* write refused.                                                          *)
ChangeKnownAtLast ==
    \A id \in DOMAIN Setup : \A v \in Values :
        <>[](/\ setup_done /\ "CHANGE" \in flags[id]
             /\ target[id] = v /\ unsure[id] = {})
            => <>[](known[id] = v)

=============================================================================
