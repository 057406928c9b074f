----------------------------- MODULE ProxyProofs -----------------------------
(***************************************************************************)
(* IInv is an inductive invariant of Proxy, for every set of items and     *)
(* values, every setup() and every wrap of the clock.  From it follow the  *)
(* properties that the runs check on small instances.                      *)
(***************************************************************************)
EXTENDS Proxy, TLAPS

(* Only items that setup() asks for take a slot, and nothing is read,      *)
(* written or sent before it returns: configuring an item again cannot     *)
(* disturb a limit or a push.                                              *)
SetupInv ==
    /\ registered \subseteq DOMAIN Setup
    /\ ~ setup_done =>
          /\ awaiting = NoId
          /\ \A id \in Ids : /\ value[id] = known[id] /\ unsure[id] = {}
                             /\ seen[id] = NoId
                             /\ ~ upper_flag[id] /\ ~ lower_flag[id]

(* What the cloud will know once the push in flight is answered.           *)
answered == IF inflight = NoId THEN known[awaiting] ELSE inflight

(* The answer that is awaited is for the value the item shows, unless      *)
(* something newer was told about it since.                                *)
AnswerInv ==
    /\ awaiting = NoId => inflight = NoId
    /\ awaiting # NoId /\ unsure[awaiting] = {} => value[awaiting] = answered

(* The 32-bit time of the last TIME event is a moment that has passed.     *)
StampInv ==
    \A id \in Ids : stamp[id] <= now /\ last_timeout[id] = stamp[id] % Wrap

(* The mark of a limit says whether the value last read was beyond it.     *)
LimitInv ==
    \A id \in registered :
        /\ upper_flag[id] <=> "UPPER" \in beyond(id, seen[id])
        /\ lower_flag[id] <=> "LOWER" \in beyond(id, seen[id])

IInv ==
    /\ TypeOK
    /\ SetupInv
    /\ LastIdIsLargest
    /\ QuietIsKnown
    /\ AnswerInv
    /\ StampInv
    /\ LimitInv

-----------------------------------------------------------------------------
(* Lemmas                                                                  *)

(* The difference of two times that are less than a wrap apart survives    *)
(* that both are cut to 32 bits: the unsigned subtraction of check_timeout *)
(* (proxy.c:326-328).                                                      *)
LEMMA CutDifference ==
    ASSUME NEW W \in Nat \ {0}, NEW a \in Nat, NEW b \in Nat,
           b <= a, a - b < W
    PROVE  ((a % W) - (b % W)) % W = a - b
  <1> DEFINE p == a \div W
             q == b \div W
             r == a % W
             s == b % W
  <1>1. /\ a = W * p + r /\ r \in 0 .. (W - 1) /\ p \in Nat
        /\ b = W * q + s /\ s \in 0 .. (W - 1) /\ q \in Nat
    OBVIOUS
  <1> HIDE DEF p, q, r, s
  <1>2. p = q \/ p = q + 1
    BY <1>1
  <1>3. CASE p = q
    <2>1. r - s = a - b /\ r - s \in 0 .. (W - 1)
      BY <1>1, <1>3
    <2> QED
      BY <2>1 DEF r, s
  <1>4. CASE p = q + 1
    <2>1. W * p = W * q + W
      BY <1>1, <1>4
    <2>2. r - s = a - b - W /\ r - s \in (-W) .. (-1)
      BY <1>1, <2>1
    <2>3. (r - s) % W = (r - s) + W
      BY <2>2
    <2> QED
      BY <2>2, <2>3 DEF r, s
  <1> QED
    BY <1>2, <1>3, <1>4

(* What the uptime shows of a TIME event within a wrap of the clock, the   *)
(* invariant given: the period is measured as if there were no wrap.       *)
LEMMA ElapsedIsAge ==
    ASSUME TypeOK, StampInv, NEW id \in Ids, now - stamp[id] < Wrap
    PROVE  elapsed(id) = now - stamp[id]
  <1>1. now \in Nat /\ stamp[id] \in Nat /\ Wrap \in Nat \ {0}
    BY WrapAssumption DEF TypeOK
  <1>2. stamp[id] <= now /\ last_timeout[id] = stamp[id] % Wrap
    BY DEF StampInv
  <1>3. ((now % Wrap) - (stamp[id] % Wrap)) % Wrap = now - stamp[id]
    BY <1>1, <1>2, CutDifference
  <1> QED
    BY <1>2, <1>3 DEF elapsed, uptime32

(* The values that an item can be read or written with are values.         *)
LEMMA ReadableIsValue ==
    ASSUME TypeOK, NEW id \in Ids
    PROVE  Vals(id) \subseteq Values /\ readable(id) \subseteq Values
  BY DEF TypeOK, Vals, readable

(* A refusal of the marker 0xff as an id or a value, and of ids that are   *)
(* not numbers.                                                            *)
LEMMA IdsAreNat ==
    /\ \A id \in Ids : id \in Nat /\ id # NoId
    /\ NoId \notin Values /\ 0 \in Values
    /\ DOMAIN Setup \subseteq Ids
    /\ \A v \in Values : v \in Int
  BY IdsAssumption, ValuesAssumption, SetupAssumption

(* proxy_read keeps what IInv says of the values read: their types, the    *)
(* moment of the last TIME event and the marks of the limits               *)
(* (proxy.c:336-463).                                                      *)
LEMMA ReadKeepsItem ==
    ASSUME IInv, NEW id \in registered, NEW v \in Values,
           NEW forced \in BOOLEAN, NEW wait_resp \in BOOLEAN,
           proxy_read(id, v, forced, wait_resp), UNCHANGED <<pool, now>>
    PROVE  /\ target' \in [Ids -> Values] /\ value' \in [Ids -> Values]
           /\ send' \in [Ids -> BOOLEAN]
           /\ upper_flag' \in [Ids -> BOOLEAN]
           /\ lower_flag' \in [Ids -> BOOLEAN]
           /\ last_timeout' \in [Ids -> 0 .. (Wrap - 1)]
           /\ stamp' \in [Ids -> 0 .. Horizon]
           /\ seen' \in [Ids -> Values \cup {NoId}]
           /\ returned' \in [Ids -> BOOLEAN]
           /\ StampInv'
           /\ LimitInv'
           /\ LastIdIsLargest'
  <1>1. id \in Ids /\ TypeOK /\ v # NoId
    BY IdsAreNat DEF IInv, TypeOK
  <1>2. now \in Nat /\ now \in 0 .. Horizon /\ uptime32 \in 0 .. (Wrap - 1)
    BY WrapAssumption DEF IInv, TypeOK, uptime32
  <1>3. /\ target' \in [Ids -> Values] /\ value' \in [Ids -> Values]
        /\ send' \in [Ids -> BOOLEAN]
        /\ upper_flag' \in [Ids -> BOOLEAN]
        /\ lower_flag' \in [Ids -> BOOLEAN]
        /\ seen' \in [Ids -> Values \cup {NoId}]
        /\ returned' \in [Ids -> BOOLEAN]
    BY <1>1 DEF TypeOK, proxy_read, set_proxy_value, check_upper, check_lower,
       due, check_timeout, check_change, crossing
  <1>4. /\ last_timeout' \in [Ids -> 0 .. (Wrap - 1)]
        /\ stamp' \in [Ids -> 0 .. Horizon]
    BY <1>1, <1>2 DEF TypeOK, proxy_read, set_proxy_value
  <1>5. StampInv'
    <2> SUFFICES ASSUME NEW i \in Ids
                 PROVE  stamp'[i] <= now' /\ last_timeout'[i] = stamp'[i] % Wrap
      BY DEF StampInv
    <2>1. stamp[i] <= now /\ last_timeout[i] = stamp[i] % Wrap
      BY DEF IInv, StampInv
    <2>2. now <= now
      BY <1>2
    <2> QED
      BY <1>1, <2>1, <2>2 DEF TypeOK, proxy_read, set_proxy_value, uptime32
  <1>6. LimitInv'
    <2> SUFFICES ASSUME NEW i \in registered
                 PROVE  /\ upper_flag'[i] <=> "UPPER" \in beyond(i, seen[i])'
                        /\ lower_flag'[i] <=> "LOWER" \in beyond(i, seen[i])'
      BY DEF LimitInv, pool
    <2>1. i \in Ids /\ flags' = flags
      BY DEF IInv, TypeOK, pool
    <2>2. CASE i = id
      BY <1>1, <2>1, <2>2 DEF TypeOK, proxy_read, set_proxy_value, check_upper,
         check_lower, beyond
    <2>3. CASE i # id
      <3>1. /\ upper_flag'[i] = upper_flag[i] /\ lower_flag'[i] = lower_flag[i]
            /\ seen'[i] = seen[i]
        BY <1>1, <2>1, <2>3 DEF TypeOK, proxy_read, set_proxy_value
      <3> QED
        BY <2>1, <3>1 DEF IInv, LimitInv, beyond
    <2> QED
      BY <2>2, <2>3
  <1>7. LastIdIsLargest'
    BY DEF IInv, LastIdIsLargest, pool
  <1> QED
    BY <1>3, <1>4, <1>5, <1>6, <1>7

-----------------------------------------------------------------------------
(* Each call keeps the invariant                                           *)

(* proxy_init leaves an empty pool that satisfies IInv.                    *)
THEOREM InitInv == Init => IInv
  <1> SUFFICES ASSUME Init
               PROVE  IInv
    OBVIOUS
  <1>1. 0 % Wrap = 0 /\ 0 \in 0 .. (Wrap - 1) /\ 0 \in 0 .. Horizon
    BY WrapAssumption
  <1>2. TypeOK
    BY <1>1, IdsAreNat DEF Init, TypeOK
  <1>3. SetupInv /\ LastIdIsLargest /\ QuietIsKnown /\ AnswerInv /\ LimitInv
    BY DEF Init, SetupInv, LastIdIsLargest, QuietIsKnown, AnswerInv, LimitInv
  <1>4. StampInv
    BY <1>1 DEF Init, StampInv
  <1> QED
    BY <1>2, <1>3, <1>4 DEF IInv

(* Registering takes a slot of the pool and keeps last_id the largest id,  *)
(* in whatever order the items come (proxy.c:198).                         *)
LEMMA RegisterKeepsInv ==
    ASSUME IInv, NEW id \in DOMAIN Setup, knot_data_register(id)
    PROVE  IInv'
  <1> USE DEF knot_data_register, cloud, history
  <1>1. id \in Ids /\ id \in Nat /\ id # NoId
    BY IdsAreNat
  <1>2. TypeOK'
    BY <1>1 DEF IInv, TypeOK, in_pool, larger
  <1>3. SetupInv'
    BY <1>1 DEF IInv, SetupInv, TypeOK
  <1>4. LastIdIsLargest'
    <2>1. \A i \in registered : i \in Nat
      BY IdsAreNat DEF IInv, TypeOK
    <2>2. CASE registered = {}
      BY <1>1, <2>2 DEF IInv, LastIdIsLargest, larger
    <2>3. CASE registered # {}
      <3>1. last_id \in registered /\ last_id # NoId
        BY <2>3, IdsAreNat DEF IInv, TypeOK, LastIdIsLargest
      <3>2. \A i \in registered : i <= last_id
        BY <2>3 DEF IInv, LastIdIsLargest
      <3>3. CASE id > last_id
        BY <1>1, <2>1, <3>1, <3>2, <3>3 DEF LastIdIsLargest, larger
      <3>4. CASE ~ id > last_id
        BY <1>1, <2>1, <3>1, <3>2, <3>4 DEF LastIdIsLargest, larger
      <3> QED
        BY <3>3, <3>4
    <2> QED
      BY <2>2, <2>3
  <1>5. QuietIsKnown'
    BY <1>1 DEF IInv, TypeOK, SetupInv, QuietIsKnown
  <1>6. AnswerInv'
    BY DEF IInv, AnswerInv, SetupInv, answered
  <1>7. StampInv'
    BY DEF IInv, StampInv
  <1>8. LimitInv'
    <2> SUFFICES ASSUME NEW i \in registered'
                 PROVE  /\ upper_flag'[i] <=> "UPPER" \in beyond(i, seen[i])'
                        /\ lower_flag'[i] <=> "LOWER" \in beyond(i, seen[i])'
      BY DEF LimitInv
    <2>1. i \in Ids /\ seen'[i] = NoId
      BY <1>1 DEF IInv, TypeOK, SetupInv
    <2>2. ~ upper_flag'[i] /\ ~ lower_flag'[i]
      BY <1>1, <2>1 DEF IInv, TypeOK, SetupInv
    <2> QED
      BY <2>1, <2>2 DEF beyond
  <1> QED
    BY <1>2, <1>3, <1>4, <1>5, <1>6, <1>7, <1>8 DEF IInv

(* Configuring an item happens before anything is read: no mark of a limit *)
(* is left from other limits (proxy.c:204-296).                            *)
LEMMA ConfigKeepsInv ==
    ASSUME IInv, NEW id \in DOMAIN Setup, knot_data_config(id)
    PROVE  IInv'
  <1> USE DEF knot_data_config, cloud, sampled, history
  <1>1. id \in Ids
    BY IdsAreNat
  <1>2. TypeOK'
    BY <1>1, SetupAssumption DEF IInv, TypeOK
  <1>3. LimitInv'
    <2> SUFFICES ASSUME NEW i \in registered
                 PROVE  /\ upper_flag'[i] <=> "UPPER" \in beyond(i, seen[i])'
                        /\ lower_flag'[i] <=> "LOWER" \in beyond(i, seen[i])'
      BY DEF LimitInv
    <2>1. i \in Ids /\ seen'[i] = NoId /\ ~ upper_flag'[i] /\ ~ lower_flag'[i]
      BY DEF IInv, TypeOK, SetupInv
    <2> QED
      BY <2>1 DEF beyond
  <1> QED
    BY <1>2, <1>3 DEF IInv, SetupInv, LastIdIsLargest, QuietIsKnown, AnswerInv,
       answered, StampInv

(* setup() returns: nothing was read yet.                                  *)
LEMMA ReturnKeepsInv ==
    ASSUME IInv, setup_returns
    PROVE  IInv'
  BY DEF setup_returns, pool, sampled, cloud, history, IInv, TypeOK, SetupInv,
     LastIdIsLargest, QuietIsKnown, AnswerInv, answered, StampInv, LimitInv,
     beyond

(* The state machine polls an item: a value that is due stays marked until *)
(* it is answered, any other leaves the item as it was (sm.c:303-317).     *)
LEMMA PollKeepsInv ==
    ASSUME IInv, NEW id \in registered, NEW v \in readable(id), poll(id, v)
    PROVE  IInv'
  <1>1. id \in Ids /\ id # NoId /\ v \in Values /\ v # NoId
    BY IdsAreNat, ReadableIsValue DEF IInv, TypeOK
  <1>2. send[id] \in BOOLEAN
    BY <1>1 DEF IInv, TypeOK
  <1>3. UNCHANGED <<pool, now, known, setup_done>>
        /\ proxy_read(id, v, send[id], TRUE)
    BY DEF poll
  <1>4. /\ target' \in [Ids -> Values] /\ value' \in [Ids -> Values]
        /\ send' \in [Ids -> BOOLEAN]
        /\ upper_flag' \in [Ids -> BOOLEAN]
        /\ lower_flag' \in [Ids -> BOOLEAN]
        /\ last_timeout' \in [Ids -> 0 .. (Wrap - 1)]
        /\ stamp' \in [Ids -> 0 .. Horizon]
        /\ seen' \in [Ids -> Values \cup {NoId}]
        /\ returned' \in [Ids -> BOOLEAN]
        /\ StampInv' /\ LimitInv' /\ LastIdIsLargest'
    BY <1>1, <1>2, <1>3, ReadKeepsItem
  <1>5. TypeOK'
    BY <1>1, <1>3, <1>4 DEF IInv, TypeOK, poll, pool
  <1>6. SetupInv'
    BY <1>3 DEF IInv, SetupInv, poll, pool
  <1>7. CASE due(id, v, send[id])
    <2>1. /\ value' = [value EXCEPT ![id] = v]
          /\ send' = [send EXCEPT ![id] = TRUE]
          /\ awaiting' = id /\ inflight' = v
          /\ unsure' = [unsure EXCEPT ![id] = {}]
      BY <1>7 DEF poll, proxy_read, set_proxy_value
    <2>2. QuietIsKnown'
      BY <1>1, <1>3, <2>1 DEF IInv, TypeOK, QuietIsKnown, pool
    <2>3. AnswerInv'
      BY <1>1, <2>1 DEF IInv, TypeOK, AnswerInv, answered
    <2> QED
      BY <1>4, <1>5, <1>6, <2>2, <2>3 DEF IInv
  <1>8. CASE ~ due(id, v, send[id])
    <2>1. /\ value' = value /\ send' = send
          /\ UNCHANGED <<awaiting, inflight, unsure>>
      BY <1>1, <1>8 DEF poll, proxy_read, set_proxy_value, due, IInv, TypeOK
    <2> QED
      BY <1>3, <1>4, <1>5, <1>6, <2>1 DEF IInv, QuietIsKnown, AnswerInv,
         answered, pool
  <1> QED
    BY <1>7, <1>8

(* The answer to a push clears the mark of the item it was for, and the    *)
(* value that went with it, or a newer one, is what the item shows.        *)
LEMMA ConfirmKeepsInv ==
    ASSUME IInv, proxy_confirm_sent
    PROVE  IInv'
  <1> USE DEF proxy_confirm_sent, pool, history
  <1>1. awaiting \in registered /\ awaiting \in Ids /\ awaiting # NoId
    BY DEF IInv, TypeOK
  <1>2. TypeOK'
    BY <1>1 DEF IInv, TypeOK
  <1>3. QuietIsKnown'
    <2> SUFFICES ASSUME NEW i \in registered, ~ send'[i], unsure[i] = {}
                 PROVE  value[i] = known'[i]
      BY DEF QuietIsKnown
    <2>1. i \in Ids
      BY DEF IInv, TypeOK
    <2>2. CASE i = awaiting
      <3>1. value[i] = answered
        BY <1>1, <2>2 DEF IInv, AnswerInv
      <3> QED
        BY <1>1, <2>2, <3>1 DEF answered, IInv, TypeOK
    <2>3. CASE i # awaiting
      BY <1>1, <2>1, <2>3 DEF IInv, TypeOK, QuietIsKnown
    <2> QED
      BY <2>2, <2>3
  <1>4. SetupInv'
    BY <1>1 DEF IInv, SetupInv
  <1> QED
    BY <1>2, <1>3, <1>4 DEF IInv, LastIdIsLargest, AnswerInv, StampInv,
       LimitInv, beyond

(* A push that is not answered leaves its item marked.                     *)
LEMMA FailureKeepsInv ==
    ASSUME IInv, push_failed
    PROVE  IInv'
  BY DEF push_failed, pool, sampled, history, IInv, TypeOK, SetupInv,
     LastIdIsLargest, QuietIsKnown, AnswerInv, answered, StampInv, LimitInv,
     beyond

(* A poll request sends the value read at once: the item then shows what   *)
(* the cloud was told, or the loss of the answer is on record (sm.c:349).  *)
LEMMA PollRequestKeepsInv ==
    ASSUME IInv, NEW id \in registered, NEW v \in readable(id),
           poll_request(id, v)
    PROVE  IInv'
  <1>1. id \in Ids /\ id # NoId /\ v \in Values /\ v # NoId
    BY IdsAreNat, ReadableIsValue DEF IInv, TypeOK
  <1>2. UNCHANGED <<pool, now, setup_done>> /\ proxy_read(id, v, TRUE, FALSE)
    BY DEF poll_request
  <1>3. /\ target' \in [Ids -> Values] /\ value' \in [Ids -> Values]
        /\ send' \in [Ids -> BOOLEAN]
        /\ upper_flag' \in [Ids -> BOOLEAN]
        /\ lower_flag' \in [Ids -> BOOLEAN]
        /\ last_timeout' \in [Ids -> 0 .. (Wrap - 1)]
        /\ stamp' \in [Ids -> 0 .. Horizon]
        /\ seen' \in [Ids -> Values \cup {NoId}]
        /\ returned' \in [Ids -> BOOLEAN]
        /\ StampInv' /\ LimitInv' /\ LastIdIsLargest'
    BY <1>1, <1>2, ReadKeepsItem
  <1>4. /\ value' = [value EXCEPT ![id] = v]
        /\ send' = [send EXCEPT ![id] = FALSE]
    BY <1>2 DEF proxy_read, set_proxy_value, due
  <1>5. SetupInv'
    BY <1>2 DEF IInv, SetupInv, poll_request, pool
  <1>6. CASE told(id, v) /\ unsure' = [unsure EXCEPT ![id] = {}]
    <2>1. TypeOK'
      BY <1>1, <1>2, <1>3, <1>6 DEF IInv, TypeOK, told, pool
    <2>2. QuietIsKnown'
      BY <1>1, <1>2, <1>4, <1>6 DEF IInv, TypeOK, QuietIsKnown, told, pool
    <2>3. AnswerInv'
      BY <1>1, <1>4, <1>6 DEF IInv, TypeOK, AnswerInv, answered, told
    <2> QED
      BY <1>3, <1>5, <2>1, <2>2, <2>3 DEF IInv
  <1>7. CASE /\ unsure' = [unsure EXCEPT ![id] = @ \cup {"poll"}]
             /\ UNCHANGED <<awaiting, inflight, known>>
    <2>1. TypeOK'
      BY <1>1, <1>2, <1>3, <1>7 DEF IInv, TypeOK, pool
    <2>2. unsure'[id] # {}
      BY <1>1, <1>7 DEF IInv, TypeOK
    <2>3. QuietIsKnown'
      BY <1>1, <1>2, <1>4, <1>7, <2>2 DEF IInv, TypeOK, QuietIsKnown, pool
    <2>4. AnswerInv'
      BY <1>1, <1>4, <1>7, <2>2 DEF IInv, TypeOK, AnswerInv, answered
    <2> QED
      BY <1>3, <1>5, <2>1, <2>3, <2>4 DEF IInv
  <1> QED
    BY <1>6, <1>7 DEF poll_request

(* When the read callback of a poll request fails, the item stays marked.  *)
LEMMA PollRequestFailureKeepsInv ==
    ASSUME IInv, NEW id \in registered, poll_request_failed(id)
    PROVE  IInv'
  BY DEF poll_request_failed, pool, cloud, history, IInv, TypeOK, SetupInv,
     LastIdIsLargest, QuietIsKnown, AnswerInv, answered, StampInv, LimitInv,
     beyond

(* A write that is taken makes the item show what the cloud asked for.     *)
LEMMA WriteKeepsInv ==
    ASSUME IInv, NEW id \in registered, NEW v \in Vals(id),
           proxy_write(id, v)
    PROVE  IInv'
  <1> USE DEF proxy_write, told, pool, history
  <1>1. id \in Ids /\ id # NoId /\ v \in Values /\ v # NoId
    BY IdsAreNat, ReadableIsValue DEF IInv, TypeOK
  <1>2. TypeOK'
    BY <1>1 DEF IInv, TypeOK
  <1>3. QuietIsKnown'
    BY <1>1 DEF IInv, TypeOK, QuietIsKnown
  <1>4. AnswerInv'
    BY <1>1 DEF IInv, TypeOK, AnswerInv, answered
  <1> QED
    BY <1>2, <1>3, <1>4 DEF IInv, SetupInv, LastIdIsLargest, StampInv,
       LimitInv, beyond

(* One that is refused leaves a value the cloud does not hold: that the    *)
(* item is unsure is what keeps the invariant.                             *)
LEMMA RefusalKeepsInv ==
    ASSUME IInv, NEW id \in registered, NEW v \in Vals(id),
           proxy_write_refused(id, v)
    PROVE  IInv'
  <1> USE DEF proxy_write_refused, pool, history
  <1>1. id \in Ids /\ id # NoId /\ v \in Values /\ v # NoId
    BY IdsAreNat, ReadableIsValue DEF IInv, TypeOK
  <1>2. TypeOK'
    BY <1>1 DEF IInv, TypeOK
  <1>3. unsure'[id] # {}
    BY <1>1 DEF IInv, TypeOK
  <1>4. QuietIsKnown'
    BY <1>1, <1>3 DEF IInv, TypeOK, QuietIsKnown
  <1>5. AnswerInv'
    BY <1>1, <1>3 DEF IInv, TypeOK, AnswerInv, answered
  <1> QED
    BY <1>2, <1>4, <1>5 DEF IInv, SetupInv, LastIdIsLargest, StampInv,
       LimitInv, beyond

(* The application's own assignments do not reach the proxy by themselves. *)
LEMMA LoopKeepsInv ==
    ASSUME IInv, NEW id \in registered, NEW v \in Vals(id), loop_sets(id, v)
    PROVE  IInv'
  <1> USE DEF loop_sets, pool, sampled, cloud, history
  <1>1. id \in Ids /\ v \in Values
    BY ReadableIsValue DEF IInv, TypeOK
  <1>2. TypeOK'
    BY <1>1 DEF IInv, TypeOK
  <1> QED
    BY <1>2 DEF IInv, SetupInv, LastIdIsLargest, QuietIsKnown, AnswerInv,
       answered, StampInv, LimitInv, beyond

(* Time passes: what lies in the past stays there.                         *)
LEMMA TickKeepsInv ==
    ASSUME IInv, tick
    PROVE  IInv'
  <1> USE DEF tick, pool, sampled, cloud, history
  <1>1. now \in Nat /\ now + 1 \in 0 .. Horizon
    BY WrapAssumption DEF IInv, TypeOK
  <1>2. TypeOK'
    BY <1>1 DEF IInv, TypeOK
  <1>3. StampInv'
    <2> SUFFICES ASSUME NEW i \in Ids
                 PROVE  stamp[i] <= now + 1 /\ last_timeout[i] = stamp[i] % Wrap
      BY DEF StampInv
    <2>1. stamp[i] \in Nat /\ stamp[i] <= now
      BY DEF IInv, TypeOK, StampInv
    <2> QED
      BY <1>1, <2>1 DEF IInv, StampInv
  <1> QED
    BY <1>2, <1>3 DEF IInv, SetupInv, LastIdIsLargest, QuietIsKnown,
       AnswerInv, answered, LimitInv, beyond

(* Every step of the proxy and of its callers keeps IInv.                  *)
THEOREM NextInv == IInv /\ [Next]_vars => IInv'
  <1> SUFFICES ASSUME IInv, [Next]_vars
               PROVE  IInv'
    OBVIOUS
  <1>1. CASE SetupStep
    BY <1>1, RegisterKeepsInv, ConfigKeepsInv, ReturnKeepsInv DEF SetupStep
  <1>2. CASE \E id \in registered : PollStep(id)
    BY <1>2, PollKeepsInv DEF PollStep
  <1>3. CASE proxy_confirm_sent \/ push_failed
    BY <1>3, ConfirmKeepsInv, FailureKeepsInv
  <1>4. CASE CloudStep
    BY <1>4, PollRequestKeepsInv, PollRequestFailureKeepsInv, WriteKeepsInv,
       RefusalKeepsInv DEF CloudStep
  <1>5. CASE \E id \in registered : \E v \in Vals(id) : loop_sets(id, v)
    BY <1>5, LoopKeepsInv
  <1>6. CASE tick
    BY <1>6, TickKeepsInv
  <1>7. CASE UNCHANGED vars
    BY <1>7 DEF vars, pool, sampled, cloud, history, IInv, TypeOK, SetupInv,
       LastIdIsLargest, QuietIsKnown, AnswerInv, answered, StampInv, LimitInv,
       beyond
  <1> QED
    BY <1>1, <1>2, <1>3, <1>4, <1>5, <1>6, <1>7 DEF Next

-----------------------------------------------------------------------------
(* What follows from it                                                    *)

(* The proxy's state is an inductive invariant of its behaviours.          *)
THEOREM Invariance == Spec => []IInv
  BY InitInv, NextInv, PTL DEF Spec

(* An id is only taken within the pool, and every field has its type: the  *)
(* 32-bit times lie within a wrap, and an answer is awaited only for an    *)
(* item that is registered.                                                *)
THEOREM TypeCorrect == Spec => []TypeOK
  <1>1. IInv => TypeOK
    BY DEF IInv
  <1> QED
    BY <1>1, Invariance, PTL

(* Every walk over the items reaches the last one, in whatever order they  *)
(* were registered.                                                        *)
THEOREM WalksReachAll == Spec => []LastIdIsLargest
  <1>1. IInv => LastIdIsLargest
    BY DEF IInv
  <1> QED
    BY <1>1, Invariance, PTL

(* A value is lost to the cloud only while it is marked to be sent, a      *)
(* poll's answer was lost or a write was refused.                          *)
THEOREM NothingLostInSilence == Spec => []QuietIsKnown
  <1>1. IInv => QuietIsKnown
    BY DEF IInv
  <1> QED
    BY <1>1, Invariance, PTL

(* The TIME event is right for every period and every wrap of the clock,   *)
(* as long as the item is read once in a wrap.                             *)
THEOREM PeriodKept == Spec => []PeriodSurvivesWrap
  <1>1. IInv => PeriodSurvivesWrap
    <2> SUFFICES ASSUME IInv, NEW id \in registered, "TIME" \in flags[id],
                        now - stamp[id] < Wrap
                 PROVE  check_timeout(id) <=> now - stamp[id] >= Setup[id].time_sec
      BY DEF PeriodSurvivesWrap
    <2>1. elapsed(id) = now - stamp[id]
      BY ElapsedIsAge DEF IInv, TypeOK
    <2> QED
      BY <2>1 DEF check_timeout
  <1> QED
    BY <1>1, Invariance, PTL

-----------------------------------------------------------------------------
(* What a step may never do                                                *)

(* The state machine starts a push by polling the item, and pushes nothing *)
(* that is not due.                                                        *)
LEMMA NewPushIsPoll ==
    ASSUME IInv, [Next]_vars, NEW id \in registered, newly_pushed(id)
    PROVE  \E v \in readable(id) :
              /\ v \in Values
              /\ poll(id, v)
              /\ due(id, v, FALSE)
              /\ value'[id] = v /\ seen'[id] = v
  <1>1. id \in Ids /\ id # NoId /\ awaiting = NoId /\ awaiting' = id
        /\ ~ send[id]
    BY IdsAreNat DEF IInv, TypeOK, newly_pushed
  <1>2. awaiting' # awaiting
    BY <1>1
  <1>3. \E i \in registered : PollStep(i)
    BY <1>1, <1>2 DEF Next, vars, SetupStep, CloudStep, knot_data_register,
       knot_data_config, setup_returns, poll_request, told,
       poll_request_failed, proxy_write, proxy_write_refused, loop_sets, tick,
       proxy_confirm_sent, push_failed, cloud
  <1>4. PICK i \in registered : \E v \in readable(i) : poll(i, v)
    BY <1>3 DEF PollStep
  <1>5. PICK v \in readable(i) : poll(i, v)
    BY <1>4
  <1>6. due(i, v, send[i]) /\ i = id
    BY <1>1, <1>2, <1>5 DEF poll
  <1>7. v \in Values
    BY <1>1, <1>6, ReadableIsValue DEF IInv
  <1>8. value'[id] = v /\ seen'[id] = v
    BY <1>1, <1>5, <1>6 DEF poll, proxy_read, set_proxy_value, IInv, TypeOK
  <1> QED
    BY <1>1, <1>5, <1>6, <1>7, <1>8 DEF due

(* An item that reports changes only is pushed anew only when its value    *)
(* changed, unless it is a FLOAT: check_int_change compares the bits of a  *)
(* float with its number.                                                  *)
THEOREM UpdatesOnly ==
    ASSUME \A id \in DOMAIN Setup : Setup[id].vtype # "FLOAT"
    PROVE  Spec => OnlyUpdatesSent
  <1>1. ASSUME IInv, [Next]_vars, NEW id \in registered, newly_pushed(id),
               flags[id] = {"CHANGE"}
        PROVE  value'[id] # value[id]
    <2>1. PICK v \in Values : due(id, v, FALSE) /\ value'[id] = v
      BY <1>1, NewPushIsPoll
    <2>2. val_i(id) = value[id]
      BY <1>1 DEF val_i, IInv, SetupInv
    <2>3. check_change(id, v)
      BY <1>1, <2>1 DEF due, check_timeout, crossing, check_upper, check_lower
    <2> QED
      BY <2>1, <2>2, <2>3 DEF check_change
  <1>2. IInv /\ [Next]_vars =>
            [ \A id \in registered :
                newly_pushed(id) /\ flags[id] = {"CHANGE"}
                    => value'[id] # value[id] ]_vars
    BY <1>1
  <1> QED
    BY <1>2, Invariance, PTL DEF Spec, OnlyUpdatesSent

(* A limit reports when it is crossed, for every pair of limits - also of  *)
(* an item that has one limit only, or an upper one below the lower.       *)
THEOREM CrossingsOnly == Spec => SentOnlyAtCrossing
  <1>1. ASSUME IInv, [Next]_vars, NEW id \in registered, newly_pushed(id),
               "CHANGE" \notin flags[id], ~ check_timeout(id)
        PROVE  ~ beyond(id, seen'[id]) \subseteq beyond(id, seen[id])
    <2>1. PICK v \in Values : due(id, v, FALSE) /\ seen'[id] = v /\ v # NoId
      BY <1>1, NewPushIsPoll, IdsAreNat
    <2>2. crossing(id, v)
      BY <1>1, <2>1 DEF due, check_change
    <2>3. /\ upper_flag[id] <=> "UPPER" \in beyond(id, seen[id])
          /\ lower_flag[id] <=> "LOWER" \in beyond(id, seen[id])
      BY <1>1 DEF IInv, LimitInv
    <2>4. CASE check_upper(id, v) /\ ~ upper_flag[id]
      <3>1. "UPPER" \in beyond(id, seen'[id])
        BY <2>1, <2>4 DEF beyond, check_upper
      <3> QED
        BY <2>3, <2>4, <3>1
    <2>5. CASE check_lower(id, v) /\ ~ lower_flag[id]
      <3>1. "LOWER" \in beyond(id, seen'[id])
        BY <2>1, <2>5 DEF beyond, check_lower
      <3> QED
        BY <2>3, <2>5, <3>1
    <2> QED
      BY <2>2, <2>4, <2>5 DEF crossing
  <1>2. IInv /\ [Next]_vars =>
            [ \A id \in registered :
                newly_pushed(id) /\ "CHANGE" \notin flags[id]
                        /\ ~ check_timeout(id)
                    => ~ beyond(id, seen'[id]) \subseteq beyond(id, seen[id]) ]_vars
    BY <1>1
  <1> QED
    BY <1>2, Invariance, PTL DEF Spec, SentOnlyAtCrossing

(* proxy_read by whatever call keeps and returns a value that crosses a    *)
(* limit.                                                                  *)
LEMMA ReadReturnsCrossing ==
    ASSUME IInv, NEW id \in registered, NEW v \in Values,
           NEW forced \in BOOLEAN, NEW wait_resp \in BOOLEAN,
           proxy_read(id, v, forced, wait_resp), NEW i \in registered,
           ~ beyond(i, seen'[i]) \subseteq beyond(i, seen[i])
    PROVE  /\ i = id
           /\ returned'[id] /\ seen'[id] = v /\ value'[id] = v
  <1>1. id \in Ids /\ i \in Ids /\ v # NoId
    BY IdsAreNat DEF IInv, TypeOK
  <1>2. i = id
    BY <1>1 DEF proxy_read, IInv, TypeOK
  <1>3. seen'[id] = v
    BY <1>1 DEF proxy_read, IInv, TypeOK
  <1>4. /\ upper_flag[id] <=> "UPPER" \in beyond(id, seen[id])
        /\ lower_flag[id] <=> "LOWER" \in beyond(id, seen[id])
    BY DEF IInv, LimitInv
  <1>5. /\ "UPPER" \in beyond(id, v) <=> check_upper(id, v)
        /\ "LOWER" \in beyond(id, v) <=> check_lower(id, v)
        /\ beyond(id, v) \subseteq {"UPPER", "LOWER"}
    BY <1>1 DEF beyond, check_upper, check_lower
  <1>6. crossing(id, v)
    BY <1>2, <1>3, <1>4, <1>5 DEF crossing
  <1>7. due(id, v, forced)
    BY <1>6 DEF due
  <1>8. value'[id] = v /\ returned'[id]
    BY <1>1, <1>7 DEF proxy_read, set_proxy_value, IInv, TypeOK
  <1> QED
    BY <1>2, <1>3, <1>8

(* Whatever reads the item - its turn or a poll request from the cloud -   *)
(* no crossing of a limit is lost: the value goes out, and a push of it is *)
(* pending until it is answered (sm.c:286-305, sm.c:344-369).              *)
THEOREM CrossingsSent == Spec => CrossingSent
  <1>1. ASSUME IInv, Next, NEW id \in registered,
               ~ beyond(id, seen'[id]) \subseteq beyond(id, seen[id])
        PROVE  gets_out(id)
    <2>0. ~ UNCHANGED seen
      BY <1>1
    <2>1. \/ \E i \in registered : PollStep(i)
          \/ \E i \in registered : \E v \in readable(i) : poll_request(i, v)
      BY <1>1, <2>0 DEF Next, SetupStep, CloudStep, knot_data_register,
         knot_data_config, setup_returns, poll_request_failed, proxy_write,
         proxy_write_refused, loop_sets, tick, proxy_confirm_sent,
         push_failed, history
    <2>2. CASE \E i \in registered : PollStep(i)
      <3>1. PICK i \in registered : \E v \in readable(i) : poll(i, v)
        BY <2>2 DEF PollStep
      <3>2. PICK v \in readable(i) : poll(i, v)
        BY <3>1
      <3>3. i \in Ids /\ v \in Values /\ send[i] \in BOOLEAN
        BY <1>1, ReadableIsValue DEF IInv, TypeOK
      <3>4. proxy_read(i, v, send[i], TRUE)
        BY <3>2 DEF poll
      <3>5. /\ id = i
            /\ returned'[id] /\ seen'[id] = v /\ value'[id] = v
        BY <1>1, <3>3, <3>4, ReadReturnsCrossing
      <3>6. due(i, v, send[i])
        BY <1>1, <3>3, <3>4, <3>5 DEF proxy_read, IInv, TypeOK
      <3>8. send'[id]
        BY <1>1, <3>3, <3>4, <3>5, <3>6
           DEF proxy_read, set_proxy_value, IInv, TypeOK
      <3>7. awaiting = NoId /\ awaiting' = id /\ inflight' = v
        BY <3>2, <3>5, <3>6 DEF poll
      <3> QED
        BY <3>5, <3>7, <3>8 DEF gets_out, pushed
    <2>3. CASE \E i \in registered : \E v \in readable(i) : poll_request(i, v)
      <3>1. PICK i \in registered : \E v \in readable(i) : poll_request(i, v)
        BY <2>3
      <3>2. PICK v \in readable(i) : poll_request(i, v)
        BY <3>1
      <3>3. i \in Ids /\ v \in Values
        BY <1>1, ReadableIsValue DEF IInv, TypeOK
      <3>4. proxy_read(i, v, TRUE, FALSE)
        BY <3>2 DEF poll_request
      <3>5. /\ id = i
            /\ returned'[id] /\ seen'[id] = v /\ value'[id] = v
        BY <1>1, <3>3, <3>4, ReadReturnsCrossing
      <3>6. awaiting' = awaiting
        BY <3>2 DEF poll_request, told
      <3>7. ~ send'[id]
        BY <1>1, <3>3, <3>4, <3>5 DEF proxy_read, set_proxy_value, due, IInv,
           TypeOK
      <3> QED
        BY <3>5, <3>6, <3>7 DEF gets_out, told_at_poll
    <2> QED
      BY <2>1, <2>2, <2>3
  <1>2. IInv /\ [Next]_vars =>
            [ \A id \in registered :
                ~ beyond(id, seen'[id]) \subseteq beyond(id, seen[id])
                    => gets_out(id) ]_vars
    BY <1>1
  <1> QED
    BY <1>2, Invariance, PTL DEF Spec, CrossingSent

=============================================================================
