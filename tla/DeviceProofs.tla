----------------------------- MODULE DeviceProofs -----------------------------
(***************************************************************************)
(* Proofs about Device: for every set of networks, length of the prepare   *)
(* queue and time the button has to be held, the address in flash is       *)
(* whole, the main application runs on a flash the boot may take for set   *)
(* up, OpenThread never starts on what is left of another network, and the *)
(* reset flag means the button was held.                                   *)
(***************************************************************************)
EXTENDS Device, SequenceTheorems, TLAPS

Pieces == {First(Long), Rest}

(* The prepared pieces are a sequence.                                     *)
QueueInv == queue \in Seq(Pieces)

(* While the pieces of one address are written, what is left is both, or   *)
(* the second with the first in the buffer (gatt_inet6.c:50-78).           *)
WriteInv ==
    /\ busy = "write" => \/ queue = <<First(Long), Rest>>
                         \/ queue = <<Rest>> /\ build = <<Long, None>>
    /\ busy = "uneven" => queue # << >>

(* Nothing of the Bluetooth side outlives the setup application, and       *)
(* nothing of the main one its own.                                        *)
AppInv ==
    /\ app # "setup" => busy = "idle" /\ ot_nvs_wiped = FALSE
    /\ app # "main" => main_pc = "start" /\ net = None /\ watching = FALSE

(* What OpenThread stored is of the network in the settings, or will be    *)
(* erased before the settings are used (bt_srv.c:130).                     *)
FreshInv ==
    /\ \/ stale = TRUE
       \/ nvs \in {None, ot}
       \/ ot \notin Loadable
       \/ busy = "ot" /\ ot_nvs_wiped = FALSE
    /\ ot_nvs_wiped = TRUE => stale = TRUE \/ nvs = None

(* A timer that runs, with no edge to be served, has been running since    *)
(* the button went down (peripheral.c:55-75).                              *)
HeldInv ==
    /\ watching = FALSE => rst_timer = 0 /\ edge = FALSE
    /\ rst_timer > 0 /\ edge = FALSE =>
         held = TRUE /\ rst_timer + down_for >= HoldTicks

IInv ==
    /\ TypeOK /\ QueueInv /\ WriteInv /\ AddressWhole
    /\ AppInv /\ MainIsSetUp /\ FreshInv /\ HeldInv


-----------------------------------------------------------------------------
(* What leaves a part of the state alone leaves its invariant              *)

(* The loop of the setup application turns on and off what a phone may do, *)
(* and touches neither the address nor the settings                        *)
(* (setup/src/main.c:118-129).                                             *)
LEMMA LoopKeeps ==
  ASSUME IInv, in_setup(main_loop)
  PROVE  IInv'
<1>1. UNCHANGED <<addr, ot, nvs, queue, busy, build, ot_nvs_wiped, uneven,
                  stale, held, watching, edge, rst_timer, rst_flag, down_for,
                  misread, app, main_pc, net, reset_signal, link, active_conn>>
  BY DEF in_setup, main_loop, loop_only, flash, btVars, buttonVars
<1>2. /\ loop_pc' \in {"toggle", "advertise", "sleep"}
      /\ advertising' \in Services \cup {"off"} /\ adv_bool' \in BOOLEAN
  BY DEF IInv, TypeOK, in_setup, main_loop, toggle_check, advertise, turn_ends
<1>3. TypeOK'
  BY <1>1, <1>2 DEF IInv, TypeOK
<1> QED
  BY <1>1, <1>3 DEF IInv, QueueInv, WriteInv, AddressWhole, AppInv, MainIsSetUp,
                    FreshInv, HeldInv

(* A connection comes and goes between writes, never in the middle of one  *)
(* (bt_srv.c:92-112).                                                      *)
LEMMA ConnectionKeeps ==
  ASSUME IInv, in_setup(connection)
  PROVE  IInv'
<1>1. UNCHANGED <<addr, ot, nvs, busy, build, ot_nvs_wiped, uneven, stale,
                  held, watching, edge, rst_timer, rst_flag, down_for,
                  misread, app, main_pc, net, reset_signal, loop_pc, adv_bool>>
  BY DEF in_setup, connection, link_only, link_up, connected, disconnected,
         loopVars, flash, buttonVars
<1>2. queue' = queue \/ (queue' = << >> /\ busy = "idle")
  <2>1. link_up \/ connected => queue' = queue
    BY DEF link_up, connected
  <2>2. disconnected => queue' = << >> /\ busy = "idle"
    BY DEF disconnected
  <2>3. connection
    BY DEF in_setup
  <2>4. link_up \/ connected \/ disconnected
    BY <2>3 DEF connection
  <2> QED
    BY <2>1, <2>2, <2>4
<1>3. QueueInv'
  <2>1. << >> \in Seq(Pieces)
    OBVIOUS
  <2> QED
    BY <1>2, <2>1 DEF IInv, QueueInv
<1>7. WriteInv'
  <2>1. CASE queue' = queue
    BY <1>1, <2>1 DEF IInv, WriteInv
  <2>2. CASE busy = "idle"
    BY <1>1, <2>2 DEF WriteInv
  <2> QED
    BY <1>2, <2>1, <2>2
<1>4. /\ link' \in BOOLEAN /\ active_conn' \in BOOLEAN
      /\ advertising' \in Services \cup {"off"}
  BY DEF IInv, TypeOK, in_setup, connection, link_up, connected, disconnected,
         loopVars
<1>5. Len(queue') <= PrepareCount
      /\ \A i \in 1 .. Len(queue') : queue'[i] \in {First(Long), Rest}
  BY <1>2, SetupAssumption DEF IInv, TypeOK
<1>6. TypeOK'
  BY <1>1, <1>4, <1>5 DEF IInv, TypeOK
<1> QED
  BY <1>1, <1>3, <1>6, <1>7 DEF IInv, AddressWhole, AppInv, MainIsSetUp,
                                FreshInv, HeldInv

-----------------------------------------------------------------------------
(* The address                                                             *)

(* What a write of the address leaves alone, and that no write comes       *)
(* outside the setup application (gatt_inet6.c:50-78).                     *)
LEMMA AddressFrame ==
  ASSUME in_setup(gatt_inet6)
  PROVE  /\ UNCHANGED <<ot, nvs, loop_pc, adv_bool, advertising, reset_signal,
                        link, active_conn, ot_nvs_wiped, stale, held, watching,
                        edge, rst_timer, rst_flag, down_for, misread, app,
                        main_pc, net>>
         /\ app = "setup"
BY DEF in_setup, gatt_inet6, loopVars, buttonVars

(* The invariant after a write, from what the write may change.            *)
LEMMA AddressKeeps ==
  ASSUME IInv, in_setup(gatt_inet6),
         addr' \in Parts \cup {Deleted},
         build' \in Parts,
         uneven' \in BOOLEAN,
         busy' \in {"idle", "write", "uneven", "ot"},
         busy = "ot" => busy' = "ot",
         queue' \in Seq(Pieces), Len(queue') <= PrepareCount,
         WriteInv', AddressWhole'
  PROVE  IInv'
<1>1. \A i \in 1 .. Len(queue') : queue'[i] \in {First(Long), Rest}
  BY DEF Pieces
<1>2. TypeOK'
  BY <1>1, AddressFrame DEF IInv, TypeOK
<1>3. QueueInv' /\ AppInv' /\ MainIsSetUp'
  BY AddressFrame DEF IInv, QueueInv, AppInv, MainIsSetUp
<1>4. FreshInv' /\ HeldInv'
  BY AddressFrame DEF IInv, FreshInv, HeldInv
<1> QED
  BY <1>2, <1>3, <1>4 DEF IInv

(* The buffer stays an address in two parts, and a write at offset 0       *)
(* clears what was there (gatt_inet6.c:61).                                *)
LEMMA BufferParts ==
  ASSUME IInv, NEW piece \in Pieces \cup {First(Short)}
  PROVE  /\ built(piece) \in Parts
         /\ piece = First(Short) => built(piece) = <<Short, None>>
         /\ piece = First(Long) => built(piece) = <<Long, None>>
         /\ piece = Rest => built(piece) = <<build[1], Long>>
<1>1. PICK x \in {None, Short, Long}, y \in {None, Long} : build = <<x, y>>
  BY DEF IInv, TypeOK, Parts
<1>2. [build EXCEPT ![2] = Long] = <<x, Long>> /\ build[1] = x
  BY <1>1
<1> QED
  BY <1>1, <1>2 DEF built, Pieces, First, Rest, Parts

(* A short address is written whole (gatt_inet6.c:50-78).                  *)
LEMMA ShortKeeps ==
  ASSUME IInv, in_setup(gatt_inet6), write_short
  PROVE  IInv'
<1>1. PICK ok \in BOOLEAN : /\ write_ipv6(First(Short), ok)
                            /\ uneven' = (uneven /\ ~ ok)
  BY DEF write_short
<1>2. build' = <<Short, None>> /\ addr' = IF ok THEN <<Short, None>> ELSE addr
  BY <1>1, BufferParts DEF write_ipv6
<1>3. busy = "idle" /\ busy' = busy /\ queue' = queue
  BY DEF write_short, served
<1>4. WriteInv'
  BY <1>3 DEF WriteInv
<1>5. AddressWhole'
  BY <1>1, <1>2 DEF IInv, AddressWhole, Whole
<1>6. /\ addr' \in Parts \cup {Deleted}
      /\ build' \in Parts
      /\ uneven' \in BOOLEAN
  BY <1>1, <1>2 DEF IInv, TypeOK, Parts
<1>7. queue' \in Seq(Pieces) /\ Len(queue') <= PrepareCount
      /\ busy' \in {"idle", "write", "uneven", "ot"}
  BY <1>3 DEF IInv, TypeOK, QueueInv
<1> QED
  BY <1>3, <1>4, <1>5, <1>6, <1>7, AddressKeeps

(* A prepared piece reaches the buffer and not the flash, and a full queue *)
(* does not grow (gatt_inet6.c:50-78).                                     *)
LEMMA PrepareKeeps ==
  ASSUME IInv, in_setup(gatt_inet6), prepare_write
  PROVE  IInv'
<1>1. PICK piece \in Pieces : /\ build' = built(piece)
                              /\ queue' = IF Len(queue) < PrepareCount
                                          THEN Append(queue, piece) ELSE queue
  BY DEF prepare_write, Pieces
<1>2. busy = "idle" /\ UNCHANGED <<addr, busy, uneven>>
  BY DEF prepare_write, served
<1>3. build' \in Parts
  BY <1>1, BufferParts
<1>4. queue \in Seq(Pieces) /\ Len(queue) <= PrepareCount
  BY DEF IInv, TypeOK, QueueInv
<1>5. queue' \in Seq(Pieces) /\ Len(queue') <= PrepareCount
  BY <1>1, <1>4, SetupAssumption
<1>6. WriteInv' /\ AddressWhole'
  BY <1>2 DEF IInv, WriteInv, AddressWhole
<1>7. /\ addr' \in Parts \cup {Deleted}
      /\ uneven' \in BOOLEAN /\ busy' \in {"idle", "write", "uneven", "ot"}
  BY <1>2 DEF IInv, TypeOK
<1> QED
  BY <1>2, <1>3, <1>5, <1>6, <1>7, AddressKeeps

(* Cancelling drops the pieces; executing takes them for one address only  *)
(* if they are (gatt_inet6.c:50-78).                                       *)
LEMMA QueueKeeps ==
  ASSUME IInv, in_setup(gatt_inet6), cancel_write \/ execute
  PROVE  IInv'
<1>1. UNCHANGED <<addr, build, uneven>> /\ busy = "idle" /\ queue # << >>
  BY DEF cancel_write, execute, served
<1>2. \/ queue' = << >> /\ busy' = busy
      \/ queue' = queue /\ busy' = "write" /\ queue = <<First(Long), Rest>>
      \/ queue' = queue /\ busy' = "uneven"
  BY DEF cancel_write, execute
<1>3. WriteInv'
  BY <1>1, <1>2 DEF WriteInv
<1>4. AddressWhole'
  BY <1>1 DEF IInv, AddressWhole
<1>5. queue' \in Seq(Pieces) /\ Len(queue') <= PrepareCount
  <2>1. << >> \in Seq(Pieces) /\ Len(<< >>) = 0
    OBVIOUS
  <2>2. queue' = queue \/ queue' = << >>
    BY <1>2
  <2> QED
    <3>1. CASE queue' = queue
      BY <3>1 DEF IInv, TypeOK, QueueInv
    <3>2. CASE queue' = << >>
      BY <2>1, <3>2, SetupAssumption
    <3> QED
      BY <2>2, <3>1, <3>2
<1>6. /\ addr' \in Parts \cup {Deleted}
      /\ build' \in Parts
      /\ uneven' \in BOOLEAN
  BY <1>1 DEF IInv, TypeOK
<1>7. busy' \in {"idle", "write", "uneven", "ot"}
  BY <1>1, <1>2
<1> QED
  BY <1>1, <1>3, <1>4, <1>5, <1>6, <1>7, AddressKeeps

(* The two pieces of one address, written one after the other, leave it    *)
(* whole in flash; whatever else was written counts as uneven              *)
(* (gatt_inet6.c:50-78).                                                   *)
LEMMA PieceKeeps ==
  ASSUME IInv, in_setup(gatt_inet6), execute_piece
  PROVE  IInv'
<1> DEFINE piece == Head(queue)
<1>1. PICK ok \in BOOLEAN :
        /\ build' = built(piece) /\ addr' = IF ok THEN built(piece) ELSE addr
        /\ queue' = IF ok THEN Tail(queue) ELSE << >>
        /\ busy' = IF ok /\ Len(queue) > 1 THEN busy ELSE "idle"
        /\ uneven' = IF ok THEN ~ (busy = "write" /\ Len(queue) = 1)
                           ELSE uneven
  BY DEF execute_piece, write_ipv6
<1>2. busy \in {"write", "uneven"}
  BY DEF execute_piece
<1>3. queue \in Seq(Pieces) /\ queue # << >> /\ Len(queue) <= PrepareCount
  <2>1. queue # << >>
    BY <1>2 DEF IInv, WriteInv
  <2> QED
    BY <2>1 DEF IInv, TypeOK, QueueInv
<1>4. piece \in Pieces /\ Tail(queue) \in Seq(Pieces)
      /\ Len(Tail(queue)) = Len(queue) - 1 /\ Len(queue) \in Nat
  BY <1>3, HeadTailProperties
<1>5. queue' \in Seq(Pieces) /\ Len(queue') <= PrepareCount
  <2>1. CASE ok
    BY <1>1, <1>3, <1>4, <2>1, SetupAssumption
  <2>2. CASE ~ ok
    BY <1>1, <2>2, SetupAssumption
  <2> QED
    BY <2>1, <2>2
<1>6. /\ built(piece) \in Parts
      /\ piece = First(Long) => built(piece) = <<Long, None>>
      /\ piece = Rest => built(piece) = <<build[1], Long>>
  BY <1>4, BufferParts
<1>7. WriteInv' /\ AddressWhole'
  <2>1. CASE ~ ok
    BY <1>1, <2>1 DEF IInv, WriteInv, AddressWhole
  <2>2. CASE ok /\ busy = "uneven"
    <3>1. Tail(queue) = << >> => Len(Tail(queue)) = 0
      BY <1>4, EmptySeq
    <3>2. Len(queue) > 1 => Tail(queue) # << >>
      BY <1>4, <3>1
    <3>3. /\ queue' = Tail(queue) /\ busy' \in {"uneven", "idle"}
          /\ busy' = "uneven" => Len(queue) > 1
          /\ uneven' = TRUE
      BY <1>1, <2>2
    <3> QED
      BY <3>2, <3>3 DEF WriteInv, AddressWhole
  <2>3. CASE ok /\ busy = "write" /\ queue = <<First(Long), Rest>>
    <3>1. /\ piece = First(Long) /\ Tail(queue) = <<Rest>> /\ Len(queue) = 2
      BY <2>3
    <3> HIDE DEF piece
    <3>2. build' = <<Long, None>> /\ queue' = <<Rest>>
      BY <1>1, <1>6, <2>3, <3>1
    <3>3. busy' = "write" /\ uneven'
      <4>1. Len(queue) > 1 /\ Len(queue) # 1
        BY <3>1
      <4> QED
        BY <1>1, <2>3, <4>1
    <3> QED
      BY <3>2, <3>3 DEF WriteInv, AddressWhole
  <2>4. CASE ok /\ busy = "write" /\ queue = <<Rest>> /\ build = <<Long, None>>
    <3>1. piece = Rest /\ Len(queue) = 1 /\ build[1] = Long
      BY <2>4
    <3> HIDE DEF piece
    <3>2. addr' = <<Long, Long>> /\ busy' = "idle"
      BY <1>1, <1>6, <2>4, <3>1
    <3> QED
      BY <3>2 DEF WriteInv, AddressWhole, Whole
  <2> QED
    BY <1>2, <2>1, <2>2, <2>3, <2>4 DEF IInv, WriteInv
<1>8. /\ addr' \in Parts \cup {Deleted}
      /\ build' \in Parts
  BY <1>1, <1>6 DEF IInv, TypeOK
<1>9. uneven' \in BOOLEAN /\ busy' \in {"idle", "write", "uneven", "ot"}
      /\ (busy = "ot" => busy' = "ot")
  BY <1>1, <1>2 DEF IInv, TypeOK
<1> QED
  BY <1>5, <1>7, <1>8, <1>9, AddressKeeps

-----------------------------------------------------------------------------
(* The settings, the reset command and the boot                            *)

(* The first update of the settings since the boot erases what OpenThread  *)
(* keeps, or leaves word that it did not; the ones after it find it erased *)
(* (bt_srv.c:130-140).                                                     *)
LEMMA SettingsKeep ==
  ASSUME IInv, in_setup(ot_service)
  PROVE  IInv'
<1>1. /\ UNCHANGED <<addr, queue, build, uneven, loop_pc, adv_bool,
                     advertising, reset_signal, link, active_conn, held,
                     watching, edge, rst_timer, rst_flag, down_for, misread,
                     app, main_pc, net>>
      /\ app = "setup"
  BY DEF in_setup, ot_service, loopVars, buttonVars
<1>2. ot_updated \/ \E v \in Networks \cup {Partial, Empty} : ot_write(v)
  BY DEF in_setup, ot_service
<1>3. CASE ot_updated
  <2>1. /\ busy = "ot" /\ busy' = "idle" /\ ot_nvs_wiped' = TRUE /\ ot' = ot
        /\ IF ot_nvs_wiped THEN UNCHANGED <<nvs, stale>> ELSE clear_ot_nvs
    BY <1>3 DEF ot_updated
  <2>2. /\ nvs' \in {None, nvs}
        /\ stale' \in BOOLEAN
        /\ stale' = TRUE \/ nvs' = None
    <3>1. CASE ot_nvs_wiped
      BY <2>1, <3>1 DEF IInv, TypeOK, FreshInv
    <3>2. CASE ~ ot_nvs_wiped
      BY <2>1, <3>2 DEF clear_ot_nvs
    <3> QED
      BY <3>1, <3>2
  <2>3. TypeOK'
    BY <1>1, <2>1, <2>2 DEF IInv, TypeOK
  <2>4. FreshInv'
    BY <2>2 DEF FreshInv
  <2> QED
    BY <1>1, <2>1, <2>3, <2>4
       DEF IInv, QueueInv, WriteInv, AddressWhole, AppInv, MainIsSetUp, HeldInv
<1>4. ASSUME NEW v \in Networks \cup {Partial, Empty}, ot_write(v)
      PROVE  IInv'
  <2>1. /\ ot' = v /\ busy = "idle" /\ busy' = "ot"
        /\ UNCHANGED <<nvs, ot_nvs_wiped, stale>>
    BY <1>4 DEF ot_write, served
  <2>2. TypeOK'
    BY <1>1, <2>1 DEF IInv, TypeOK, Loadable
  <2>3. FreshInv'
    BY <2>1 DEF IInv, TypeOK, FreshInv
  <2> QED
    BY <1>1, <2>1, <2>2, <2>3
       DEF IInv, QueueInv, WriteInv, AddressWhole, AppInv, MainIsSetUp, HeldInv
<1> QED
  BY <1>2, <1>3, <1>4

(* The reset command only sets its signal (gatt_ctrl.c:36).                *)
LEMMA CommandKeeps ==
  ASSUME IInv, in_setup(gatt_ctrl)
  PROVE  IInv'
<1>1. /\ UNCHANGED <<addr, ot, nvs, queue, busy, build, ot_nvs_wiped, uneven,
                     stale, loop_pc, adv_bool, advertising, link, active_conn,
                     held, watching, edge, rst_timer, rst_flag, down_for,
                     misread, app, main_pc, net>>
      /\ reset_signal' = TRUE
  BY DEF in_setup, gatt_ctrl, flash, loopVars, btVars, buttonVars
<1>2. TypeOK'
  BY <1>1 DEF IInv, TypeOK
<1> QED
  BY <1>1, <1>2 DEF IInv, QueueInv, WriteInv, AddressWhole, AppInv,
                    MainIsSetUp, FreshInv, HeldInv

(* The boot starts the main application only on an address it takes for    *)
(* set and settings it takes for loaded (setup/src/main.c:90).             *)
LEMMA BootKeeps ==
  ASSUME IInv, boot_step
  PROVE  IInv'
<1>1. PICK err \in BOOLEAN, rc \in BOOLEAN : select_app(err, rc)
  BY DEF boot_step
<1>2. /\ UNCHANGED <<addr, ot, nvs, queue, busy, build, ot_nvs_wiped, uneven,
                     stale, loop_pc, adv_bool, advertising, reset_signal, link,
                     active_conn, watching, edge, rst_timer, rst_flag,
                     down_for, main_pc, net>>
      /\ app = "boot"
  BY <1>1 DEF select_app, setupVars, flash, loopVars, btVars
<1>3. /\ app' \in {"no_setup", "setup", "no_main", "main"}
      /\ held' \in BOOLEAN /\ misread' \in BOOLEAN
  BY <1>1 DEF select_app
<1>4. app' = "main" => addr # Blank /\ ot \in Loadable
  BY <1>1 DEF select_app, run_setup, storage_is_set, ot_config_load
<1>5. TypeOK'
  BY <1>2, <1>3 DEF IInv, TypeOK, Apps
<1>6. QueueInv' /\ WriteInv' /\ AddressWhole' /\ FreshInv'
  BY <1>2 DEF IInv, QueueInv, WriteInv, AddressWhole, FreshInv
<1>7. AppInv' /\ MainIsSetUp'
  BY <1>2, <1>4 DEF IInv, AppInv, MainIsSetUp, AddressWhole
<1>8. HeldInv'
  BY <1>2 DEF IInv, AppInv, HeldInv
<1> QED
  BY <1>5, <1>6, <1>7, <1>8 DEF IInv

(* A reboot leaves the flash as it is but for what was wiped, and forgets  *)
(* the rest; an erasure it cuts off is one that failed.                    *)
LEMMA RebootKeeps ==
  ASSUME IInv, NEW next \in {"boot", "off"}, reboot(next),
         UNCHANGED <<nvs, misread>>,
         stale' \in BOOLEAN, stale => stale', busy = "ot" => stale',
         \/ UNCHANGED <<addr, ot, uneven>>
         \/ addr' = Blank /\ ot' = None /\ uneven' = FALSE
  PROVE  IInv'
<1>1. /\ app' = next /\ main_pc' = "start" /\ net' = None
      /\ loop_pc' = "toggle" /\ adv_bool' = FALSE /\ advertising' = "off"
      /\ reset_signal' = FALSE /\ link' = FALSE /\ active_conn' = FALSE
      /\ queue' = << >> /\ busy' = "idle" /\ build' = Blank
      /\ ot_nvs_wiped' = FALSE
      /\ watching' = FALSE /\ edge' = FALSE /\ rst_timer' = 0
      /\ rst_flag' = FALSE /\ down_for' = 0 /\ held' = held
  BY DEF reboot, button_boot
<1>2. /\ addr' \in Parts \cup {Deleted}
      /\ build' \in Parts
      /\ ot' \in Loadable \cup {None, Partial} /\ uneven' \in BOOLEAN
  <2>1. Blank \in Parts
    BY DEF Blank, Parts
  <2>2. CASE UNCHANGED <<addr, ot, uneven>>
    BY <1>1, <2>1, <2>2 DEF IInv, TypeOK
  <2>3. CASE addr' = Blank /\ ot' = None /\ uneven' = FALSE
    BY <1>1, <2>1, <2>3
  <2> QED
    BY <2>2, <2>3
<1>3. /\ QueueInv' /\ Len(queue') <= PrepareCount
      /\ \A i \in 1 .. Len(queue') : queue'[i] \in {First(Long), Rest}
  <2>1. << >> \in Seq(Pieces) /\ Len(<< >>) = 0
    OBVIOUS
  <2> QED
    BY <1>1, <2>1, SetupAssumption DEF QueueInv
<1>4. 0 \in 0 .. HoldTicks
  BY HoldAssumption
<1>5. TypeOK'
  BY <1>1, <1>2, <1>3, <1>4 DEF IInv, TypeOK, Apps, Steps
<1>6. WriteInv' /\ AppInv' /\ MainIsSetUp' /\ HeldInv'
  BY <1>1 DEF WriteInv, AppInv, MainIsSetUp, HeldInv
<1>7. AddressWhole'
  BY DEF IInv, AddressWhole
<1>8. FreshInv'
  <2>1. CASE ot' = None
    BY <1>1, <2>1, SetupAssumption DEF FreshInv, Loadable
  <2>2. CASE ot' = ot
    BY <1>1, <2>2 DEF IInv, TypeOK, FreshInv
  <2> QED
    BY <2>1, <2>2
<1> QED
  BY <1>3, <1>5, <1>6, <1>7, <1>8 DEF IInv

-----------------------------------------------------------------------------
(* The main application                                                    *)

(* OpenThread starts on complete settings and stores their network; the    *)
(* network thread joins it only with an address (net.c:197-233).           *)
LEMMA StartKeeps ==
  ASSUME IInv, start_threads
  PROVE  IInv'
<1>1. /\ UNCHANGED <<addr, ot, queue, busy, build, ot_nvs_wiped, uneven,
                     stale, loop_pc, adv_bool, advertising, reset_signal, link,
                     active_conn, held, watching, edge, rst_timer, rst_flag,
                     down_for, misread, app>>
      /\ app = "main" /\ main_pc = "start" /\ main_pc' = "init"
  BY DEF start_threads, loopVars, btVars, buttonVars
<1>2. /\ nvs' = nvs \/ (nvs' = ot /\ ot \in Loadable)
      /\ net' = None \/ (net' = ot /\ ot \in Loadable)
  <2>1. PICK key_read \in BOOLEAN, ot_read \in BOOLEAN, started \in BOOLEAN :
          /\ started => ot_config_load(ot_read)
          /\ nvs' = IF started THEN ot ELSE nvs
          /\ net' = IF started /\ storage_is_set(key_read) THEN ot ELSE None
    BY DEF start_threads
  <2> QED
    BY <2>1 DEF ot_config_load
<1>3. TypeOK'
  BY <1>1, <1>2 DEF IInv, TypeOK, Steps
<1>4. QueueInv' /\ WriteInv' /\ AddressWhole' /\ HeldInv'
  BY <1>1 DEF IInv, QueueInv, WriteInv, AddressWhole, HeldInv
<1>5. AppInv'
  BY <1>1 DEF IInv, AppInv
<1>6. MainIsSetUp'
  BY <1>1, <1>2 DEF IInv, MainIsSetUp
<1>7. FreshInv'
  BY <1>1, <1>2 DEF IInv, AppInv, FreshInv
<1> QED
  BY <1>3, <1>4, <1>5, <1>6, <1>7 DEF IInv

(* The button is watched from the main application on, with the timer      *)
(* stopped (peripheral.c:77-101).                                          *)
LEMMA PeripheralsKeep ==
  ASSUME IInv, init_peripherals
  PROVE  IInv'
<1>1. /\ UNCHANGED <<addr, ot, nvs, queue, busy, build, ot_nvs_wiped, uneven,
                     stale, loop_pc, adv_bool, advertising, reset_signal, link,
                     active_conn, held, edge, rst_timer, down_for, misread,
                     app, net>>
      /\ app = "main" /\ main_pc = "init" /\ main_pc' = "run"
  BY DEF init_peripherals, reset_init, setupVars, flash, loopVars, btVars,
         buttonVars
<1>2. \/ watching = FALSE /\ watching' = TRUE /\ rst_flag' = FALSE
      \/ watching' = watching /\ rst_flag' = rst_flag
  <2>1. reset_init \/ UNCHANGED buttonVars
    BY DEF init_peripherals
  <2>2. CASE reset_init
    BY <2>2 DEF reset_init, IInv, TypeOK
  <2>3. CASE UNCHANGED buttonVars
    BY <2>3 DEF buttonVars
  <2> QED
    BY <2>1, <2>2, <2>3
<1>3. watching' \in BOOLEAN /\ rst_flag' \in BOOLEAN
  BY <1>2 DEF IInv, TypeOK
<1>4. TypeOK'
  BY <1>1, <1>3 DEF IInv, TypeOK, Steps
<1>5. QueueInv' /\ WriteInv' /\ AddressWhole' /\ FreshInv'
  BY <1>1 DEF IInv, QueueInv, WriteInv, AddressWhole, FreshInv
<1>6. AppInv' /\ MainIsSetUp'
  BY <1>1 DEF IInv, AppInv, MainIsSetUp
<1>7. HeldInv'
  BY <1>1, <1>2, HoldAssumption DEF IInv, TypeOK, HeldInv
<1> QED
  BY <1>4, <1>5, <1>6, <1>7 DEF IInv

(* Whatever of the wipe fails, what it leaves is of no other network, and  *)
(* from its first step on the thing is not said to be set up (clear.c:66). *)
LEMMA WipeKeeps ==
  ASSUME IInv, see_reset \/ clear_factory
  PROVE  IInv'
<1>1. /\ UNCHANGED <<queue, busy, build, ot_nvs_wiped, loop_pc, adv_bool,
                     advertising, reset_signal, link, active_conn, held,
                     watching, edge, rst_timer, rst_flag, down_for, misread,
                     app, net>>
      /\ app = "main"
      /\ main_pc' \in {"keys", "settings", "nvs", "partition"}
  <2>1. see_reset => /\ UNCHANGED setupVars /\ UNCHANGED buttonVars
                     /\ app = "main" /\ main_pc' = "keys"
                     /\ UNCHANGED <<app, net>>
    BY DEF see_reset
  <2>2. clear_factory =>
          /\ UNCHANGED <<loopVars, reset_signal, btVars, build, ot_nvs_wiped,
                         buttonVars, app, net>>
          /\ app = "main" /\ main_pc' \in {"settings", "nvs", "partition"}
    BY DEF clear_factory, wipe_keys, wipe_settings, wipe_nvs
  <2> QED
    BY <2>1, <2>2 DEF setupVars, flash, loopVars, btVars, buttonVars
<1>2. /\ \/ UNCHANGED <<addr, uneven>>
         \/ addr' \in {Blank, Deleted} /\ uneven' = FALSE
      /\ ot' \in {None, Partial, ot}
      /\ \/ UNCHANGED <<nvs, stale>>
         \/ nvs' = None /\ stale' = FALSE
  <2>1. see_reset => UNCHANGED <<addr, uneven, ot, nvs, stale>>
    BY DEF see_reset, setupVars, flash
  <2>2. clear_factory => wipe_keys \/ wipe_settings \/ wipe_nvs
    BY DEF clear_factory
  <2> QED
    BY <2>1, <2>2 DEF wipe_keys, wipe_settings, wipe_nvs
<1>3. Blank \in Parts
  BY DEF Blank, Parts
<1>4. TypeOK'
  <2>1. addr' \in Parts \cup {Deleted} /\ uneven' \in BOOLEAN
    BY <1>2, <1>3 DEF IInv, TypeOK
  <2>2. /\ ot' \in Loadable \cup {None, Partial}
        /\ nvs' \in Loadable \cup {None} /\ stale' \in BOOLEAN
    BY <1>2 DEF IInv, TypeOK
  <2>3. main_pc' \in Steps
    BY <1>1 DEF Steps
  <2> QED
    BY <1>1, <2>1, <2>2, <2>3 DEF IInv, TypeOK
<1>5. QueueInv' /\ WriteInv' /\ HeldInv'
  BY <1>1 DEF IInv, QueueInv, WriteInv, HeldInv
<1>6. AddressWhole'
  BY <1>2 DEF IInv, AddressWhole
<1>7. AppInv' /\ MainIsSetUp'
  BY <1>1 DEF IInv, AppInv, MainIsSetUp
<1>8. FreshInv'
  <2>1. None \notin Loadable /\ Partial \notin Loadable
    BY SetupAssumption DEF Loadable
  <2>2. ot_nvs_wiped' = FALSE /\ busy = "idle"
    BY <1>1 DEF IInv, AppInv
  <2>3. stale = TRUE \/ nvs \in {None, ot} \/ ot \notin Loadable
    BY <2>2 DEF IInv, FreshInv
  <2> QED
    BY <1>2, <2>1, <2>2, <2>3 DEF FreshInv
<1> QED
  BY <1>4, <1>5, <1>6, <1>7, <1>8 DEF IInv

-----------------------------------------------------------------------------
(* The button                                                              *)

(* Every edge is served before the next tick and starts the timer anew or  *)
(* stops it, so that a running timer counts with the button                *)
(* (peripheral.c:55-75).                                                   *)
LEMMA ButtonKeeps ==
  ASSUME IInv, button_step
  PROVE  IInv'
<1>1. /\ UNCHANGED <<addr, ot, nvs, queue, busy, build, ot_nvs_wiped, uneven,
                     stale, loop_pc, adv_bool, advertising, reset_signal, link,
                     active_conn, app, main_pc, net>>
      /\ watching' = watching
  <2>1. watching' = watching
    BY DEF button_step, press_or_release, button_tick, rst_btn_edge
  <2> QED
    BY <2>1 DEF button_step, setupVars, flash, loopVars, btVars
<1>2. /\ rst_timer \in 0 .. HoldTicks /\ down_for \in 0 .. HoldTicks
      /\ held \in BOOLEAN /\ watching \in BOOLEAN /\ edge \in BOOLEAN
      /\ rst_flag \in BOOLEAN /\ misread \in BOOLEAN
      /\ HoldTicks \in Nat /\ HoldTicks > 0
  BY HoldAssumption DEF IInv, TypeOK
<1>3. /\ watching = FALSE => rst_timer = 0 /\ edge = FALSE
      /\ rst_timer > 0 /\ edge = FALSE =>
           held = TRUE /\ rst_timer + down_for >= HoldTicks
  BY DEF IInv, HeldInv
<1>4. /\ HeldInv'
      /\ rst_timer' \in 0 .. HoldTicks /\ down_for' \in 0 .. HoldTicks
      /\ held' \in BOOLEAN /\ edge' \in BOOLEAN
      /\ rst_flag' \in BOOLEAN /\ misread' \in BOOLEAN
  <2>1. CASE press_or_release
    <3>1. /\ edge' = watching /\ rst_timer' = rst_timer /\ down_for' = 0
          /\ held' \in BOOLEAN
          /\ UNCHANGED <<rst_flag, misread>>
      BY <2>1 DEF press_or_release
    <3>2. 0 \in 0 .. HoldTicks
      BY <1>2
    <3> QED
      BY <1>1, <1>2, <1>3, <3>1, <3>2 DEF HeldInv
  <2>2. CASE button_tick
    <3>1. /\ watching = TRUE /\ edge = FALSE
          /\ down_for' = IF held /\ down_for < HoldTicks THEN down_for + 1
                                                         ELSE down_for
          /\ rst_timer' = IF rst_timer > 1 THEN rst_timer - 1 ELSE rst_timer
          /\ UNCHANGED <<held, edge, misread>>
      BY <1>2, <2>2 DEF button_tick
    <3>2. rst_flag' \in BOOLEAN
      BY <2>2 DEF button_tick
    <3>3. rst_timer' \in 0 .. HoldTicks /\ down_for' \in 0 .. HoldTicks
      BY <1>2, <3>1
    <3>4. rst_timer' > 0 => held = TRUE /\ rst_timer' + down_for' >= HoldTicks
      BY <1>2, <1>3, <3>1
    <3> QED
      BY <1>1, <1>2, <3>1, <3>2, <3>3, <3>4 DEF HeldInv
  <2>3. CASE \E rc \in BOOLEAN : rst_btn_edge(rc)
    <3>1. PICK rc \in BOOLEAN : rst_btn_edge(rc)
      BY <2>3
    <3>2. /\ edge = TRUE /\ edge' = FALSE /\ misread' = rc
          /\ rst_timer' = IF rc \/ ~ held THEN 0 ELSE HoldTicks
          /\ UNCHANGED <<held, rst_flag, down_for>>
      BY <1>2, <3>1 DEF rst_btn_edge
    <3>3. 0 \in 0 .. HoldTicks /\ HoldTicks \in 0 .. HoldTicks
      BY <1>2
    <3>4. HeldInv'
      BY <1>1, <1>2, <1>3, <3>2 DEF HeldInv
    <3> QED
      BY <1>2, <3>2, <3>3, <3>4
  <2> QED
    BY <2>1, <2>2, <2>3 DEF button_step
<1>5. TypeOK'
  BY <1>1, <1>4 DEF IInv, TypeOK
<1>6. QueueInv' /\ WriteInv' /\ AddressWhole' /\ FreshInv'
  BY <1>1 DEF IInv, QueueInv, WriteInv, AddressWhole, FreshInv
<1>7. AppInv' /\ MainIsSetUp'
  BY <1>1 DEF IInv, AppInv, MainIsSetUp
<1> QED
  BY <1>4, <1>5, <1>6, <1>7 DEF IInv

-----------------------------------------------------------------------------
(* The theorems                                                            *)

(* The invariant holds of a thing that leaves the factory.                 *)
THEOREM InitInv == Init => IInv
<1> SUFFICES ASSUME Init PROVE IInv
  OBVIOUS
<1>1. << >> \in Seq(Pieces) /\ Len(<< >>) = 0
  OBVIOUS
<1>2. Blank \in Parts /\ 0 \in 0 .. HoldTicks
  BY HoldAssumption DEF Blank, Parts
<1>3. Len(queue) <= PrepareCount
      /\ \A i \in 1 .. Len(queue) : queue[i] \in {First(Long), Rest}
  BY <1>1, SetupAssumption DEF Init
<1>4. TypeOK
  BY <1>2, <1>3 DEF Init, TypeOK, Apps, Steps
<1>5. QueueInv /\ WriteInv /\ AddressWhole
  BY <1>1 DEF Init, QueueInv, WriteInv, AddressWhole
<1>6. AppInv /\ MainIsSetUp /\ FreshInv /\ HeldInv
  BY DEF Init, AppInv, MainIsSetUp, FreshInv, HeldInv
<1> QED
  BY <1>4, <1>5, <1>6 DEF IInv

(* Every step of the phone, of the two applications, of the button and of  *)
(* the power keeps it.                                                     *)
THEOREM NextInv == IInv /\ [Next]_vars => IInv'
<1> SUFFICES ASSUME IInv, [Next]_vars PROVE IInv'
  OBVIOUS
<1>1. CASE power_on
  <2>1. /\ UNCHANGED <<addr, ot, nvs, queue, busy, build, ot_nvs_wiped, uneven,
                       stale, loop_pc, adv_bool, advertising, reset_signal,
                       link, active_conn, held, watching, edge, rst_timer,
                       rst_flag, down_for, misread, main_pc, net>>
        /\ app = "off" /\ app' = "boot"
    BY <1>1 DEF power_on, setupVars, flash, loopVars, btVars, buttonVars
  <2>2. TypeOK'
    BY <2>1 DEF IInv, TypeOK, Apps
  <2> QED
    BY <2>1, <2>2 DEF IInv, QueueInv, WriteInv, AddressWhole, AppInv,
                      MainIsSetUp, FreshInv, HeldInv
<1>2. CASE power_cut
  <2>1. /\ reboot("off") /\ stale' = (stale \/ busy = "ot")
        /\ UNCHANGED <<addr, ot, nvs, uneven, misread>>
    BY <1>2 DEF power_cut, flash
  <2> QED
    BY <2>1, RebootKeeps DEF IInv, TypeOK
<1>3. CASE boot_step
  BY <1>3, BootKeeps
<1>4. CASE in_setup(setup_step)
  <2>1. CASE in_setup(main_loop)
    BY <2>1, LoopKeeps
  <2>2. CASE in_setup(connection)
    BY <2>2, ConnectionKeeps
  <2>3. CASE in_setup(gatt_inet6)
    BY <2>3, ShortKeeps, PrepareKeeps, QueueKeeps, PieceKeeps
       DEF in_setup, gatt_inet6
  <2>4. CASE in_setup(ot_service)
    BY <2>4, SettingsKeep
  <2>5. CASE in_setup(gatt_ctrl)
    BY <2>5, CommandKeeps
  <2> QED
    BY <1>4, <2>1, <2>2, <2>3, <2>4, <2>5 DEF in_setup, setup_step
<1>5. CASE setup_reboot
  <2>1. /\ reboot("boot") /\ stale' = (stale \/ busy = "ot")
        /\ UNCHANGED <<addr, ot, nvs, uneven, misread>>
    BY <1>5 DEF setup_reboot, flash
  <2> QED
    BY <2>1, RebootKeeps DEF IInv, TypeOK
<1>6. CASE main_step
  <2>1. CASE clear_settings_reboot
    <3>1. /\ reboot("boot") /\ UNCHANGED <<nvs, stale, misread>>
          /\ app = "main"
          /\ \/ UNCHANGED <<addr, ot, uneven>>
             \/ addr' = Blank /\ ot' = None /\ uneven' = FALSE
      BY <2>1 DEF clear_settings_reboot
    <3>2. busy = "idle" /\ stale' \in BOOLEAN
      BY <3>1 DEF IInv, TypeOK, AppInv
    <3> QED
      BY <3>1, <3>2, RebootKeeps
  <2> QED
    BY <1>6, <2>1, StartKeeps, PeripheralsKeep, WipeKeeps DEF main_step
<1>7. CASE button_step
  BY <1>7, ButtonKeeps
<1>8. CASE UNCHANGED vars
  <2>1. UNCHANGED <<addr, ot, nvs, queue, busy, build, ot_nvs_wiped, uneven,
                    stale, loop_pc, adv_bool, advertising, reset_signal, link,
                    active_conn, held, watching, edge, rst_timer, rst_flag,
                    down_for, misread, app, main_pc, net>>
    BY <1>8 DEF vars, setupVars, flash, loopVars, btVars, buttonVars
  <2>2. TypeOK'
    BY <2>1 DEF IInv, TypeOK
  <2> QED
    BY <2>1, <2>2 DEF IInv, QueueInv, WriteInv, AddressWhole, AppInv,
                      MainIsSetUp, FreshInv, HeldInv
<1> QED
  BY <1>1, <1>2, <1>3, <1>4, <1>5, <1>6, <1>7, <1>8 DEF Next

(* The invariant holds through every life of a thing.                      *)
THEOREM Invariance == Spec => []IInv
BY InitInv, NextInv, PTL DEF Spec

(* The state of the two applications and the button is of its type.        *)
THEOREM TypeCorrect == Spec => []TypeOK
<1>1. IInv => TypeOK
  BY DEF IInv
<1> QED
  BY <1>1, Invariance, PTL

(* The address in flash is one that a phone wrote, whole, unless a write   *)
(* was cut off between its pieces or they came out of order                *)
(* (gatt_inet6.c:50-78).                                                   *)
THEOREM WholeAddress == Spec => []AddressWhole
<1>1. IInv => AddressWhole
  BY DEF IInv
<1> QED
  BY <1>1, Invariance, PTL

(* Until it wipes them itself, the main application runs with settings     *)
(* that are complete and an address that is whole, but for the settings of *)
(* no length, the address cut off or out of order, and the deleted one     *)
(* that the boot takes for set (setup/src/main.c:90, ot_config.c:49).      *)
THEOREM SetUpBeforeMain == Spec => []MainIsSetUp
<1>1. IInv => MainIsSetUp
  BY DEF IInv
<1> QED
  BY <1>1, Invariance, PTL

(* OpenThread never starts on what it stored of another network, unless    *)
(* its erasure failed or was cut off (bt_srv.c:130).                       *)
THEOREM FreshNetwork == Spec => JoinsAfresh
<1> DEFINE Joins == nvs' \notin {None, nvs} => stale \/ nvs = None
<1>1. IInv /\ [Next]_vars => [Joins]_vars
  <2> SUFFICES ASSUME IInv, Next PROVE Joins
    BY DEF vars, setupVars, flash
  <2>1. CASE start_threads
    <3>1. /\ app = "main" /\ main_pc = "start"
          /\ nvs' = nvs \/ nvs' = ot
      BY <2>1 DEF start_threads
    <3>2. busy = "idle" /\ ot \in Loadable
      BY <3>1 DEF IInv, AppInv, MainIsSetUp
    <3> QED
      BY <3>1, <3>2 DEF IInv, FreshInv
  <2>2. CASE main_step /\ ~ start_threads
    BY <2>2 DEF main_step, init_peripherals, see_reset, clear_factory,
                wipe_keys, wipe_settings, wipe_nvs, clear_settings_reboot,
                setupVars, flash
  <2>3. CASE in_setup(setup_step)
    <3>1. CASE main_loop \/ connection \/ gatt_inet6 \/ gatt_ctrl
      BY <3>1 DEF main_loop, loop_only, connection, link_only, gatt_inet6,
                  gatt_ctrl, flash
    <3>2. CASE ot_service
      BY <3>2 DEF ot_service, ot_updated, ot_write, clear_ot_nvs
    <3> QED
      BY <2>3, <3>1, <3>2 DEF in_setup, setup_step
  <2>4. CASE power_on \/ power_cut \/ setup_reboot
    BY <2>4 DEF power_on, power_cut, setup_reboot, setupVars, flash
  <2>5. CASE boot_step \/ button_step
    BY <2>5 DEF boot_step, select_app, button_step, setupVars, flash
  <2> QED
    BY <2>1, <2>2, <2>3, <2>4, <2>5 DEF Next
<1> QED
  BY <1>1, Invariance, PTL DEF Spec, JoinsAfresh

(* The reset flag means the button has been down for the whole time,       *)
(* whatever bounces came before (peripheral.c:55).                         *)
THEOREM ResetWasHeld == Spec => ResetMeansHeld
<1> DEFINE Held == rst_flag' => rst_flag \/ down_for' = HoldTicks
<1>1. IInv /\ [Next]_vars => [Held]_vars
  <2> SUFFICES ASSUME IInv, Next PROVE Held
    BY DEF vars, buttonVars
  <2>1. CASE button_step
    <3>1. CASE button_tick
      <4>1. rst_timer = 1 => held = TRUE /\ down_for >= HoldTicks - 1
        <5>1. edge = FALSE /\ rst_timer \in Nat /\ down_for \in Nat
              /\ HoldTicks \in Nat
          BY <3>1, HoldAssumption DEF button_tick, IInv, TypeOK
        <5> QED
          BY <5>1 DEF IInv, HeldInv
      <4>2. down_for \in 0 .. HoldTicks /\ HoldTicks \in Nat
        BY HoldAssumption DEF IInv, TypeOK
      <4>3. rst_timer = 1 => down_for' = HoldTicks
        <5>1. down_for' = IF held /\ down_for < HoldTicks THEN down_for + 1
                                                          ELSE down_for
          BY <3>1 DEF button_tick
        <5> QED
          BY <4>1, <4>2, <5>1
      <4>4. rst_flag' = (rst_flag \/ rst_timer = 1)
        BY <3>1 DEF button_tick
      <4> QED
        BY <4>3, <4>4
    <3>2. CASE press_or_release \/ \E rc \in BOOLEAN : rst_btn_edge(rc)
      BY <3>2 DEF press_or_release, rst_btn_edge
    <3> QED
      BY <2>1, <3>1, <3>2 DEF button_step
  <2>2. CASE main_step
    <3>1. CASE init_peripherals
      BY <3>1 DEF init_peripherals, reset_init, buttonVars
    <3>2. CASE start_threads \/ see_reset \/ clear_factory
      BY <3>2 DEF start_threads, see_reset, clear_factory, buttonVars
    <3>3. CASE clear_settings_reboot
      BY <3>3 DEF clear_settings_reboot, reboot, button_boot
    <3> QED
      BY <2>2, <3>1, <3>2, <3>3 DEF main_step
  <2>3. CASE in_setup(setup_step) \/ power_on
    BY <2>3 DEF in_setup, power_on, buttonVars
  <2>4. CASE power_cut \/ setup_reboot
    BY <2>4 DEF power_cut, setup_reboot, reboot, button_boot
  <2>5. CASE boot_step
    BY <2>5 DEF boot_step, select_app
  <2> QED
    BY <2>1, <2>2, <2>3, <2>4, <2>5 DEF Next
<1> QED
  BY <1>1, Invariance, PTL DEF Spec, ResetMeansHeld

===============================================================================
