-------------------------------- MODULE Setup --------------------------------
(***************************************************************************)
(* The setup application, setup/src: a phone connects over Bluetooth LE    *)
(* and writes the peer's address (gatt_inet6.c), the OpenThread settings   *)
(* (a service of the system, with the callback ot_updated of bt_srv.c) and *)
(* the reset command (gatt_ctrl.c), while the main loop of main.c changes  *)
(* what is advertised and looks for the reset signal.                      *)
(*                                                                         *)
(* Two threads share active_conn and reset_signal: the main loop, and the  *)
(* Bluetooth receive thread that runs every callback.  A long address      *)
(* comes as prepared fragments: the stack calls write_ipv6 for each when   *)
(* it is queued and again, as a plain write, when the queue is executed.   *)
(* The OpenThread settings are one value here, that may have a wrong size, *)
(* or none at all.                                                         *)
(***************************************************************************)
EXTENDS Naturals, Sequences

CONSTANTS
    Long,         \* an address written in two fragments
    Short,        \* one that fits a single write, were it empty
    Networks,     \* values of the OpenThread settings
    Partial,      \* settings that are incomplete or of a wrong length
    Empty,        \* ... the first of which has no length at all
    None,         \* nothing stored
    Gone,         \* a key that was deleted
    PrepareCount  \* CONFIG_BT_ATT_PREPARE_COUNT

ASSUME SetupAssumption ==
    /\ None \notin Networks \cup {Long, Short, Partial, Empty, Gone}
    /\ Partial \notin Networks /\ Empty \notin Networks \cup {Partial}
    /\ Long # Short /\ Gone \notin {Long, Short}
    /\ PrepareCount \in Nat

VARIABLES
    \* flash:
    addr,           \* the key knot/ipv6
    ot,             \* the OpenThread settings
    nvs,            \* the network in OpenThread's own storage
    \* the main loop:
    loop_pc,        \* where the loop is
    adv_bool,       \* which service is advertised next
    advertising,    \* the radio advertises
    reset_signal,   \* set by the reset command
    \* the Bluetooth side:
    link,           \* a central is connected
    active_conn,    \* ... and the callback has said so
    queue,          \* prepared fragments
    busy,           \* what the receive thread is in the middle of
    build,          \* build_peer_ipv6
    ot_nvs_wiped,   \* static of ot_updated
    \* history:
    uneven,         \* the address was last written in part or out of order
    stale           \* erasing nvs after an update failed or was cut off

flash == <<addr, ot, nvs>>
loopVars == <<loop_pc, adv_bool, advertising>>
btVars == <<link, active_conn, queue, busy>>
setupVars == <<flash, loopVars, reset_signal, btVars, build, ot_nvs_wiped,
               uneven, stale>>

(* What an address is made of: a first part, and the rest if it is long.   *)
Whole == {<<Short, None>>, <<Long, Long>>}
Blank == <<None, None>>

(* A deleted key leaves an entry without a value in flash.                 *)
Deleted == <<Gone, None>>
Services == {"inet6", "mcumgr"}

-----------------------------------------------------------------------------
(* The main loop                                                           *)

(* The end of a turn looks for the reset signal.                           *)
turn_ends == loop_pc' = IF reset_signal THEN "sleep" ELSE "toggle"

(* Slip: the turn begins anew before the signal is looked at.              *)
slip_signal_skipped ==
    /\ loop_pc = "toggle"
    /\ \/ loop_pc' = "toggle"
       \/ ~ active_conn /\ loop_pc' = "advertise"
    /\ UNCHANGED <<adv_bool, advertising>>

(* bt_srv_toggle_advertising looks at the connection, then at the clock,   *)
(* and returns at once or goes on to advertise.                            *)
toggle_check ==
    /\ loop_pc = "toggle"
    /\ \/ turn_ends
       \/ ~ active_conn /\ loop_pc' = "advertise"
    /\ UNCHANGED <<adv_bool, advertising>>

service(next) == IF next THEN "inet6" ELSE "mcumgr"

(* bt_le_adv_stop and bt_le_adv_start, with the other service.  It cannot  *)
(* start while the one connection there is room for is up.                 *)
advertise(s, started) ==
    /\ loop_pc = "advertise"
    /\ s = service(adv_bool)
    /\ started => ~ link
    /\ advertising' = IF started THEN s ELSE "off"
    /\ adv_bool' = ~ adv_bool
    /\ turn_ends

loop_only ==
    UNCHANGED <<flash, reset_signal, btVars, build, ot_nvs_wiped, uneven, stale>>

main_loop ==
    /\ \/ toggle_check
       \/ \E s \in Services, started \in BOOLEAN : advertise(s, started)
    /\ loop_only

-----------------------------------------------------------------------------
(* The connection                                                          *)

(* The controller takes a connection and stops advertising by itself.      *)
link_up ==
    /\ advertising # "off" /\ ~ link
    /\ link' = TRUE
    /\ advertising' = "off"
    /\ UNCHANGED <<active_conn, queue, busy, loop_pc, adv_bool>>

connected ==
    /\ link /\ ~ active_conn
    /\ active_conn' = TRUE
    /\ UNCHANGED <<link, queue, busy, loopVars>>

(* Slip: the loss of a connection is taken for a new one.                  *)
slip_disconnected ==
    /\ active_conn /\ busy = "idle"
    /\ link' = FALSE
    /\ active_conn' = TRUE
    /\ queue' = << >>
    /\ UNCHANGED <<busy, loopVars>>

(* The stack drops what was prepared.                                      *)
disconnected ==
    /\ active_conn /\ busy = "idle"
    /\ link' = FALSE
    /\ active_conn' = FALSE
    /\ queue' = << >>
    /\ UNCHANGED <<busy, loopVars>>

link_only ==
    UNCHANGED <<flash, reset_signal, build, ot_nvs_wiped, uneven, stale>>

connection == (link_up \/ connected \/ disconnected) /\ link_only

served == active_conn /\ busy = "idle"

-----------------------------------------------------------------------------
(* gatt_inet6.c                                                            *)

(* The pieces a client writes, at an offset.                               *)
First(a) == [at |-> 1, text |-> a]
Rest == [at |-> 2, text |-> Long]

(* Slip: the rest of the buffer is not cleared at offset 0.                *)
slip_buffer_kept(piece) == [build EXCEPT ![piece.at] = piece.text]

(* The buffer is cleared by a write at offset 0.                           *)
built(piece) ==
    IF piece.at = 1 THEN <<piece.text, None>>
                    ELSE [build EXCEPT ![2] = piece.text]

(* A plain write of the piece: the whole buffer goes to flash, or fails to.*)
write_ipv6(piece, ok) ==
    /\ build' = built(piece)
    /\ addr' = IF ok THEN built(piece) ELSE addr

write_short ==
    /\ served
    /\ \E ok \in BOOLEAN :
        /\ write_ipv6(First(Short), ok)
        /\ uneven' = (uneven /\ ~ ok)
    /\ UNCHANGED <<queue, busy>>

(* A prepared piece goes to the buffer at once, even if the queue is full. *)
prepare_write ==
    /\ served
    /\ \E piece \in {First(Long), Rest} :
        /\ build' = built(piece)
        /\ queue' = IF Len(queue) < PrepareCount
                    THEN Append(queue, piece) ELSE queue
    /\ UNCHANGED <<addr, busy, uneven>>

cancel_write ==
    /\ served
    /\ queue # << >>
    /\ queue' = << >>
    /\ UNCHANGED <<addr, build, busy, uneven>>

(* The client asks for the pieces to be written: those of one address, in  *)
(* their order, if it is a client that knows what it does.                 *)
execute ==
    /\ served
    /\ queue # << >>
    /\ busy' = IF queue = <<First(Long), Rest>> THEN "write" ELSE "uneven"
    /\ UNCHANGED <<addr, build, queue, uneven>>

(* One piece is written; an error drops the others.                        *)
execute_piece ==
    /\ busy \in {"write", "uneven"}
    /\ \E ok \in BOOLEAN :
        /\ write_ipv6(Head(queue), ok)
        /\ queue' = IF ok THEN Tail(queue) ELSE << >>
        /\ busy' = IF ok /\ Len(queue) > 1 THEN busy ELSE "idle"
        /\ uneven' = IF ok THEN ~ (busy = "write" /\ Len(queue) = 1)
                           ELSE uneven

gatt_inet6 ==
    /\ write_short \/ prepare_write \/ cancel_write \/ execute
       \/ execute_piece
    /\ UNCHANGED <<ot, nvs, loopVars, reset_signal, link, active_conn,
                   ot_nvs_wiped, stale>>

-----------------------------------------------------------------------------
(* The OpenThread settings and the reset command                           *)

(* The system's service stores a value and then calls back.                *)
ot_write(v) ==
    /\ served
    /\ ot' = v
    /\ busy' = "ot"
    /\ UNCHANGED <<nvs, ot_nvs_wiped, stale>>

clear_ot_nvs ==
    \/ nvs' = None /\ stale' = FALSE
    \/ UNCHANGED nvs /\ stale' = TRUE

(* Slip: the flag is tested the wrong way round.                           *)
slip_wiped_inverted ==
    /\ busy = "ot"
    /\ busy' = "idle"
    /\ ot_nvs_wiped' = TRUE
    /\ IF ot_nvs_wiped THEN clear_ot_nvs ELSE UNCHANGED <<nvs, stale>>
    /\ UNCHANGED ot

(* The first update since the boot erases what OpenThread keeps of the     *)
(* network it was in.  Whether it did is not looked at.                    *)
ot_updated ==
    /\ busy = "ot"
    /\ busy' = "idle"
    /\ ot_nvs_wiped' = TRUE
    /\ IF ot_nvs_wiped THEN UNCHANGED <<nvs, stale>> ELSE clear_ot_nvs
    /\ UNCHANGED ot

ot_service ==
    /\ ot_updated \/ \E v \in Networks \cup {Partial, Empty} : ot_write(v)
    /\ UNCHANGED <<addr, loopVars, reset_signal, link, active_conn, queue,
                   build, uneven>>

gatt_ctrl ==
    /\ served
    /\ reset_signal' = TRUE
    /\ UNCHANGED <<flash, loopVars, btVars, build, ot_nvs_wiped, uneven,
                   stale>>

setup_step ==
    main_loop \/ connection \/ gatt_inet6 \/ ot_service \/ gatt_ctrl

=============================================================================
