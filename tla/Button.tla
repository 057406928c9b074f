------------------------------- MODULE Button -------------------------------
(***************************************************************************)
(* The reset button of the main application, core/src/peripheral.c: both   *)
(* edges of the pin raise an interrupt whose handler starts or stops a     *)
(* kernel timer, and the timer sets the flag that the protocol thread      *)
(* reads once in each turn.                                                *)
(*                                                                         *)
(* The unit of time is the period of the timer.  Edges that come before    *)
(* the handler ran are one interrupt, and the handler reads the level as   *)
(* it is then.                                                             *)
(***************************************************************************)
EXTENDS Integers

CONSTANT HoldTicks   \* RST_FLASH_TIMEOUT in units of RST_FLASH_PERIOD

ASSUME HoldAssumption == HoldTicks \in Nat \ {0}

VARIABLES
    held,        \* the button is down: the pin reads 0
    watching,    \* peripheral_init has enabled the interrupt
    edge,        \* an interrupt is pending
    rst_timer,   \* ticks until the timer fires, 0 when it is stopped
    rst_flag,
    \* history:
    down_for,    \* ticks it has been down without a break, while watched
    misread      \* it was last read in vain, and taken for released

buttonVars == <<held, watching, edge, rst_timer, rst_flag, down_for, misread>>

press_or_release ==
    /\ held' = ~ held
    /\ edge' = watching
    /\ down_for' = 0
    /\ UNCHANGED <<watching, rst_timer, rst_flag, misread>>

(* Slip: the rising edge goes unnoticed.                                   *)
slip_edge_ignores_release(rc) ==
    /\ edge
    /\ edge' = FALSE
    /\ misread' = rc
    /\ rst_timer' = IF rc \/ ~ held THEN rst_timer ELSE HoldTicks
    /\ UNCHANGED <<held, watching, rst_flag, down_for>>

(* A level that cannot be read counts as a release.                        *)
rst_btn_edge(rc) ==
    /\ edge
    /\ edge' = FALSE
    /\ misread' = rc
    /\ rst_timer' = IF rc \/ ~ held THEN 0 ELSE HoldTicks
    /\ UNCHANGED <<held, watching, rst_flag, down_for>>

(* Slip: the timer is not seen to have stopped.                            *)
slip_tick_below_zero ==
    /\ watching /\ ~ edge
    /\ down_for' = IF held /\ down_for < HoldTicks THEN down_for + 1
                                                   ELSE down_for
    /\ rst_timer' = IF rst_timer # 1 THEN rst_timer - 1 ELSE rst_timer
    /\ rst_flag' = (rst_flag \/ rst_timer = 1)
    /\ UNCHANGED <<held, watching, edge, misread>>

(* set_reset runs when the timer fires, and the timer goes on with its     *)
(* period of one tick.  The handler of an edge does not wait for a tick.   *)
button_tick ==
    /\ watching /\ ~ edge
    /\ down_for' = IF held /\ down_for < HoldTicks THEN down_for + 1
                                                   ELSE down_for
    /\ rst_timer' = IF rst_timer > 1 THEN rst_timer - 1 ELSE rst_timer
    /\ rst_flag' = (rst_flag \/ rst_timer = 1)
    /\ UNCHANGED <<held, watching, edge, misread>>

(* reset_init; a button that is down already raises no edge.               *)
reset_init ==
    /\ ~ watching
    /\ watching' = TRUE
    /\ rst_flag' = FALSE
    /\ UNCHANGED <<held, edge, rst_timer, down_for, misread>>

(* The statics and the hardware after a boot; the button is where it is.   *)
button_boot ==
    /\ watching' = FALSE /\ edge' = FALSE
    /\ rst_timer' = 0 /\ rst_flag' = FALSE
    /\ down_for' = 0
    /\ UNCHANGED held

=============================================================================
