-------------------------------- MODULE Device --------------------------------
(***************************************************************************)
(* The life of a thing across its two images: setup/src/main.c selects at  *)
(* boot whether the phone sets the thing up (Setup) or the main            *)
(* application runs (core/src/main.c, net_start of net.c, ot_config.c),    *)
(* where the same button, held down, wipes the flash (Button, clear.c) and *)
(* leads back.  What the main application does once it is connected is in  *)
(* Sm, Proxy and Net; here it can ask for the wipe (UNREG_REQ).            *)
(*                                                                         *)
(* Reads of the flash and of the pin, erasures and every call into         *)
(* OpenThread may fail; the power may go at any step.                      *)
(***************************************************************************)
EXTENDS Setup, Button

VARIABLES
    app,        \* the image that runs, or where the boot came to an end
    main_pc,    \* where the main application is
    net         \* the network its network thread was started in

vars == <<setupVars, buttonVars, app, main_pc, net>>

Apps == {"off", "boot", "setup", "no_setup", "main", "no_main"}
Steps == {"start", "init", "run", "keys", "settings", "nvs", "partition"}

(* A reboot keeps the flash and the level of the pin.                      *)
reboot(next) ==
    /\ app' = next
    /\ main_pc' = "start" /\ net' = None
    /\ loop_pc' = "toggle" /\ adv_bool' = FALSE /\ advertising' = "off"
    /\ reset_signal' = FALSE
    /\ link' = FALSE /\ active_conn' = FALSE
    /\ queue' = << >> /\ busy' = "idle"
    /\ build' = Blank
    /\ ot_nvs_wiped' = FALSE
    /\ button_boot

-----------------------------------------------------------------------------
(* setup/src/main.c                                                        *)

(* A key counts as set once an entry was read from flash, of any length:   *)
(* one that was deleted too, if the settings call back for it.             *)
storage_is_set(ok) == ok /\ addr # Blank

(* A pin that cannot be read is not pressed.                               *)
btn_pressed(rc) == held /\ ~ rc

(* Slip: settings of any length pass, were they none of full length.       *)
slip_load_length(ok) == ok /\ ot # None

(* The settings ot_config_load returns 0 for.  It gives up at the first of *)
(* a wrong length and returns that length: 0 for one without a value.      *)
Loadable == Networks \cup {Empty}

ot_config_load(ok) == ok /\ ot \in Loadable

(* Slip: the button is not looked at.                                      *)
slip_button_ignored(pressed, ipv6_set, ot_set) == ~ ipv6_set \/ ~ ot_set

run_setup(pressed, ipv6_set, ot_set) == pressed \/ ~ ipv6_set \/ ~ ot_set

(* The flash is read, then the pin, and one of the two applications is     *)
(* started, or fails to.  The setup application does not look at the pin   *)
(* again: it is taken to be released until the next boot.                  *)
select_app(err, rc) ==
    /\ app = "boot"
    /\ \E key_read, ot_read \in BOOLEAN :
        app' = IF run_setup(btn_pressed(rc), storage_is_set(key_read),
                            ot_config_load(ot_read))
               THEN IF err THEN "no_setup" ELSE "setup"
               ELSE IF err THEN "no_main" ELSE "main"
    /\ misread' = (rc /\ app' \in {"main", "no_main"})
    /\ held' = (held /\ app' # "setup")
    /\ UNCHANGED <<setupVars, watching, edge, rst_timer, rst_flag, down_for,
                   main_pc, net>>

in_setup(step) ==
    /\ app = "setup"
    /\ step
    /\ UNCHANGED <<buttonVars, app, main_pc, net>>

(* The reset signal was seen and two seconds have passed.                  *)
setup_reboot ==
    /\ app = "setup"
    /\ loop_pc = "sleep"
    /\ reboot("boot")
    /\ stale' = (stale \/ busy = "ot")
    /\ UNCHANGED <<flash, uneven, misread>>

-----------------------------------------------------------------------------
(* core/src/main.c                                                         *)

(* settings_load, then net_start: OpenThread is given its settings and     *)
(* started, or some call fails and there is no network thread; nor is      *)
(* there one without the peer's address.  The protocol thread runs anyway. *)
start_threads ==
    /\ app = "main" /\ main_pc = "start"
    /\ main_pc' = "init"
    /\ \E key_read, ot_read, started \in BOOLEAN :
        /\ started => ot_config_load(ot_read)
        /\ nvs' = IF started THEN ot ELSE nvs
        /\ net' = IF started /\ storage_is_set(key_read) THEN ot ELSE None
    /\ UNCHANGED <<addr, ot, loopVars, reset_signal, btVars, build,
                   ot_nvs_wiped, uneven, stale, buttonVars, app>>

(* peripheral_init, whose failure is not looked at.                        *)
init_peripherals ==
    /\ app = "main" /\ main_pc = "init"
    /\ main_pc' = "run"
    /\ reset_init \/ UNCHANGED buttonVars
    /\ UNCHANGED <<setupVars, app, net>>

(* A turn of the protocol thread with a reset flag set, by the button or   *)
(* by UNREG_REQ, which needs a network.                                    *)
see_reset ==
    /\ app = "main" /\ main_pc = "run"
    /\ rst_flag \/ net # None
    /\ main_pc' = "keys"
    /\ UNCHANGED <<setupVars, buttonVars, app, net>>

button_step ==
    /\ \/ press_or_release /\ app # "setup"
       \/ button_tick
       \/ \E rc \in BOOLEAN : rst_btn_edge(rc)
    /\ UNCHANGED <<setupVars, app, main_pc, net>>

-----------------------------------------------------------------------------
(* clear_factory: four steps, each of which may fail                       *)

(* storage_reset comes to the address last.  Its key is read as one that   *)
(* was never there, or as one without a value.                             *)
wipe_keys ==
    /\ main_pc = "keys"
    /\ main_pc' = "settings"
    /\ \/ addr' \in {Blank, Deleted} /\ uneven' = FALSE
       \/ UNCHANGED <<addr, uneven>>
    /\ addr = Blank => addr' = Blank
    /\ UNCHANGED <<ot, nvs, stale>>

(* settings_ot_reset may come half way.                                    *)
wipe_settings ==
    /\ main_pc = "settings"
    /\ main_pc' = "nvs"
    /\ ot' \in {None, Partial, ot}
    /\ ot = None => ot' = None
    /\ UNCHANGED <<addr, nvs, uneven, stale>>

wipe_nvs ==
    /\ main_pc = "nvs"
    /\ main_pc' = "partition"
    /\ \/ nvs' = None /\ stale' = FALSE
       \/ UNCHANGED <<nvs, stale>>
    /\ UNCHANGED <<addr, ot, uneven>>

clear_factory ==
    /\ app = "main"
    /\ wipe_keys \/ wipe_settings \/ wipe_nvs
    /\ UNCHANGED <<loopVars, reset_signal, btVars, build, ot_nvs_wiped,
                   buttonVars, app, net>>

(* clear_settings erases the partition, and the reboot follows.            *)
clear_settings_reboot ==
    /\ app = "main" /\ main_pc = "partition"
    /\ \/ addr' = Blank /\ ot' = None /\ uneven' = FALSE
       \/ UNCHANGED <<addr, ot, uneven>>
    /\ UNCHANGED <<nvs, stale, misread>>
    /\ reboot("boot")

-----------------------------------------------------------------------------
(* Power and the specification                                             *)

power_cut ==
    /\ app # "off"
    /\ reboot("off")
    /\ stale' = (stale \/ busy = "ot")
    /\ UNCHANGED <<flash, uneven, misread>>

power_on ==
    /\ app = "off"
    /\ app' = "boot"
    /\ UNCHANGED <<setupVars, buttonVars, main_pc, net>>

Init ==
    /\ addr = Blank /\ ot = None /\ nvs = None
    /\ loop_pc = "toggle" /\ adv_bool = FALSE /\ advertising = "off"
    /\ reset_signal = FALSE
    /\ link = FALSE /\ active_conn = FALSE
    /\ queue = << >> /\ busy = "idle"
    /\ build = Blank
    /\ ot_nvs_wiped = FALSE
    /\ uneven = FALSE /\ stale = FALSE
    /\ held = FALSE /\ watching = FALSE /\ edge = FALSE
    /\ rst_timer = 0 /\ rst_flag = FALSE /\ down_for = 0
    /\ misread = FALSE
    /\ app = "off" /\ main_pc = "start" /\ net = None

main_step ==
    start_threads \/ init_peripherals \/ see_reset \/ clear_factory
        \/ clear_settings_reboot

boot_step == \E err, rc \in BOOLEAN : select_app(err, rc)

Next ==
    \/ power_on \/ power_cut
    \/ boot_step
    \/ in_setup(setup_step) \/ setup_reboot
    \/ main_step
    \/ button_step

Spec == Init /\ [][Next]_vars

(* What runs goes on: the power comes back, and the thread of the image at *)
(* hand has its turns.                                                     *)
thread_step == power_on \/ main_step \/ in_setup(main_loop) \/ setup_reboot

(* A boot is not cut off for ever.  Callbacks, interrupts and ticks come.  *)
(* Advertising starts sooner or later when no connection is up.            *)
Fairness ==
    /\ SF_vars(boot_step)
    /\ WF_vars(thread_step)
    /\ WF_vars(in_setup(connected /\ link_only))
    /\ \A s \in Services : SF_vars(in_setup(advertise(s, TRUE) /\ loop_only))
    /\ WF_vars(button_step /\ held' = held)

FairSpec == Spec /\ Fairness

-----------------------------------------------------------------------------
(* Properties                                                              *)

Parts == {None, Short, Long} \X {None, Long}

TypeOK ==
    /\ addr \in Parts \cup {Deleted}
    /\ build \in Parts
    /\ ot \in Loadable \cup {None, Partial} /\ nvs \in Loadable \cup {None}
    /\ loop_pc \in {"toggle", "advertise", "sleep"}
    /\ advertising \in Services \cup {"off"} /\ adv_bool \in BOOLEAN
    /\ reset_signal \in BOOLEAN /\ link \in BOOLEAN
    /\ active_conn \in BOOLEAN /\ ot_nvs_wiped \in BOOLEAN
    /\ busy \in {"idle", "write", "uneven", "ot"}
    /\ Len(queue) <= PrepareCount
    /\ \A i \in 1 .. Len(queue) : queue[i] \in {First(Long), Rest}
    /\ uneven \in BOOLEAN /\ stale \in BOOLEAN
    /\ held \in BOOLEAN /\ watching \in BOOLEAN /\ edge \in BOOLEAN
    /\ rst_timer \in 0 .. HoldTicks /\ down_for \in 0 .. HoldTicks
    /\ rst_flag \in BOOLEAN /\ misread \in BOOLEAN
    /\ app \in Apps /\ main_pc \in Steps /\ net \in Loadable \cup {None}

(* The address in flash is one that a phone wrote, whole: pieces left in   *)
(* the buffer by a cancelled write, a lost connection or an earlier        *)
(* address never get into it.  Only a write cut off between its pieces, or *)
(* a client that sends them out of order, leaves another                   *)
(* (gatt_inet6.c:50-78).                                                   *)
AddressWhole == uneven \/ addr \in Whole \cup {Blank, Deleted}

(* Until it wipes them itself, the main application runs, and its network  *)
(* thread joins, with settings in flash that are complete and an address   *)
(* that is whole, however setting up, wiping and booting were cut short or *)
(* failed.  Three things get past the look main.c takes at the flash:      *)
(* settings the phone wrote with no length (ot_config.c:49), an address    *)
(* whose write was cut off or out of order (gatt_inet6.c:68), and one that *)
(* a wipe deleted before it was cut off or failed (storage.c:91).          *)
(* (setup/src/main.c:92, net.c:197-240)                                    *)
MainIsSetUp ==
    app = "main" /\ main_pc \in {"start", "init", "run"} =>
        /\ addr # Blank
        /\ uneven \/ addr \in Whole \cup {Deleted}
        /\ ot \in Loadable
        /\ net \in {None, ot}

(* OpenThread never starts on what it stored of another network than the   *)
(* one in the settings, through any order of updates, resets and cuts,     *)
(* unless an erasure failed or was cut off (bt_srv.c:130).                 *)
JoinsAfresh ==
    [][ nvs' \notin {None, nvs} => stale \/ nvs = None ]_vars

(* The reset flag means the button has been down for the whole time,       *)
(* whatever bounces came before and whenever their interrupts were served  *)
(* (peripheral.c:55).                                                      *)
ResetMeansHeld == [][ rst_flag' => rst_flag \/ down_for' = HoldTicks ]_vars

(* A button pressed while the main application watches it leads to the     *)
(* setup application, whatever of the wipe fails and whenever the power    *)
(* goes, unless it is released before or the pin cannot be read            *)
(* (peripheral.c:74, setup/src/main.c:92).                                 *)
HeldReachesSetup ==
    (watching /\ edge /\ held)
        ~> (~ held \/ misread \/ app \in {"setup", "no_setup"})

(* A phone finds both services again and again while none is connected,    *)
(* and can always connect: no order of the loop's look at active_conn, the *)
(* connection and its callbacks leaves the thing silent (bt_srv.c:191).    *)
ServicesTakeTurns ==
    \A s \in Services :
        []<>(link \/ advertising = s \/ app # "setup" \/ reset_signal)

(* The reset command reboots the thing, whatever else the phone does in    *)
(* the meantime (setup/src/main.c:123).                                    *)
ResetCommandReboots == reset_signal ~> app # "setup"

=============================================================================
