------------------------------- MODULE MCProxy -------------------------------
(* Small applications: one item of interest each, a second one that only    *)
(* takes a turn, and an id that the pool has no slot for.                   *)
EXTENDS Proxy

Item(vtype, flgs, lower, upper, time_sec, guarded) ==
    [vtype |-> vtype, flags |-> flgs, lower |-> lower, upper |-> upper,
     time_sec |-> time_sec, guarded |-> guarded]

Idle == Item("BOOL", {}, 0, 0, 0, FALSE)

(* A counter with callbacks, reported on change.                            *)
ChangeSetup == [id \in {0, 2} |->
    IF id = 0 THEN Item("INT", {"CHANGE"}, 0, 0, 0, TRUE) ELSE Idle]

(* A temperature reported at its limits and every two seconds.             *)
EventSetup == [id \in {0, 1} |->
    IF id = 0 THEN Item("INT", {"TIME", "UPPER", "LOWER"}, 1, 2, 2, FALSE)
              ELSE Idle]

FloatSetup == [id \in {0} |-> Item("FLOAT", {"CHANGE"}, 0, 0, 0, FALSE)]
=============================================================================
