------------------------------- MODULE Account -------------------------------
(***************************************************************************)
(* What the flash of a thing promises its owner: the account it was given  *)
(* when it registered is kept, whole, until it is wiped, and no other one  *)
(* takes its place before that.  The thing is online only with an account. *)
(*                                                                         *)
(* Registering is one step here: the schemas, the three keys written one   *)
(* by one, retries and power cuts are what Sm shows to come to this.       *)
(***************************************************************************)
CONSTANTS
    Regs,       \* registrations the cloud can issue
    None,       \* no account
    Broken      \* keys that are of no one registration

VARIABLES
    account,    \* the registration in flash
    online      \* the thing runs with it

vars == <<account, online>>

Init == account = None /\ online = FALSE

(* An account is taken only where there is none.                           *)
Register(r) ==
    /\ account \in {None, Broken}
    /\ ~ online
    /\ account' = r
    /\ online' \in BOOLEAN

Connect ==
    /\ ~ online
    /\ account # None
    /\ online' = TRUE
    /\ UNCHANGED account

Drop ==
    /\ online' = FALSE
    /\ UNCHANGED account

Wipe ==
    /\ account' = None
    /\ online' = FALSE

(* A wipe that was cut off; the thing registers again.                     *)
CutWipe ==
    /\ account # None
    /\ account' = Broken
    /\ online' = FALSE

Next ==
    \/ \E r \in Regs : Register(r)
    \/ Connect \/ Drop
    \/ Wipe \/ CutWipe

Spec == Init /\ [][Next]_vars

=============================================================================
