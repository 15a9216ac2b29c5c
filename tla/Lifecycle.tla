------------------------------ MODULE Lifecycle ------------------------------
(***************************************************************************)
(* What the controller promises about the life of one device record: an    *)
(* incarnation begins when the operator enrols the device or sends it back *)
(* to factory state, is handed keys until the device has proved one, and   *)
(* from then on keeps that key through provisioning, loss and return until *)
(* it is demoted or forgotten. The saved copy follows the live one and     *)
(* replaces it after a crash. Module Adoption implements this.             *)
(***************************************************************************)
EXTENDS Integers

CONSTANTS None, NoKey   \* no record, no key assigned

VARIABLES
    live,   \* the record in memory
    saved   \* the record on disk

vars == <<live, saved>>

States == {"pending", "adopting", "adopted", "lost"}

Lives == [inc : Nat, state : States, key : Nat \cup {NoKey}, confirmed : BOOLEAN]

Init == live = None /\ saved = None

Begun(inc) == [inc |-> inc, state |-> "pending", key |-> NoKey, confirmed |-> FALSE]

Enrol ==
    /\ live = None
    /\ live' \in Lives
    /\ live' = Begun(live'.inc)
    /\ UNCHANGED saved

\* A key is assigned only while none is proved.
Assign ==
    /\ live # None
    /\ ~live.confirmed
    /\ live.state \in {"pending", "adopting"}
    /\ live' \in Lives
    /\ live'.key \notin {NoKey, live.key}
    /\ live' = [live EXCEPT !.state = "adopting", !.key = live'.key]
    /\ UNCHANGED saved

\* The device authenticates with a key: the key stands from now on, and the
\* record is being provisioned, adopted, or as it was.
Serve ==
    /\ live # None
    /\ live.key # NoKey
    /\ \E state \in {live.state, "adopting", "adopted"} :
          live' = [live EXCEPT !.state = state, !.confirmed = TRUE]
    /\ UNCHANGED saved

Lose ==
    /\ live # None
    /\ live.state = "adopted"
    /\ live' = [live EXCEPT !.state = "lost"]
    /\ UNCHANGED saved

Demote ==
    /\ live # None
    /\ live' \in Lives
    /\ live'.inc # live.inc
    /\ live' = Begun(live'.inc)
    /\ UNCHANGED saved

Forget ==
    /\ live # None
    /\ live' = None
    /\ UNCHANGED saved

Save == saved' = live /\ UNCHANGED live

Crash == live' = saved /\ UNCHANGED saved

Next == Enrol \/ Assign \/ Serve \/ Lose \/ Demote \/ Forget \/ Save \/ Crash

Spec == Init /\ [][Next]_vars
=============================================================================
