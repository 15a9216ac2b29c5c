--------------------------- MODULE AdoptionHistory ---------------------------
(***************************************************************************)
(* Adoption with history variables, for properties that count: how many    *)
(* more commands were armed than executed, and for which cfgversions the   *)
(* materialization watchdog has already armed a reboot.                    *)
(***************************************************************************)
EXTENDS Adoption

VARIABLES
    owed,      \* armings of a kind of command less the answers that carried
               \* one to the device
    gapArmed   \* cfgversions with a watchdog reboot and no RUN proof since

hvars == <<vars, owed, gapArmed>>

HInit ==
    /\ Init
    /\ owed = [kind \in {"cmd", "reboot"} |-> 0]
    /\ gapArmed = {}

\* Flags come back with the snapshot on a restart: that is no arming.
Reloaded == spent'.faults # spent.faults

Rises(flag) ==
    /\ ~Reloaded
    /\ rec # NoRecord /\ rec' # NoRecord
    /\ ~rec[flag] /\ rec'[flag]

Takes(kind) ==
    /\ spent' = spent
    /\ \E h \in Slots : /\ slot[h].phase = "reply" /\ slot'[h].phase = "idle"
                        /\ slot[h].reply.kind = kind
                        /\ dev.conn = h

One(b) == IF b THEN 1 ELSE 0

\* The device's report shows every VAP of the saved envelope up, and the
\* record's settled envelope running.
ShowsAllUp(h) ==
    /\ Running(h)
    /\ MissingVaps(rec.wlans, Table(h)) = {}
    /\ NotRunningEvidence(Work(h).delivery, Table(h)) = "run"

HNext ==
    /\ Next
    /\ owed' = [kind \in {"cmd", "reboot"} |->
                   owed[kind] + One(Rises(kind)) - One(Takes(kind))]
    /\ gapArmed' =
         IF Reloaded THEN {}
         ELSE IF Rises("reboot") /\ spent' = spent THEN gapArmed \cup {rec.cfgVersion}
         ELSE IF \E h \in Slots : ShowsAllUp(h) /\ slot'[h].phase = "saving" THEN {}
         ELSE gapArmed

HSpec == HInit /\ [][HNext]_hvars

-----------------------------------------------------------------------------
\* CommandsAtMostOnce: the device executes an armed reboot or cmd task at most
\* once per arming, although the flag is consumed in memory before the answer
\* is sent and a restart reloads the flags from disk (armedLifecycle consumes in
\* the cycle, runInformCycle answers only what was saved).
CommandsAtMostOnce == owed["cmd"] >= 0 /\ owed["reboot"] >= 0

\* WatchdogOncePerVersion: between restarts the watchdog arms at most one reboot
\* per cfgversion until the missing VAP has been seen running ("the watchdog
\* never re-arms while the marker stands for the same cfgversion"), so an access
\* point whose firmware cannot bring a planned VAP up is not rebooted for ever.
WatchdogOncePerVersion ==
    [][ Rises("reboot") /\ spent' = spent => rec.cfgVersion \notin gapArmed ]_hvars
=============================================================================
