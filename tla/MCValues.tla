------------------------------ MODULE MCValues ------------------------------
(* Values for the constants of Engine and Adoption: two SSIDs, two radios.    *)
EXTENDS Engine, TLC

CONSTANTS home, guest, r2, r5

MCSsids == {home, guest}
MCRadios == {r2, r5}

Env(ssids, radios) == [ssids |-> ssids, vaps |-> ssids \X radios, secrets |-> 0]
Rekeyed(env) == [env EXCEPT !.secrets = @ + 1]

NoWlans == {EmptyEnvelope}
\* Nothing or one WLAN on both bands.
BothBands == {EmptyEnvelope, Env({home}, {r2, r5})}
\* The same, and with another passphrase.
BothRekeyed == BothBands \cup {Rekeyed(Env({home}, {r2, r5}))}

\* Firmware that brings up everything, one band only.
AllVaps == MCSsids \X MCRadios
OneBand == MCSsids \X {r2}

\* Sparse heartbeat, rows with nothing up, one band up, both bands up.
Absent == [present |-> FALSE, known |-> FALSE, run |-> {}]
AllDown == [present |-> TRUE, known |-> TRUE, run |-> {}]
OneUp == [present |-> TRUE, known |-> TRUE, run |-> {<<home, r2>>}]
AllUp == [present |-> TRUE, known |-> TRUE, run |-> {<<home, r2>>, <<home, r5>>}]
NoneOdd == {}
Recovers == {AllUp}
Outage == {Absent, AllDown, OneUp}
=============================================================================
