----------------------------- MODULE MCDiscovery -----------------------------
(* Discovery, for TLC.                                                        *)
EXTENDS Discovery, TLC

CONSTANTS m1

Unmarked == [source |-> "discovery", mark |-> "absent", port |-> "absent", boot |-> 0]

Stray(ver, cmd, mac, seq, sender, blocked) ==
    [ver |-> ver, cmd |-> cmd, mac |-> mac, seq |-> seq, sender |-> sender,
     local |-> TRUE, blocked |-> blocked, note |-> Unmarked]

\* What else arrives on the port: the app's probe from near and from far, the
\* controller's own reply echoed, an announce without a number, one of a blocked
\* model, one with an SSH port out of range, one that comes late, a challenge
\* response, a v1 announce and a v0 card.
Probe == Stray(2, 8, NoMac, 0, NoMac, FALSE)
RemoteProbe == [Probe EXCEPT !.local = FALSE]
Echo == Stray(2, 9, Self, 1, Self, FALSE)
Unnumbered == Stray(2, 6, m1, 0, m1, FALSE)
BlockedModel == Stray(2, 6, m1, 1, m1, TRUE)
BadPort == [Stray(2, 6, m1, 2, m1, FALSE) EXCEPT !.note.port = "unusable"]
Late == [Stray(2, 6, m1, 1, m1, FALSE) EXCEPT !.note.mark = "true"]
Challenge == Stray(1, 2, m1, 0, NoMac, FALSE)
V1Announce == Stray(1, 6, m1, 0, NoMac, FALSE)
V0Card == Stray(0, 0, m1, 0, NoMac, FALSE)

OtherPackets == {Probe, RemoteProbe, Echo, Unnumbered, BlockedModel, BadPort, Late,
                 Challenge, V1Announce, V0Card}
=============================================================================
