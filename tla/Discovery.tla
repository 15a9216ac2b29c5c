------------------------------ MODULE Discovery ------------------------------
(***************************************************************************)
(* How a device the controller has never heard of becomes a managed one:   *)
(* the UDP announces and their gates (discovery.go), the list of pending   *)
(* candidates (store.markPending), the operator's Adopt click with the SSH *)
(* set-inform push behind it (AdoptPending, pushSetInform) and the informs *)
(* that follow, all of it in memory and in the store file.                 *)
(*                                                                         *)
(* Datagrams are lost, duplicated and reordered. Time is kept as ages that *)
(* stop growing when nothing compares them any more. An adoption that has  *)
(* begun (module Adoption) is the record state managed.                    *)
(***************************************************************************)
EXTENDS Integers, FiniteSets

CONSTANTS
    Macs,
    Self, NoMac,      \* the controller's own interface, an absent TLV
    NoSight, NoEntry,
    Strays,           \* packets of other senders on the discovery port
    Discoverable,     \* --discovery-discoverable
    Armed,            \* --allow-ssh-set-inform-push
    Marks, Ports,     \* TLV 23 and TLV 28 of the devices' announces
    Window,           \* discoveryDedupWindow
    PruneThreshold,   \* discoveryPruneThreshold
    MaxPending, Ttl,  \* maxPending, pendingTTL
    SeqModulus,       \* width of the announce counter, 2^32
    MaxAir, MaxFaults, MaxOps, \* bounds: datagrams under way; duplicates, other
                               \* packets and restarts; resets and deletes
    MaxFailedSaves             \* bound: saves that fail

\* discoveryNote, as far as setInformCandidate reads it, with the boot its uptime
\* counts from; "inform" is the note of a factory device that already informs.
Notes == [source : {"discovery"}, mark : {"true", "false", "absent"},
          port : {"absent", "usable", "unusable"}, boot : Nat]
            \cup [source : {"inform"}]

Packets == [ver : 0..2, cmd : {0, 2, 6, 8, 9}, mac : Macs \cup {Self, NoMac},
            seq : 0 .. SeqModulus - 1, sender : Macs \cup {Self, NoMac},
            local : BOOLEAN, blocked : BOOLEAN, note : Notes]

ASSUME DiscoveryAssumption ==
    /\ Self \notin Macs /\ NoMac \notin Macs
    /\ Strays \subseteq Packets
    /\ Discoverable \in BOOLEAN /\ Armed \in BOOLEAN
    /\ Marks \subseteq {"true", "absent"}
    /\ Ports \subseteq {"absent", "usable", "unusable"}
    /\ SeqModulus \in Nat \ {0}
ASSUME DiscoveryBoundAssumption ==
    /\ Window \in Nat /\ PruneThreshold \in Nat /\ MaxPending \in Nat /\ Ttl \in Nat
    /\ MaxAir \in Nat /\ MaxFaults \in Nat /\ MaxOps \in Nat /\ MaxFailedSaves \in Nat

VARIABLES
    dev,      \* the devices: boot count, announce counter, factory / homed / managed
    air,      \* datagrams under way
    sight,    \* discoverySightings.byMAC
    pending,  \* the store's pending map
    rec,      \* the store's records: none, pending, managed
    file,     \* records and notes as last saved; a note has no time there
    click,    \* the Adopt request being handled, NoMac if none
    replySeq, \* discoverySightings.replySeq
    log,      \* history: the last announce each MAC was let through with
    failed,   \* saves that failed
    spent     \* what the other bounds count

saved == <<file, failed>>
vars == <<dev, air, sight, pending, rec, click, replySeq, log, saved, spent>>

\* The image of a save.
Image(records, entries) ==
    [rec |-> records,
     note |-> [m \in Macs |-> IF entries[m] = NoEntry THEN NoEntry ELSE entries[m].note]]

Init ==
    /\ dev = [m \in Macs |-> [boot |-> 0, seq |-> 0, phase |-> "factory"]]
    /\ air = {}
    /\ sight = [m \in Macs \cup {Self, NoMac} |-> NoSight]
    /\ pending = [m \in Macs |-> NoEntry]
    /\ rec = [m \in Macs |-> "none"]
    /\ click = NoMac
    /\ replySeq = 0
    /\ log = [m \in Macs \cup {Self, NoMac} |-> NoSight]
    /\ file = Image(rec, pending)
    /\ failed = 0
    /\ spent = [faults |-> 0, ops |-> 0]

Spend(field, bound) ==
    /\ spent[field] < bound
    /\ spent' = [spent EXCEPT ![field] = @ + 1]

-----------------------------------------------------------------------------
(* The device                                                               *)

\* A device announces itself with the next value of its counter.
Announce(m, mark, port) ==
    LET seq == (dev[m].seq + 1) % SeqModulus
        note == [source |-> "discovery",
                 mark |-> IF dev[m].phase = "managed" /\ mark = "true" THEN "false" ELSE mark,
                 port |-> port, boot |-> dev[m].boot]
    IN  /\ Cardinality(air) < MaxAir
        /\ dev' = [dev EXCEPT ![m].seq = seq]
        /\ air' = air \cup {[ver |-> 2, cmd |-> 6, mac |-> m, seq |-> seq, sender |-> m,
                             local |-> TRUE, blocked |-> FALSE, note |-> note]}
        /\ UNCHANGED <<sight, pending, rec, click, replySeq, log, saved, spent>>

Lose(p) ==
    /\ p \in air
    /\ air' = air \ {p}
    /\ UNCHANGED <<dev, sight, pending, rec, click, replySeq, log, saved, spent>>

-----------------------------------------------------------------------------
(* Candidates                                                               *)

\* evictExpiredLocked.
Evicted(entries) ==
    [m \in Macs |-> IF entries[m] # NoEntry /\ entries[m].age > Ttl
                    THEN NoEntry ELSE entries[m]]

\* The save that ends every verb: the whole store as it is in memory, or nothing.
Save(records) ==
    \/ file' = Image(records, pending') /\ UNCHANGED failed
    \/ failed < MaxFailedSaves /\ failed' = failed + 1 /\ UNCHANGED file

Fails == failed' # failed

Room(entries) == Cardinality({n \in Macs : entries[n] # NoEntry}) < MaxPending

\* Mutant: only a new candidate is worth a save.
MarkPendingNew(m, note) ==
    LET fresh == Evicted(pending)
        known == fresh[m] # NoEntry
        entry == [note |-> note, age |-> IF known THEN fresh[m].age ELSE 0]
    IN  IF known \/ ~Room(fresh)
        THEN /\ pending' = IF known THEN [fresh EXCEPT ![m] = entry] ELSE fresh
             /\ UNCHANGED saved
        ELSE /\ pending' = [fresh EXCEPT ![m] = entry]
             /\ Save(rec)

\* markPending: a known candidate takes the new note and keeps its first-seen
\* time, a new one needs room. What changed is saved, the evictions with it; a
\* repeat, of the same uptime if it is an announce, saves nothing.
MarkPending(m, note) ==
    LET fresh == Evicted(pending)
        known == fresh[m] # NoEntry
        repeat == known /\ fresh[m].note = note
        entry == [note |-> note, age |-> IF known THEN fresh[m].age ELSE 0]
    IN  \/ /\ repeat \/ (~known /\ ~Room(fresh))
           /\ pending' = fresh
           /\ UNCHANGED saved
        \/ /\ known \/ Room(fresh)
           /\ repeat => note.source = "discovery"
           /\ pending' = [fresh EXCEPT ![m] = entry]
           /\ Save(rec)

-----------------------------------------------------------------------------
(* handleDiscoveryPacketConn                                                *)

\* A v2 cmd-8 probe is answered or not, ahead of every gate.
IsProbe(p) == p.ver = 2 /\ p.cmd = 8

SelfGuard(p) == p.sender = Self

ReplyEnabled == Discoverable \/ \A m \in Macs : rec[m] # "managed"

Valid(p) == p.mac # NoMac /\ p.seq >= 1 /\ p.sender # NoMac

\* seeDiscovery drops what does not count on from the last one within the window.
Replayed(p) ==
    /\ sight[p.mac] # NoSight
    /\ sight[p.mac].age < Window
    /\ p.seq <= sight[p.mac].seq

\* The gates of a v2 packet, in this order; v0 and v1 have none.
LetThrough(p) ==
    p.ver = 2 => Valid(p) /\ ~SelfGuard(p) /\ ~p.blocked /\ ~Replayed(p)

\* Mutant: a map past its limit is emptied.
PrunedAll(seen) ==
    IF Cardinality({m \in DOMAIN seen : seen[m] # NoSight}) <= PruneThreshold THEN seen
    ELSE [m \in DOMAIN seen |-> NoSight]

\* The tail of seeDiscovery: past the threshold, entries outside the window go.
Pruned(seen) ==
    IF Cardinality({m \in DOMAIN seen : seen[m] # NoSight}) <= PruneThreshold THEN seen
    ELSE [m \in DOMAIN seen |-> IF seen[m] # NoSight /\ seen[m].age >= Window
                                THEN NoSight ELSE seen[m]]

\* A probe from a site-local address is answered with the next reply number.
Answer(p) ==
    /\ IsProbe(p)
    /\ replySeq' = IF p.local /\ ~SelfGuard(p) /\ ReplyEnabled
                   THEN (replySeq + 1) % SeqModulus ELSE replySeq
    /\ UNCHANGED <<sight, pending, log, saved>>

\* Mutant: the window keeps the number it expects next, without its wrap.
RecordNext(p) ==
    /\ ~IsProbe(p) /\ LetThrough(p)
    /\ IF p.ver = 2
       THEN LET s == [seq |-> p.seq + 1, age |-> 0]
            IN  /\ sight' = Pruned([sight EXCEPT ![p.mac] = s])
                /\ log' = [log EXCEPT ![p.mac] = s]
       ELSE UNCHANGED <<sight, log>>
    /\ IF p.cmd = 6 /\ p.mac \in Macs THEN MarkPending(p.mac, p.note)
       ELSE UNCHANGED <<pending, saved>>
    /\ UNCHANGED replySeq

\* A packet no gate stops leaves its number in the window; announces (cmd 6)
\* are recorded, challenges and every other cmd, that of a v0 card included,
\* are not.
Record(p) ==
    /\ ~IsProbe(p) /\ LetThrough(p)
    /\ IF p.ver = 2
       THEN LET s == [seq |-> p.seq, age |-> 0]
            IN  /\ sight' = Pruned([sight EXCEPT ![p.mac] = s])
                /\ log' = [log EXCEPT ![p.mac] = s]
       ELSE UNCHANGED <<sight, log>>
    /\ IF p.cmd = 6 /\ p.mac \in Macs THEN MarkPending(p.mac, p.note)
       ELSE UNCHANGED <<pending, saved>>
    /\ UNCHANGED replySeq

Dropped(p) ==
    /\ ~IsProbe(p) /\ ~LetThrough(p)
    /\ UNCHANGED <<sight, pending, replySeq, log, saved>>

Handle(p) == Answer(p) \/ Record(p) \/ Dropped(p)

Receive(p) ==
    /\ p \in air
    /\ air' = air \ {p}
    /\ Handle(p)
    /\ UNCHANGED <<dev, rec, click, spent>>

\* A duplicate: the datagram is handled and still under way.
ReceiveCopy(p) ==
    /\ p \in air
    /\ Spend("faults", MaxFaults)
    /\ Handle(p)
    /\ UNCHANGED <<dev, air, rec, click>>

ReceiveStray(p) ==
    /\ Spend("faults", MaxFaults)
    /\ Handle(p)
    /\ UNCHANGED <<dev, air, rec, click>>

-----------------------------------------------------------------------------
(* Adopt                                                                    *)

\* ListPending shows candidates without a record and records still pending.
Listed(m) == Evicted(pending)[m] # NoEntry /\ rec[m] # "managed"

\* A reader of the list evicts too, in memory only.
ListPending ==
    /\ pending' = Evicted(pending)
    /\ UNCHANGED <<dev, air, sight, rec, click, replySeq, log, saved, spent>>

\* Mutant: a record that is already pending is refused.
AdoptOnce(m) ==
    /\ click = NoMac
    /\ pending' = Evicted(pending)
    /\ rec[m] = "none" /\ pending'[m] # NoEntry
    /\ rec' = [rec EXCEPT ![m] = "pending"]
    /\ Save(rec')
    /\ click' = IF Fails THEN NoMac ELSE m
    /\ UNCHANGED <<dev, air, sight, replySeq, log, spent>>

\* AdoptPending, up to the committed promotion: a MAC without a record must be a
\* live candidate, a pending record is promoted again; a failed save ends it.
AdoptPending(m) ==
    /\ click = NoMac
    /\ pending' = IF rec[m] = "none" THEN Evicted(pending) ELSE pending
    /\ \/ rec[m] = "none" /\ pending'[m] # NoEntry
       \/ rec[m] = "pending"
    /\ rec' = [rec EXCEPT ![m] = "pending"]
    /\ Save(rec')
    /\ click' = IF Fails THEN NoMac ELSE m
    /\ UNCHANGED <<dev, air, sight, replySeq, log, spent>>

\* setInformCandidate, over the parts of the note in the order discoveryNote
\* writes them: a port out of range ends the parse before the factory mark.
Refused(note) ==
    note.source = "discovery" /\ note.port = "unusable"

Applicable(note) ==
    note.source = "discovery" /\ (note.port = "unusable" \/ note.mark = "true")

\* The device the push reaches informs here from now on.
Homed(m) == [dev EXCEPT ![m].phase = IF @ = "factory" THEN "homed" ELSE @]

\* pushSetInform reads the candidate again; entry is what it finds. One attempt.
PushSetInform(kind) ==
    LET m == click
        entry == pending'[m]
        note == IF Armed /\ entry # NoEntry THEN entry.note ELSE NoEntry
        applies == note # NoEntry /\ Applicable(note)
    IN  /\ click # NoMac
        /\ pending' = IF Armed THEN Evicted(pending) ELSE pending
        /\ kind = IF ~applies THEN "accepted"
                  ELSE IF Refused(note) THEN "refused"
                  ELSE IF kind = "pushed" THEN "pushed" ELSE "failed"
        /\ dev' = IF kind = "pushed" THEN Homed(m) ELSE dev
        /\ click' = NoMac
        /\ UNCHANGED <<air, sight, rec, replySeq, log, saved, spent>>

Kinds == {"accepted", "refused", "pushed", "failed"}

-----------------------------------------------------------------------------
(* Informs, verbs, time                                                     *)

\* A device that knows the controller informs on the factory key: unregistered
\* it becomes a candidate, whitelisted it is adopted; when the save of that cycle
\* fails it is answered noop and informs again as before.
Inform(m) ==
    /\ dev[m].phase = "homed"
    /\ \/ /\ rec[m] = "none"
          /\ MarkPending(m, [source |-> "inform"])
          /\ UNCHANGED <<dev, rec>>
       \/ /\ rec[m] # "none"
          /\ rec' = [rec EXCEPT ![m] = "managed"]
          /\ UNCHANGED pending
          /\ Save(rec')
          /\ dev' = IF Fails THEN dev ELSE [dev EXCEPT ![m].phase = "managed"]
    /\ UNCHANGED <<air, sight, click, replySeq, log, spent>>

\* The device starts again with its counter at zero.
Restarted(d, phase) == [boot |-> d.boot + 1, seq |-> 0, phase |-> phase]

Reboot(m) ==
    /\ Spend("ops", MaxOps)
    /\ dev' = [dev EXCEPT ![m] = Restarted(@, @.phase)]
    /\ UNCHANGED <<air, sight, pending, rec, click, replySeq, log, saved>>

\* The armed factory reset: the record is a candidate again, and the device is
\* told so if that could be saved.
FactoryReset(m) ==
    /\ rec[m] = "managed" /\ dev[m].phase = "managed"
    /\ Spend("ops", MaxOps)
    /\ rec' = [rec EXCEPT ![m] = "pending"]
    /\ UNCHANGED pending
    /\ Save(rec')
    /\ dev' = IF Fails THEN dev ELSE [dev EXCEPT ![m] = Restarted(@, "factory")]
    /\ UNCHANGED <<air, sight, click, replySeq, log>>

\* Forget, and the reset button of a device nobody manages any more.
DeleteDevice(m) ==
    /\ rec[m] # "none"
    /\ Spend("ops", MaxOps)
    /\ rec' = [rec EXCEPT ![m] = "none"]
    /\ UNCHANGED pending
    /\ Save(rec')
    /\ UNCHANGED <<dev, air, sight, click, replySeq, log>>

ResetButton(m) ==
    /\ rec[m] = "none" /\ dev[m].phase = "managed"
    /\ dev' = [dev EXCEPT ![m] = Restarted(@, "factory")]
    /\ UNCHANGED <<air, sight, pending, rec, click, replySeq, log, saved, spent>>

\* The controller restarts: the window and the request are the process's, records
\* and notes are those of the file, evicted candidates that no save has dropped
\* from it included, and every candidate gets a new first-seen time.
Restart ==
    /\ Spend("faults", MaxFaults)
    /\ sight' = [m \in DOMAIN sight |-> NoSight]
    /\ log' = [m \in DOMAIN log |-> NoSight]
    /\ click' = NoMac
    /\ replySeq' = 0
    /\ rec' = file.rec
    /\ pending' = [m \in Macs |-> IF file.note[m] = NoEntry THEN NoEntry
                                  ELSE [note |-> file.note[m], age |-> 0]]
    /\ UNCHANGED <<dev, air, saved>>

Older(e, limit) == IF e.age < limit THEN [e EXCEPT !.age = @ + 1] ELSE e

Tick ==
    /\ sight' = [m \in DOMAIN sight |-> IF sight[m] = NoSight THEN NoSight
                                        ELSE Older(sight[m], Window)]
    /\ log' = [m \in DOMAIN log |-> IF log[m] = NoSight THEN NoSight
                                    ELSE Older(log[m], Window)]
    /\ pending' = [m \in Macs |-> IF pending[m] = NoEntry THEN NoEntry
                                  ELSE Older(pending[m], Ttl + 1)]
    /\ UNCHANGED <<dev, air, rec, click, replySeq, saved, spent>>

-----------------------------------------------------------------------------
Next ==
    \/ \E m \in Macs, mark \in Marks, port \in Ports : Announce(m, mark, port)
    \/ \E p \in air : Lose(p) \/ Receive(p) \/ ReceiveCopy(p)
    \/ \E p \in Strays : ReceiveStray(p)
    \/ \E m \in Macs : AdoptPending(m) \/ Inform(m)
    \/ \E k \in Kinds : PushSetInform(k)
    \/ \E m \in Macs : Reboot(m) \/ FactoryReset(m) \/ DeleteDevice(m) \/ ResetButton(m)
    \/ ListPending \/ Restart \/ Tick

Spec == Init /\ [][Next]_vars

\* A device keeps announcing and informing, no number is lost for ever, the
\* operator keeps clicking what is listed, and not every SSH session fails.
Fairness ==
    /\ WF_vars(Tick)
    /\ WF_vars(\E p \in air : Receive(p) \/ Lose(p))
    /\ \A m \in Macs :
          /\ WF_vars(\E mark \in Marks, port \in Ports : Announce(m, mark, port))
          /\ \A seq \in 1 .. SeqModulus - 1 :
                SF_vars(\E p \in air : p.mac = m /\ p.seq = seq
                                        /\ p.note.boot = dev[m].boot /\ Receive(p))
          /\ WF_vars(Inform(m))
          /\ SF_vars(Listed(m) /\ AdoptPending(m))
    /\ WF_vars(\E k \in Kinds : PushSetInform(k))
    /\ SF_vars(PushSetInform("pushed"))

FairSpec == Spec /\ Fairness

-----------------------------------------------------------------------------
Sights == [seq : 0 .. SeqModulus - 1, age : 0 .. Window]

\* The type invariant of discovery.
TypeOK ==
    /\ dev \in [Macs -> [boot : Nat, seq : 0 .. SeqModulus - 1,
                         phase : {"factory", "homed", "managed"}]]
    /\ air \subseteq Packets
    /\ sight \in [Macs \cup {Self, NoMac} -> Sights \cup {NoSight}]
    /\ pending \in [Macs -> [note : Notes, age : 0 .. Ttl + 1] \cup {NoEntry}]
    /\ rec \in [Macs -> {"none", "pending", "managed"}]
    /\ click \in Macs \cup {NoMac}
    /\ replySeq \in 0 .. SeqModulus - 1
    /\ log \in [Macs \cup {Self, NoMac} -> Sights \cup {NoSight}]
    /\ file \in [rec : [Macs -> {"none", "pending", "managed"}],
                note : [Macs -> Notes \cup {NoEntry}]]
    /\ failed \in Nat
    /\ spent \in [faults : Nat, ops : Nat]

\* WindowHolds: within the window of the last announce that was let through, only
\* one that counts on from it is let through, although announces are duplicated
\* and reordered and a full map is pruned (seeDiscovery: "dropped IF now -
\* lastSeen < discoveryDedupWindow AND seq <= lastSeq").
WindowHolds ==
    [][\A m \in Macs : log'[m] # log[m] /\ log[m] # NoSight /\ log'[m] # NoSight
                       /\ log'[m].age = 0
          => log'[m].seq > log[m].seq \/ log[m].age >= Window]_vars

\* NotesSaved: unless a save has failed, a restart finds every record, and every
\* candidate with the note it is judged by, although repeats are not saved,
\* readers evict without saving and a reload brings back what they evicted
\* (jsonStore.MarkPending: "unchanged repeats now stop at the in-memory refresh").
NotesSaved ==
    failed = 0 =>
        /\ file.rec = rec
        /\ \A m \in Macs : pending[m] # NoEntry => file.note[m] = pending[m].note

\* Onboarded: a factory device is managed in the end: its announces come through
\* after a reboot put its counter back, it is listed, and a click whose push
\* failed can be repeated (pushSetInform: "the operator's next Adopt click
\* re-attempts the push").
Onboarded == \A m \in Macs : dev[m].phase = "factory" ~> rec[m] = "managed"
=============================================================================
