--------------------------- MODULE DiscoveryProofs ---------------------------
(***************************************************************************)
(* Theorems about Discovery, for any set of devices and other packets, any *)
(* window, threshold, list limit and counter width.                        *)
(*                                                                         *)
(* WindowHolds needs an invariant: the sightings map, although it is       *)
(* pruned, still holds the last number let through of every MAC whose      *)
(* window is open. NotesSaved is inductive by itself: the file may hold    *)
(* more candidates than the memory, and never another note.                *)
(***************************************************************************)
EXTENDS Discovery, TLAPS

All == Macs \cup {Self, NoMac}
Entries == [note : Notes, age : 0 .. Ttl + 1]
Records == {"none", "pending", "managed"}

SavedType ==
    /\ file \in [rec : [Macs -> Records], note : [Macs -> Notes \cup {NoEntry}]]
    /\ failed \in Nat

\* What the window forgets is what it would let through anyway.
Tracks == \A m \in All : log[m] # NoSight /\ log[m].age < Window => sight[m] = log[m]

IInv == TypeOK /\ Tracks /\ NotesSaved

-----------------------------------------------------------------------------
(* The maps                                                                 *)

\* Eviction keeps an entry as it is or drops it.
LEMMA EvictedKeeps ==
    ASSUME NEW e \in [Macs -> Entries \cup {NoEntry}]
    PROVE  /\ Evicted(e) \in [Macs -> Entries \cup {NoEntry}]
           /\ \A m \in Macs : Evicted(e)[m] = e[m] \/ Evicted(e)[m] = NoEntry
  BY DEF Evicted

\* Pruning keeps an entry as it is, or drops one whose window has passed.
LEMMA PrunedKeeps ==
    ASSUME NEW s \in [All -> Sights \cup {NoSight}]
    PROVE  /\ Pruned(s) \in [All -> Sights \cup {NoSight}]
           /\ \A m \in All : \/ Pruned(s)[m] = s[m]
                             \/ Pruned(s)[m] = NoSight /\ s[m] # NoSight /\ s[m].age >= Window
  BY DEF Pruned

\* Ageing keeps the number of a sighting, and stops at the window.
LEMMA OlderSight ==
    ASSUME NEW s \in Sights
    PROVE  /\ Older(s, Window) \in Sights
           /\ Older(s, Window).age < Window => s.age < Window
           /\ Older(s, Window).age = 0 => Older(s, Window) = s
  BY DiscoveryBoundAssumption DEF Older, Sights

\* Ageing keeps the note of a candidate.
LEMMA OlderEntry ==
    ASSUME NEW e \in Entries
    PROVE  Older(e, Ttl + 1) \in Entries /\ Older(e, Ttl + 1).note = e.note
  BY DiscoveryBoundAssumption DEF Older, Entries

\* A save that does not fail leaves the file as the memory is.
LEMMA SaveKeeps ==
    ASSUME TypeOK, NEW records \in [Macs -> Records], rec' = records,
           pending' \in [Macs -> Entries \cup {NoEntry}], Save(records)
    PROVE  SavedType' /\ NotesSaved'
  <1>1. SavedType
    BY DEF TypeOK, SavedType, Records
  <1>2. CASE file' = Image(records, pending') /\ UNCHANGED failed
    <2>1. /\ file'.rec = records
          /\ file'.note = [m \in Macs |-> IF pending'[m] = NoEntry THEN NoEntry
                                          ELSE pending'[m].note]
          /\ file' = [rec |-> file'.rec, note |-> file'.note]
      BY <1>2 DEF Image
    <2>2. file'.note \in [Macs -> Notes \cup {NoEntry}]
      BY <2>1 DEF Entries
    <2>3. SavedType'
      BY <1>1, <1>2, <2>1, <2>2 DEF SavedType
    <2> QED BY <2>1, <2>3 DEF NotesSaved
  <1>3. CASE failed' = failed + 1 /\ UNCHANGED file
    BY <1>1, <1>3 DEF SavedType, NotesSaved
  <1> QED BY <1>2, <1>3 DEF Save

\* Nothing is written: what leaves the list, or only ages, stays saved.
LEMMA UnsavedKeeps ==
    ASSUME TypeOK, NotesSaved, UNCHANGED <<rec, saved>>,
           \A m \in Macs : pending'[m] # NoEntry
              => pending[m] # NoEntry /\ pending'[m].note = pending[m].note
    PROVE  SavedType' /\ NotesSaved'
  BY DEF saved, TypeOK, SavedType, Records, NotesSaved

\* markPending leaves a list of candidates, and in the file what it changed.
LEMMA MarkPendingKeeps ==
    ASSUME TypeOK, NotesSaved, NEW m \in Macs, NEW note \in Notes,
           MarkPending(m, note), UNCHANGED rec
    PROVE  /\ pending' \in [Macs -> Entries \cup {NoEntry}]
           /\ SavedType' /\ NotesSaved'
  <1> DEFINE fresh == Evicted(pending)
             entry == [note |-> note, age |-> IF fresh[m] # NoEntry THEN fresh[m].age ELSE 0]
  <1>1. pending \in [Macs -> Entries \cup {NoEntry}] /\ rec \in [Macs -> Records]
    BY DEF TypeOK, Entries, Records
  <1>2. /\ fresh \in [Macs -> Entries \cup {NoEntry}]
        /\ \A n \in Macs : fresh[n] = pending[n] \/ fresh[n] = NoEntry
    BY <1>1, EvictedKeeps
  <1>3. \/ pending' = fresh /\ UNCHANGED saved
        \/ pending' = [fresh EXCEPT ![m] = entry] /\ Save(rec)
    BY DEF MarkPending
  <1> HIDE DEF fresh
  <1>4. entry \in Entries
    <2>1. fresh[m] # NoEntry => fresh[m].age \in 0 .. Ttl + 1
      BY <1>2 DEF Entries
    <2>2. 0 \in 0 .. Ttl + 1
      BY DiscoveryBoundAssumption
    <2>3. (IF fresh[m] # NoEntry THEN fresh[m].age ELSE 0) \in 0 .. Ttl + 1
      BY <2>1, <2>2
    <2> QED BY <2>3 DEF Entries
  <1> HIDE DEF entry
  <1>5. CASE pending' = fresh /\ UNCHANGED saved
    BY <1>2, <1>5, UnsavedKeeps
  <1>6. CASE pending' = [fresh EXCEPT ![m] = entry] /\ Save(rec)
    <2>1. pending' \in [Macs -> Entries \cup {NoEntry}]
      BY <1>2, <1>4, <1>6
    <2> QED BY <1>1, <1>6, <2>1, SaveKeeps
  <1> QED BY <1>3, <1>5, <1>6

-----------------------------------------------------------------------------
(* A packet is handled                                                      *)

\* The step of the window: only a number that counts on, or a window that has
\* passed.
CountsOn ==
    \A m \in Macs : log'[m] # log[m] /\ log[m] # NoSight /\ log'[m] # NoSight /\ log'[m].age = 0
        => log'[m].seq > log[m].seq \/ log[m].age >= Window

\* The maps after a packet, whichever gate it met.
LEMMA HandleKeeps ==
    ASSUME IInv, NEW p \in Packets, Handle(p), UNCHANGED rec
    PROVE  /\ sight' \in [All -> Sights \cup {NoSight}] /\ log' \in [All -> Sights \cup {NoSight}]
           /\ pending' \in [Macs -> Entries \cup {NoEntry}]
           /\ SavedType'
           /\ replySeq' \in 0 .. SeqModulus - 1
           /\ Tracks' /\ NotesSaved' /\ CountsOn
  <1>0. TypeOK /\ Tracks /\ NotesSaved
    BY DEF IInv
  <1>1. /\ sight \in [All -> Sights \cup {NoSight}] /\ log \in [All -> Sights \cup {NoSight}]
        /\ pending \in [Macs -> Entries \cup {NoEntry}]
        /\ replySeq \in 0 .. SeqModulus - 1
    BY <1>0 DEF TypeOK, All, Entries
  <1>9. UNCHANGED <<pending, saved>> => SavedType' /\ NotesSaved'
    BY <1>0, UnsavedKeeps
  <1>2. CASE Answer(p)
    <2>1. replySeq' \in 0 .. SeqModulus - 1
      <3>1. replySeq' = replySeq \/ replySeq' = (replySeq + 1) % SeqModulus
        BY <1>2 DEF Answer
      <3> QED BY <1>1, <3>1, DiscoveryAssumption
    <2>2. UNCHANGED <<sight, pending, log, saved>>
      BY <1>2 DEF Answer
    <2> QED BY <1>0, <1>1, <1>9, <2>1, <2>2 DEF Tracks, CountsOn
  <1>3. CASE Dropped(p)
    <2>1. UNCHANGED <<sight, pending, replySeq, log, saved>>
      BY <1>3 DEF Dropped
    <2> QED BY <1>0, <1>1, <1>9, <2>1 DEF Tracks, CountsOn
  <1>4. CASE Record(p)
    <2>1. p.mac \in All /\ p.seq \in 0 .. SeqModulus - 1 /\ p.note \in Notes
      BY DEF Packets, All
    <2>2. /\ pending' \in [Macs -> Entries \cup {NoEntry}]
          /\ SavedType' /\ NotesSaved'
      <3>1. CASE p.cmd = 6 /\ p.mac \in Macs
        BY <1>0, <1>4, <2>1, <3>1, MarkPendingKeeps DEF Record
      <3>2. CASE ~(p.cmd = 6 /\ p.mac \in Macs)
        <4>1. UNCHANGED <<pending, saved>>
          BY <1>4, <3>2 DEF Record
        <4> QED BY <1>1, <1>9, <4>1
      <3> QED BY <3>1, <3>2
    <2>3. /\ sight' \in [All -> Sights \cup {NoSight}] /\ log' \in [All -> Sights \cup {NoSight}]
          /\ Tracks' /\ CountsOn
      <3>1. CASE p.ver # 2
        <4>1. UNCHANGED <<sight, log>>
          BY <1>4, <3>1 DEF Record
        <4> QED BY <1>0, <1>1, <4>1 DEF Tracks, CountsOn
      <3>2. CASE p.ver = 2
        <4> DEFINE s == [seq |-> p.seq, age |-> 0]
                   put == [sight EXCEPT ![p.mac] = s]
        <4>1. s \in Sights /\ s.seq = p.seq /\ s.age = 0
          BY <2>1, DiscoveryBoundAssumption DEF Sights
        <4>2. sight' = Pruned(put) /\ log' = [log EXCEPT ![p.mac] = s] /\ ~Replayed(p)
          BY <1>4, <3>2 DEF Record, LetThrough
        <4> HIDE DEF s
        <4>3. put \in [All -> Sights \cup {NoSight}] /\ put[p.mac] = s
              /\ \A m \in All \ {p.mac} : put[m] = sight[m]
          BY <1>1, <2>1, <4>1
        <4> HIDE DEF put
        <4>4. /\ sight' \in [All -> Sights \cup {NoSight}]
              /\ \A m \in All : \/ sight'[m] = put[m]
                                \/ sight'[m] = NoSight /\ put[m] # NoSight /\ put[m].age >= Window
          BY <4>2, <4>3, PrunedKeeps
        <4>5. /\ log' \in [All -> Sights \cup {NoSight}]
              /\ log'[p.mac] = s /\ \A m \in All \ {p.mac} : log'[m] = log[m]
          BY <1>1, <2>1, <4>1, <4>2
        <4>6. \A m \in All : log[m] # NoSight => log[m].age \in Nat /\ log[m].seq \in Nat
          BY <1>1, DiscoveryAssumption, DiscoveryBoundAssumption DEF Sights
        <4>7. Tracks'
          <5> SUFFICES ASSUME NEW m \in All, log'[m] # NoSight, log'[m].age < Window
                       PROVE  sight'[m] = log'[m]
            BY DEF Tracks
          <5>1. CASE m = p.mac
            BY <4>1, <4>3, <4>4, <4>5, <5>1, DiscoveryBoundAssumption
          <5>2. CASE m # p.mac
            BY <1>0, <4>3, <4>4, <4>5, <4>6, <5>2, DiscoveryBoundAssumption DEF Tracks
          <5> QED BY <5>1, <5>2
        <4>8. CountsOn
          <5> SUFFICES ASSUME NEW m \in Macs, log'[m] # log[m], log[m] # NoSight,
                              ~(log[m].age >= Window)
                       PROVE  log'[m].seq > log[m].seq
            BY DEF CountsOn
          <5>1. m = p.mac /\ m \in All
            BY <4>5 DEF All
          <5>2. sight[m] = log[m] /\ log[m].age < Window
            BY <1>0, <4>6, <5>1, DiscoveryBoundAssumption DEF Tracks
          <5>3. ~(p.seq <= log[m].seq)
            BY <4>2, <5>1, <5>2 DEF Replayed
          <5> QED BY <2>1, <4>1, <4>5, <4>6, <5>1, <5>3
        <4> QED BY <4>4, <4>5, <4>7, <4>8
      <3> QED BY <3>1, <3>2
    <2>4. replySeq' = replySeq
      BY <1>4 DEF Record
    <2> QED BY <1>1, <2>2, <2>3, <2>4
  <1> QED BY <1>2, <1>3, <1>4 DEF Handle

\* A counter that is spent is still a count.
LEMMA SpendType ==
    ASSUME TypeOK, NEW f \in {"faults", "ops"}, NEW bound, Spend(f, bound)
    PROVE  spent' \in [faults : Nat, ops : Nat]
  BY DEF Spend, TypeOK

-----------------------------------------------------------------------------
(* Every step                                                               *)

\* Every step keeps the invariant and lets only numbers through that count on.
LEMMA NextIInv == IInv /\ [Next]_vars => IInv' /\ [CountsOn]_vars
  <1> SUFFICES ASSUME IInv, [Next]_vars PROVE IInv' /\ CountsOn
    OBVIOUS
  <1>0. TypeOK /\ Tracks /\ NotesSaved
    BY DEF IInv
  <1>12. UNCHANGED <<pending, rec, saved>> => SavedType' /\ NotesSaved'
    BY <1>0, UnsavedKeeps
  <1>1. ASSUME NEW m \in Macs, NEW mark \in Marks, NEW port \in Ports, Announce(m, mark, port)
        PROVE  IInv' /\ CountsOn
    <2> DEFINE seq == (dev[m].seq + 1) % SeqModulus
               note == [source |-> "discovery",
                        mark |-> IF dev[m].phase = "managed" /\ mark = "true"
                                 THEN "false" ELSE mark,
                        port |-> port, boot |-> dev[m].boot]
               p == [ver |-> 2, cmd |-> 6, mac |-> m, seq |-> seq, sender |-> m,
                     local |-> TRUE, blocked |-> FALSE, note |-> note]
    <2>1. seq \in 0 .. SeqModulus - 1
      BY <1>0, DiscoveryAssumption DEF TypeOK
    <2>2. note \in Notes
      BY <1>0, DiscoveryAssumption DEF TypeOK, Notes
    <2>3. /\ dev' = [dev EXCEPT ![m].seq = seq] /\ air' = air \cup {p}
          /\ UNCHANGED <<sight, pending, rec, click, replySeq, log, saved, spent>>
      BY <1>1 DEF Announce
    <2> HIDE DEF seq, note
    <2>4. p \in Packets
      BY <2>1, <2>2 DEF Packets
    <2> HIDE DEF p
    <2>6. SavedType' /\ NotesSaved'
      BY <1>12, <2>3
    <2>7. dev' \in [Macs -> [boot : Nat, seq : 0 .. SeqModulus - 1,
                             phase : {"factory", "homed", "managed"}]]
      <3>1. dev \in [Macs -> [boot : Nat, seq : 0 .. SeqModulus - 1,
                              phase : {"factory", "homed", "managed"}]]
        BY <1>0 DEF TypeOK
      <3> QED BY <2>1, <2>3, <3>1
    <2>5. TypeOK'
      BY <1>0, <2>3, <2>4, <2>6, <2>7 DEF TypeOK, SavedType, Records
    <2> QED BY <1>0, <2>3, <2>5, <2>6 DEF IInv, Tracks, CountsOn
  <1>2. ASSUME NEW p \in air, Lose(p)
        PROVE  IInv' /\ CountsOn
    BY <1>0, <1>2 DEF Lose, IInv, TypeOK, Tracks, NotesSaved, CountsOn, saved
  <1>3. ASSUME NEW p \in air \cup Strays, Receive(p) \/ ReceiveCopy(p) \/ ReceiveStray(p)
        PROVE  IInv' /\ CountsOn
    <2>1. p \in Packets
      BY <1>0, <1>3, DiscoveryAssumption DEF TypeOK
    <2>2. Handle(p) /\ UNCHANGED <<dev, rec, click>> /\ air' \subseteq air
      BY <1>3 DEF Receive, ReceiveCopy, ReceiveStray
    <2>3. spent' \in [faults : Nat, ops : Nat]
      <3>1. CASE Receive(p)
        BY <1>0, <3>1 DEF Receive, TypeOK
      <3>2. CASE ReceiveCopy(p) \/ ReceiveStray(p)
        BY <1>0, <3>2, SpendType DEF ReceiveCopy, ReceiveStray
      <3> QED BY <1>3, <3>1, <3>2
    <2>4. /\ sight' \in [All -> Sights \cup {NoSight}] /\ log' \in [All -> Sights \cup {NoSight}]
          /\ pending' \in [Macs -> Entries \cup {NoEntry}]
          /\ SavedType'
          /\ replySeq' \in 0 .. SeqModulus - 1
          /\ Tracks' /\ NotesSaved' /\ CountsOn
      BY <2>1, <2>2, HandleKeeps
    <2>5. TypeOK'
      BY <1>0, <2>2, <2>3, <2>4 DEF TypeOK, All, Entries, SavedType, Records
    <2> QED BY <2>4, <2>5 DEF IInv
  <1>4. ASSUME NEW m \in Macs, AdoptPending(m)
        PROVE  IInv' /\ CountsOn
    <2>1. /\ pending' = pending \/ pending' = Evicted(pending)
          /\ rec' = [rec EXCEPT ![m] = "pending"] /\ Save(rec')
          /\ click' = m \/ click' = NoMac
          /\ UNCHANGED <<dev, air, sight, replySeq, log, spent>>
      BY <1>4 DEF AdoptPending
    <2>2. pending' \in [Macs -> Entries \cup {NoEntry}]
      BY <1>0, <2>1, EvictedKeeps DEF TypeOK, Entries
    <2>3. rec' \in [Macs -> Records]
      BY <1>0, <2>1 DEF TypeOK, Records
    <2>4. SavedType' /\ NotesSaved'
      BY <1>0, <2>1, <2>2, <2>3, SaveKeeps
    <2>5. TypeOK'
      BY <1>0, <2>1, <2>2, <2>3, <2>4 DEF TypeOK, Entries, SavedType, Records
    <2> QED BY <1>0, <2>1, <2>4, <2>5 DEF IInv, Tracks, CountsOn
  <1>5. ASSUME NEW k \in Kinds, PushSetInform(k)
        PROVE  IInv' /\ CountsOn
    <2>1. /\ pending' = pending \/ pending' = Evicted(pending)
          /\ click # NoMac /\ click' = NoMac
          /\ dev' = dev \/ dev' = Homed(click)
          /\ UNCHANGED <<air, sight, rec, replySeq, log, saved, spent>>
      BY <1>5 DEF PushSetInform
    <2>2. /\ pending' \in [Macs -> Entries \cup {NoEntry}]
          /\ \A n \in Macs : pending'[n] = pending[n] \/ pending'[n] = NoEntry
      BY <1>0, <2>1, EvictedKeeps DEF TypeOK, Entries
    <2>5. SavedType' /\ NotesSaved'
      BY <1>0, <2>1, <2>2, UnsavedKeeps
    <2>3. dev' \in [Macs -> [boot : Nat, seq : 0 .. SeqModulus - 1,
                             phase : {"factory", "homed", "managed"}]]
      BY <1>0, <2>1 DEF TypeOK, Homed
    <2>4. TypeOK'
      BY <1>0, <2>1, <2>2, <2>3, <2>5 DEF TypeOK, Entries, SavedType, Records
    <2> QED BY <1>0, <2>1, <2>4, <2>5 DEF IInv, Tracks, CountsOn
  <1>6. ASSUME NEW m \in Macs, Inform(m)
        PROVE  IInv' /\ CountsOn
    <2>1. UNCHANGED <<air, sight, click, replySeq, log, spent>>
      BY <1>6 DEF Inform
    <2>2. [source |-> "inform"] \in Notes
      BY DEF Notes
    <2>3. CASE MarkPending(m, [source |-> "inform"]) /\ UNCHANGED <<dev, rec>>
      <3>1. /\ pending' \in [Macs -> Entries \cup {NoEntry}]
            /\ SavedType' /\ NotesSaved'
        BY <1>0, <2>2, <2>3, MarkPendingKeeps
      <3>2. TypeOK'
        BY <1>0, <2>1, <2>3, <3>1 DEF TypeOK, Entries, SavedType, Records
      <3> QED BY <1>0, <2>1, <3>1, <3>2 DEF IInv, Tracks, CountsOn
    <2>4. CASE /\ rec' = [rec EXCEPT ![m] = "managed"] /\ UNCHANGED pending /\ Save(rec')
               /\ dev' = dev \/ dev' = [dev EXCEPT ![m].phase = "managed"]
      <3>1. rec' \in [Macs -> Records] /\ pending' \in [Macs -> Entries \cup {NoEntry}]
        BY <1>0, <2>4 DEF TypeOK, Entries, Records
      <3>2. SavedType' /\ NotesSaved'
        BY <1>0, <2>4, <3>1, SaveKeeps
      <3>3. dev' \in [Macs -> [boot : Nat, seq : 0 .. SeqModulus - 1,
                               phase : {"factory", "homed", "managed"}]]
        BY <1>0, <2>4 DEF TypeOK
      <3>4. TypeOK'
        BY <1>0, <2>1, <3>1, <3>2, <3>3 DEF TypeOK, Entries, SavedType, Records
      <3> QED BY <1>0, <2>1, <3>2, <3>4 DEF IInv, Tracks, CountsOn
    <2>5. \/ MarkPending(m, [source |-> "inform"]) /\ UNCHANGED <<dev, rec>>
          \/ /\ rec' = [rec EXCEPT ![m] = "managed"] /\ UNCHANGED pending /\ Save(rec')
             /\ dev' = dev \/ dev' = [dev EXCEPT ![m].phase = "managed"]
      BY <1>6 DEF Inform
    <2> QED BY <2>3, <2>4, <2>5
  <1>7. ASSUME NEW m \in Macs,
               Reboot(m) \/ FactoryReset(m) \/ DeleteDevice(m) \/ ResetButton(m)
        PROVE  IInv' /\ CountsOn
    <2>1. UNCHANGED <<air, sight, pending, click, replySeq, log>>
      BY <1>7 DEF Reboot, FactoryReset, DeleteDevice, ResetButton
    <2>2. rec' \in [Macs -> {"none", "pending", "managed"}]
      BY <1>0, <1>7 DEF Reboot, FactoryReset, DeleteDevice, ResetButton, TypeOK
    <2>3. dev' \in [Macs -> [boot : Nat, seq : 0 .. SeqModulus - 1,
                             phase : {"factory", "homed", "managed"}]]
      <3>1. \A ph \in {"factory", "homed", "managed"} :
               Restarted(dev[m], ph) \in [boot : Nat, seq : 0 .. SeqModulus - 1,
                                          phase : {"factory", "homed", "managed"}]
        BY <1>0, DiscoveryAssumption DEF Restarted, TypeOK
      <3>2. \/ dev' = dev
            \/ dev' = [dev EXCEPT ![m] = Restarted(dev[m], dev[m].phase)]
            \/ dev' = [dev EXCEPT ![m] = Restarted(dev[m], "factory")]
        BY <1>7 DEF Reboot, FactoryReset, DeleteDevice, ResetButton
      <3>3. dev[m].phase \in {"factory", "homed", "managed"}
        BY <1>0 DEF TypeOK
      <3> QED BY <1>0, <3>1, <3>2, <3>3 DEF TypeOK
    <2>4. spent' \in [faults : Nat, ops : Nat]
      <3>1. spent' = spent \/ Spend("ops", MaxOps)
        BY <1>7 DEF Reboot, FactoryReset, DeleteDevice, ResetButton
      <3> QED BY <1>0, <3>1, SpendType DEF TypeOK
    <2>5. SavedType' /\ NotesSaved'
      <3>1. CASE Reboot(m) \/ ResetButton(m)
        <4>1. UNCHANGED <<pending, rec, saved>>
          BY <3>1 DEF Reboot, ResetButton
        <4> QED BY <1>12, <4>1
      <3>2. CASE FactoryReset(m) \/ DeleteDevice(m)
        <4>1. Save(rec')
          BY <3>2 DEF FactoryReset, DeleteDevice
        <4>2. rec' \in [Macs -> Records] /\ pending' \in [Macs -> Entries \cup {NoEntry}]
          BY <1>0, <2>1, <2>2 DEF TypeOK, Entries, Records
        <4> QED BY <1>0, <4>1, <4>2, SaveKeeps
      <3> QED BY <1>7, <3>1, <3>2
    <2>6. TypeOK'
      BY <1>0, <2>1, <2>2, <2>3, <2>4, <2>5 DEF TypeOK, SavedType, Records
    <2> QED BY <1>0, <2>1, <2>5, <2>6 DEF IInv, Tracks, CountsOn
  <1>8. CASE Restart
    <2>1. spent' \in [faults : Nat, ops : Nat]
      BY <1>0, <1>8, SpendType DEF Restart
    <2>2. /\ sight' \in [All -> Sights \cup {NoSight}] /\ log' \in [All -> Sights \cup {NoSight}]
          /\ \A n \in All : log'[n] = NoSight
      BY <1>0, <1>8 DEF Restart, TypeOK, All
    <2>3. /\ pending' = [n \in Macs |-> IF file.note[n] = NoEntry THEN NoEntry
                                        ELSE [note |-> file.note[n], age |-> 0]]
          /\ rec' = file.rec /\ UNCHANGED <<dev, air, saved>>
          /\ replySeq' = 0 /\ click' = NoMac
      BY <1>8 DEF Restart
    <2>4. file.note \in [Macs -> Notes \cup {NoEntry}] /\ file.rec \in [Macs -> Records]
      BY <1>0 DEF TypeOK, Records
    <2>5. pending' \in [Macs -> Entries \cup {NoEntry}]
      <3>1. \A n \in Macs : file.note[n] # NoEntry => [note |-> file.note[n], age |-> 0] \in Entries
        BY <2>4, DiscoveryBoundAssumption DEF Entries
      <3> QED BY <2>3, <3>1
    <2>6. \A n \in Macs : pending'[n] # NoEntry => pending'[n].note = file.note[n]
      BY <2>3
    <2>7. SavedType' /\ NotesSaved'
      BY <1>0, <2>3, <2>6 DEF saved, TypeOK, SavedType, Records, NotesSaved
    <2>8. replySeq' \in 0 .. SeqModulus - 1
      BY <2>3, DiscoveryAssumption
    <2>9. TypeOK'
      BY <1>0, <2>1, <2>2, <2>3, <2>4, <2>5, <2>7, <2>8 DEF TypeOK, All, Entries, SavedType, Records
    <2> QED BY <1>0, <2>2, <2>7, <2>9 DEF IInv, Tracks, CountsOn, All
  <1>9. CASE Tick
    <2>1. UNCHANGED <<dev, air, rec, click, replySeq, saved, spent>>
      BY <1>9 DEF Tick
    <2>2. /\ \A n \in All : /\ sight'[n] = IF sight[n] = NoSight THEN NoSight
                                           ELSE Older(sight[n], Window)
                            /\ log'[n] = IF log[n] = NoSight THEN NoSight
                                         ELSE Older(log[n], Window)
          /\ sight' = [n \in All |-> sight'[n]] /\ log' = [n \in All |-> log'[n]]
      BY <1>0, <1>9 DEF Tick, TypeOK, All
    <2>3. /\ sight' \in [All -> Sights \cup {NoSight}] /\ log' \in [All -> Sights \cup {NoSight}]
      BY <1>0, <2>2, OlderSight DEF TypeOK, All
    <2>4. Tracks' /\ CountsOn
      BY <1>0, <2>2, OlderSight DEF TypeOK, All, Tracks, CountsOn
    <2>5. /\ pending' \in [Macs -> Entries \cup {NoEntry}]
          /\ \A n \in Macs : pending'[n] # NoEntry
                => pending[n] # NoEntry /\ pending'[n].note = pending[n].note
      BY <1>0, <1>9, OlderEntry DEF Tick, TypeOK, Entries
    <2>6. SavedType' /\ NotesSaved'
      BY <1>0, <2>1, <2>5, UnsavedKeeps
    <2>7. TypeOK'
      BY <1>0, <2>1, <2>3, <2>5, <2>6 DEF TypeOK, All, Entries, SavedType, Records
    <2> QED BY <2>4, <2>6, <2>7 DEF IInv
  <1>10. CASE ListPending
    <2>1. /\ pending' = Evicted(pending)
          /\ UNCHANGED <<dev, air, sight, rec, click, replySeq, log, saved, spent>>
      BY <1>10 DEF ListPending
    <2>2. /\ pending' \in [Macs -> Entries \cup {NoEntry}]
          /\ \A n \in Macs : pending'[n] = pending[n] \/ pending'[n] = NoEntry
      BY <1>0, <2>1, EvictedKeeps DEF TypeOK, Entries
    <2>3. SavedType' /\ NotesSaved'
      BY <1>0, <2>1, <2>2, UnsavedKeeps
    <2>4. TypeOK'
      BY <1>0, <2>1, <2>2, <2>3 DEF TypeOK, Entries, SavedType, Records
    <2> QED BY <1>0, <2>1, <2>3, <2>4 DEF IInv, Tracks, CountsOn
  <1>11. CASE UNCHANGED vars
    BY <1>0, <1>11 DEF vars, saved, IInv, TypeOK, Tracks, NotesSaved, CountsOn
  <1> QED BY <1>1, <1>2, <1>3, <1>4, <1>5, <1>6, <1>7, <1>8, <1>9, <1>10, <1>11 DEF Next

\* The invariant holds for ever.
LEMMA DiscoveryInvariant == Spec => []IInv
  <1>1. Init => IInv
    BY DiscoveryAssumption DEF Init, Image, IInv, TypeOK, Tracks, NotesSaved, All
  <1>2. IInv /\ [Next]_vars => IInv'
    BY NextIInv
  <1> QED BY <1>1, <1>2, PTL DEF Spec

-----------------------------------------------------------------------------
(* The theorems                                                             *)

\* The maps of discovery, the datagrams under way and the devices keep their types.
THEOREM TypeCorrect == Spec => []TypeOK
  <1>1. IInv => TypeOK
    BY DEF IInv
  <1> QED BY <1>1, DiscoveryInvariant, PTL

\* Until a save fails the file holds every record and the note of every
\* candidate, whatever is repeated, evicted by readers and reloaded (MarkPending).
THEOREM NotesSavedHolds == Spec => []NotesSaved
  <1>1. IInv => NotesSaved
    BY DEF IInv
  <1> QED BY <1>1, DiscoveryInvariant, PTL

\* The dedup window holds under duplicates, reordering, pruning and wraparound
\* of the announce counter (seeDiscovery).
THEOREM WindowHoldsAlways == Spec => WindowHolds
  <1>1. IInv /\ [Next]_vars => [CountsOn]_vars
    BY NextIInv
  <1>2. Spec => [][CountsOn]_vars
    BY <1>1, DiscoveryInvariant, PTL DEF Spec
  <1> QED BY <1>2 DEF WindowHolds, CountsOn
=============================================================================
