----------------------------- MODULE StoreProofs -----------------------------
(***************************************************************************)
(* Theorems about Store, for any number of goroutines, devices and calls:  *)
(*  - the file only moves forward and holds every acknowledged mutation    *)
(*    (SaveInv: the saver's snapshot lies between the file and the memory);*)
(*  - cycles on a MAC that nobody deletes are serial (LockInv: goroutines  *)
(*    in such a cycle hold the one mutex of their MAC).                    *)
(***************************************************************************)
EXTENDS Store, TLAPS

Stamps ==
    /\ file.stamp <= mem.stamp
    /\ mem.stamp < next.stamp
    /\ acked <= file.stamp

\* The order that saveMu buys: a snapshot that is being written is newer than
\* the file, no newer than the memory, and contains its saver's mutation.
Saver(p) ==
    /\ proc[p].mine <= mem.stamp
    /\ proc[p].pc \in {"snapshot", "write"} => saveMu = p
    /\ proc[p].pc = "write" =>
          /\ file.stamp <= proc[p].snap.stamp
          /\ proc[p].snap.stamp <= mem.stamp
          /\ proc[p].mine <= proc[p].snap.stamp

SaveInv == Stamps /\ \A p \in Procs : Saver(p)

\* A goroutine that has resolved a mutex, and one that is in a cycle on a device
\* nobody deletes.
Resolved == {"acquire", "get", "fn", "remove", "prune"}
InCycle(p) == proc[p].pc \in {"get", "fn"} /\ proc[p].mac \notin Deletable

\* The mutex a goroutine resolved belongs to no other MAC, it is still its own
\* MAC's if nobody deletes that, it is locked during the cycle, and what the
\* cycle read is still stored.
Owner(p) ==
    /\ proc[p].verb = "Delete" => proc[p].mac \in Deletable
    /\ proc[p].pc \in {"remove", "prune"} => proc[p].mac \in Deletable
    /\ proc[p].pc \in Resolved =>
          /\ proc[p].lock # 0
          /\ proc[p].lock < next.lock
          /\ \A n \in Macs : locks[n] = proc[p].lock => n = proc[p].mac
          /\ proc[p].mac \notin Deletable => proc[p].lock = locks[proc[p].mac]
    /\ InCycle(p) => proc[p].lock \in held
    /\ InCycle(p) /\ proc[p].pc = "fn" => mem.devices[proc[p].mac] = proc[p].read

\* Mutexes of different MACs differ, and two goroutines in a cycle hold
\* different ones.
LockInv ==
    /\ \A m \in Macs : locks[m] < next.lock
    /\ \A m, n \in Macs : locks[m] = locks[n] /\ locks[m] # 0 => m = n
    /\ \A p \in Procs : Owner(p)
    /\ \A p, q \in Procs : InCycle(p) /\ InCycle(q) /\ p # q =>
          proc[p].lock # proc[q].lock

-----------------------------------------------------------------------------
\* A goroutine between calls and the image of an empty store are well typed.
LEMMA IdleTyped == NoImage \in Images /\ IdleProc \in ProcStates
<1>1. (CHOOSE m \in Macs : TRUE) \in Macs
  BY MacAssumption
<1>2. NoImage \in Images
  BY DEF NoImage, Images
<1> QED
  BY <1>1, <1>2 DEF IdleProc, ProcStates, Phases

\* Eviction keeps the shape of the pending map (evictExpiredLocked).
LEMMA EvictedTyped ==
    ASSUME NEW f \in [Macs -> Sightings \cup {NoSighting}]
    PROVE  Evicted(f) \in [Macs -> Sightings \cup {NoSighting}]
BY DEF Evicted

\* What a goroutine may become at each kind of step is well typed.
LEMMA ProcTyped ==
    ASSUME NEW q \in ProcStates, NEW pc \in Phases
    PROVE  /\ \A verb \in Verbs, mac \in Macs :
                 [q EXCEPT !.pc = pc, !.verb = verb, !.mac = mac] \in ProcStates
           /\ \A n \in Nat : /\ [q EXCEPT !.pc = pc, !.lock = n] \in ProcStates
                              /\ [q EXCEPT !.pc = pc, !.read = n] \in ProcStates
                              /\ [q EXCEPT !.pc = pc, !.mine = n] \in ProcStates
           /\ \A image \in Images : [q EXCEPT !.pc = pc, !.snap = image] \in ProcStates
BY DEF ProcStates

\* A mutation of the memory by a goroutine keeps the types it touches.
LEMMA MutatesTyped ==
    ASSUME TypeOK, NEW p \in Procs, NEW pc \in Phases, NEW image \in Images,
           Mutates(p, pc, image)
    PROVE  /\ mem' \in Images
           /\ proc' \in [Procs -> ProcStates]
           /\ next' \in [stamp : Nat \ {0}, lock : Nat \ {0}]
<1>1. proc[p] \in ProcStates /\ next.stamp \in Nat
  BY DEF TypeOK
<1>2. [proc[p] EXCEPT !.pc = pc, !.mine = next.stamp] \in ProcStates
  BY <1>1, ProcTyped
<1>3. proc' \in [Procs -> ProcStates]
  BY <1>2 DEF Mutates, TypeOK
<1>4. mem' \in Images
  BY <1>1 DEF Mutates, Images
<1> QED
  BY <1>3, <1>4 DEF Mutates, TypeOK

\* Every initial state is well typed.
LEMMA TypeInit == Init => TypeOK
<1> SUFFICES ASSUME Init PROVE TypeOK
  OBVIOUS
<1> QED
  BY IdleTyped DEF Init, TypeOK

\* Every step keeps the types.
LEMMA TypeStep == TypeOK /\ [Next]_vars => TypeOK'
<1> SUFFICES ASSUME TypeOK, [Next]_vars PROVE TypeOK'
  OBVIOUS
<1> USE DEF TypeOK
<1>1. ASSUME NEW p \in Procs, NEW verb \in Verbs, NEW mac \in Macs, Call(p, verb, mac)
      PROVE  TypeOK'
  <2> DEFINE pc == IF verb = "MarkPending" THEN "mark" ELSE "resolve"
  <2>1. pc \in Phases
    BY DEF Phases
  <2>2. [proc[p] EXCEPT !.pc = pc, !.verb = verb, !.mac = mac] \in ProcStates
    BY <2>1, ProcTyped
  <2>3. proc' = [proc EXCEPT ![p] = [proc[p] EXCEPT !.pc = pc, !.verb = verb, !.mac = mac]]
    BY <1>1 DEF Call
  <2> QED
    BY <1>1, <2>2, <2>3 DEF Call
<1>2. ASSUME NEW p \in Procs, MacLock(p) PROVE TypeOK'
  <2> DEFINE lk == IF locks[proc[p].mac] = 0 THEN next.lock ELSE locks[proc[p].mac]
  <2>1. lk \in Nat /\ proc[p].mac \in Macs /\ "acquire" \in Phases
    BY DEF ProcStates, Phases
  <2>2. [proc[p] EXCEPT !.pc = "acquire", !.lock = lk] \in ProcStates
    BY <2>1, ProcTyped
  <2>3. proc' = [proc EXCEPT ![p] = [proc[p] EXCEPT !.pc = "acquire", !.lock = lk]]
    BY <1>2 DEF MacLock
  <2>4. locks' = [locks EXCEPT ![proc[p].mac] = lk]
    BY <1>2 DEF MacLock
  <2>5. next' \in [stamp : Nat \ {0}, lock : Nat \ {0}]
    BY <1>2 DEF MacLock
  <2> QED
    BY <1>2, <2>1, <2>2, <2>3, <2>4, <2>5 DEF MacLock
<1>3. ASSUME NEW p \in Procs, Acquire(p) PROVE TypeOK'
  BY <1>3 DEF Acquire, Goto, At, ProcStates, Phases
<1>4. ASSUME NEW p \in Procs, Get(p) PROVE TypeOK'
  <2> DEFINE d == mem.devices[proc[p].mac]
  <2>1. d \in Nat /\ "fn" \in Phases
    BY DEF ProcStates, Phases, Images
  <2>2. [proc[p] EXCEPT !.pc = "fn", !.read = d] \in ProcStates
    BY <2>1, ProcTyped
  <2>3. \/ proc' = [proc EXCEPT ![p] = [proc[p] EXCEPT !.pc = "fn", !.read = d]]
        \/ proc' = [proc EXCEPT ![p] = IdleProc]
    BY <1>4 DEF Get, Returns
  <2>4. proc' \in [Procs -> ProcStates]
    BY <2>2, <2>3, IdleTyped
  <2>5. held' \in SUBSET Nat
    BY <1>4 DEF Get, Unlock
  <2> QED
    BY <1>4, <2>4, <2>5 DEF Get
<1>5. ASSUME NEW p \in Procs, Abort(p) PROVE TypeOK'
  BY <1>5, IdleTyped DEF Abort, Unlock, Returns
<1>6. ASSUME NEW p \in Procs, Put(p) PROVE TypeOK'
  <2> DEFINE image == [mem EXCEPT !.devices = [@ EXCEPT ![proc[p].mac] = next.stamp]]
  <2>1. image \in Images
    BY DEF Images, ProcStates
  <2>2. Mutates(p, "save", image) /\ "save" \in Phases
    BY <1>6 DEF Put, Phases
  <2>3. /\ mem' \in Images
        /\ proc' \in [Procs -> ProcStates]
        /\ next' \in [stamp : Nat \ {0}, lock : Nat \ {0}]
    BY <2>1, <2>2, MutatesTyped
  <2> QED
    BY <1>6, <2>3 DEF Put, Unlock
<1>7. ASSUME NEW p \in Procs, Remove(p) PROVE TypeOK'
  <2> DEFINE image == [mem EXCEPT !.devices = [@ EXCEPT ![proc[p].mac] = 0]]
  <2>1. image \in Images /\ "prune" \in Phases
    BY DEF Images, ProcStates, Phases
  <2>2. CASE mem.devices[proc[p].mac] = 0
    BY <1>7, <2>2, IdleTyped DEF Remove, Returns, Unlock
  <2>3. CASE mem.devices[proc[p].mac] # 0
    <3>1. Mutates(p, "prune", image) /\ mu' = p /\ UNCHANGED held
      BY <1>7, <2>3 DEF Remove
    <3>2. /\ mem' \in Images
          /\ proc' \in [Procs -> ProcStates]
          /\ next' \in [stamp : Nat \ {0}, lock : Nat \ {0}]
      BY <2>1, <3>1, MutatesTyped
    <3> QED
      BY <1>7, <3>1, <3>2 DEF Remove
  <2> QED
    BY <2>2, <2>3
<1>8. ASSUME NEW p \in Procs, Prune(p) PROVE TypeOK'
  BY <1>8 DEF Prune, Goto, Unlock, ProcStates, Phases
<1>9. ASSUME NEW p \in Procs, NEW note \in Notes, MarkPending(p, note) PROVE TypeOK'
  <2> DEFINE m == proc[p].mac
             fresh == Evicted(mem.pending)
             seen == IF fresh[m] # NoSighting THEN fresh[m].seenAt ELSE now
             entry == [note |-> note, seenAt |-> seen]
  <2>1. m \in Macs /\ mem.pending \in [Macs -> Sightings \cup {NoSighting}]
    BY DEF ProcStates, Images
  <2>2. fresh \in [Macs -> Sightings \cup {NoSighting}]
    BY <2>1, EvictedTyped
  <2>3. entry \in Sightings
    BY <2>1, <2>2 DEF Sightings
  <2>4. [fresh EXCEPT ![m] = entry] \in [Macs -> Sightings \cup {NoSighting}]
    BY <2>1, <2>2, <2>3
  <2> HIDE DEF fresh, entry, m
  <2>5. \/ mem' = [mem EXCEPT !.pending = fresh] /\ Returns(p) /\ UNCHANGED next
        \/ Mutates(p, "save", [mem EXCEPT !.pending = [fresh EXCEPT ![m] = entry]])
    BY <1>9 DEF MarkPending, fresh, entry, m
  <2>6. UNCHANGED <<file, locks, held, mu, saveMu, acked, now, spent>>
    BY <1>9 DEF MarkPending
  <2>7. CASE mem' = [mem EXCEPT !.pending = fresh] /\ Returns(p) /\ UNCHANGED next
    BY <2>2, <2>6, <2>7, IdleTyped DEF Returns, Images
  <2>8. CASE Mutates(p, "save", [mem EXCEPT !.pending = [fresh EXCEPT ![m] = entry]])
    <3>1. [mem EXCEPT !.pending = [fresh EXCEPT ![m] = entry]] \in Images
      BY <2>4 DEF Images
    <3>2. "save" \in Phases
      BY DEF Phases
    <3>3. /\ mem' \in Images
          /\ proc' \in [Procs -> ProcStates]
          /\ next' \in [stamp : Nat \ {0}, lock : Nat \ {0}]
      BY <2>8, <3>1, <3>2, MutatesTyped
    <3> QED
      BY <2>6, <3>3
  <2> QED
    BY <2>5, <2>7, <2>8
<1>10. ASSUME NEW p \in Procs, SaveLock(p) PROVE TypeOK'
  BY <1>10 DEF SaveLock, Goto, ProcStates, Phases
<1>11. ASSUME NEW p \in Procs, Snapshot(p) PROVE TypeOK'
  <2>1. "write" \in Phases
    BY DEF Phases
  <2>2. [proc[p] EXCEPT !.pc = "write", !.snap = mem] \in ProcStates
    BY <2>1, ProcTyped
  <2> QED
    BY <1>11, <2>2 DEF Snapshot
<1>12. ASSUME NEW p \in Procs, Rename(p) PROVE TypeOK'
  BY <1>12, IdleTyped DEF Rename, Returns, ProcStates
<1>13. ASSUME NEW p \in Procs, SaveFails(p) PROVE TypeOK'
  BY <1>13, IdleTyped DEF SaveFails, Returns
<1>14. CASE ReadPending
  <2>1. Evicted(mem.pending) \in [Macs -> Sightings \cup {NoSighting}]
    BY EvictedTyped DEF Images
  <2> QED
    BY <1>14, <2>1 DEF ReadPending, Images
<1>15. CASE Tick
  BY <1>15 DEF Tick
<1>16. CASE Restart
  <2>1. Reloaded(file) \in Images
    BY DEF Reloaded, Images, Sightings
  <2> QED
    BY <1>16, <2>1, IdleTyped DEF Restart, Images
<1>17. CASE UNCHANGED vars
  BY <1>17 DEF vars
<1> QED
  BY <1>1, <1>2, <1>3, <1>4, <1>5, <1>6, <1>7, <1>8, <1>9, <1>10, <1>11, <1>12,
     <1>13, <1>14, <1>15, <1>16, <1>17 DEF Next, Step

\* TypeCorrect: the store's state keeps its types (store.go, db and jsonStore).
THEOREM TypeCorrect == Spec => []TypeOK
BY TypeInit, TypeStep, PTL DEF Spec

-----------------------------------------------------------------------------
(* Saves                                                                    *)

\* The stamps of images and goroutines are naturals.
LEMMA StampTypes ==
    ASSUME TypeOK
    PROVE  /\ mem.stamp \in Nat /\ file.stamp \in Nat /\ next.stamp \in Nat
           /\ acked \in Nat
           /\ \A p \in Procs : /\ proc[p].mine \in Nat /\ proc[p].snap.stamp \in Nat
BY DEF TypeOK, ProcStates, Images

\* A step that leaves images and locks alone and moves one goroutine somewhere
\* outside save keeps SaveInv.
LEMMA SaveElsewhere ==
    ASSUME TypeOK, SaveInv, NEW p \in Procs, NEW q,
           proc' = [proc EXCEPT ![p] = q],
           q.mine \in {0, proc[p].mine}, q.pc \notin {"snapshot", "write"},
           file' = file, saveMu' = saveMu, acked' = acked,
           mem'.stamp = mem.stamp, next'.stamp = next.stamp
    PROVE  SaveInv'
<1> USE StampTypes DEF SaveInv
<1>1. Stamps'
  BY DEF Stamps
<1>2. ASSUME NEW r \in Procs PROVE Saver(r)'
  <2>1. CASE r = p
    <3>1. proc'[r] = q
      BY <2>1 DEF TypeOK
    <3> QED
      BY <2>1, <3>1 DEF Saver, Stamps
  <2>2. CASE r # p
    <3>1. proc'[r] = proc[r]
      BY <2>2 DEF TypeOK
    <3> QED
      BY <3>1 DEF Saver
  <2> QED
    BY <2>1, <2>2
<1> QED
  BY <1>1, <1>2

\* A mutation draws a stamp above every other one, so it keeps SaveInv.
LEMMA SaveMutates ==
    ASSUME TypeOK, SaveInv, NEW p \in Procs, NEW pc, NEW image,
           Mutates(p, pc, image), mem'.stamp = next.stamp, pc \notin {"snapshot", "write"},
           file' = file, saveMu' = saveMu, acked' = acked
    PROVE  SaveInv'
<1> USE StampTypes DEF SaveInv
<1>1. next'.stamp = next.stamp + 1
  BY DEF Mutates, TypeOK
<1>2. Stamps'
  BY <1>1 DEF Stamps
<1>3. ASSUME NEW r \in Procs PROVE Saver(r)'
  <2>1. CASE r = p
    <3>1. proc'[r].mine = next.stamp /\ proc'[r].pc = pc
      BY <2>1 DEF Mutates, TypeOK, ProcStates
    <3> QED
      BY <1>1, <3>1 DEF Saver
  <2>2. CASE r # p
    <3>1. proc'[r] = proc[r]
      BY <2>2 DEF Mutates, TypeOK
    <3> QED
      BY <1>1, <3>1 DEF Saver, Stamps
  <2> QED
    BY <2>1, <2>2
<1> QED
  BY <1>2, <1>3

\* A saver that returns, having renamed its snapshot or not, keeps SaveInv.
LEMMA SaveReturns ==
    ASSUME TypeOK, SaveInv, NEW p \in Procs, At(p, "write"), Returns(p),
           saveMu' = NoProc, mem' = mem, next' = next,
           \/ file' = file /\ acked' = acked
           \/ /\ file' = proc[p].snap
              /\ acked' = IF proc[p].mine > acked THEN proc[p].mine ELSE acked
    PROVE  SaveInv'
<1> USE StampTypes DEF SaveInv
<1>1. Saver(p) /\ saveMu = p
  BY DEF Saver, At
<1>2. Stamps' /\ file.stamp <= file'.stamp /\ file'.stamp <= mem.stamp
  BY <1>1 DEF Stamps, Saver, At
<1>3. ASSUME NEW r \in Procs PROVE Saver(r)'
  <2>1. CASE r = p
    <3>1. proc'[r].mine = 0 /\ proc'[r].pc = "idle"
      BY <2>1 DEF Returns, IdleProc, TypeOK
    <3> QED
      BY <3>1 DEF Saver
  <2>2. CASE r # p
    <3>1. proc'[r] = proc[r]
      BY <2>2 DEF Returns, TypeOK
    <3>2. proc[r].pc \notin {"snapshot", "write"}
      BY <1>1, <2>2 DEF Saver
    <3> QED
      BY <3>1, <3>2 DEF Saver
  <2> QED
    BY <2>1, <2>2
<1> QED
  BY <1>2, <1>3

\* Every step keeps SaveInv.
LEMMA SaveStep == TypeOK /\ SaveInv /\ [Next]_vars => SaveInv'
<1> SUFFICES ASSUME TypeOK, SaveInv, [Next]_vars PROVE SaveInv'
  OBVIOUS
<1>0. \A p \in Procs : proc[p] \in ProcStates
  BY DEF TypeOK
<1>1. ASSUME NEW p \in Procs, NEW verb \in Verbs, NEW mac \in Macs, Call(p, verb, mac)
      PROVE  SaveInv'
  <2> DEFINE q == [proc[p] EXCEPT !.pc = IF verb = "MarkPending" THEN "mark" ELSE "resolve",
                                  !.verb = verb, !.mac = mac]
  <2>1. q.mine = proc[p].mine /\ q.pc \notin {"snapshot", "write"}
    BY <1>0 DEF ProcStates
  <2> QED
    BY <1>1, <2>1, SaveElsewhere DEF Call
<1>2. ASSUME NEW p \in Procs, MacLock(p) PROVE SaveInv'
  <2> DEFINE lk == IF locks[proc[p].mac] = 0 THEN next.lock ELSE locks[proc[p].mac]
             q == [proc[p] EXCEPT !.pc = "acquire", !.lock = lk]
  <2>1. q.mine = proc[p].mine /\ q.pc \notin {"snapshot", "write"}
    BY <1>0 DEF ProcStates
  <2>2. proc' = [proc EXCEPT ![p] = q] /\ next'.stamp = next.stamp
    BY <1>2 DEF MacLock, TypeOK
  <2>3. UNCHANGED <<file, saveMu, acked, mem>>
    BY <1>2 DEF MacLock
  <2> HIDE DEF q
  <2> QED
    BY <2>1, <2>2, <2>3, SaveElsewhere
<1>3. ASSUME NEW p \in Procs, Acquire(p) PROVE SaveInv'
  <2> DEFINE q == [proc[p] EXCEPT !.pc = IF proc[p].verb = "Delete" THEN "remove" ELSE "get"]
  <2>1. q.mine = proc[p].mine /\ q.pc \notin {"snapshot", "write"}
    BY <1>0 DEF ProcStates
  <2> QED
    BY <1>3, <2>1, SaveElsewhere DEF Acquire, Goto
<1>4. ASSUME NEW p \in Procs, Get(p) PROVE SaveInv'
  <2> DEFINE q == [proc[p] EXCEPT !.pc = "fn", !.read = mem.devices[proc[p].mac]]
  <2>1. q.mine = proc[p].mine /\ q.pc \notin {"snapshot", "write"}
    BY <1>0 DEF ProcStates
  <2>2. IdleProc.mine = 0 /\ IdleProc.pc \notin {"snapshot", "write"}
    BY DEF IdleProc
  <2>3. proc' = [proc EXCEPT ![p] = q] \/ proc' = [proc EXCEPT ![p] = IdleProc]
    BY <1>4 DEF Get, Returns
  <2>4. UNCHANGED <<file, saveMu, acked, mem, next>>
    BY <1>4 DEF Get
  <2> HIDE DEF q
  <2>5. CASE proc' = [proc EXCEPT ![p] = q]
    BY <2>1, <2>4, <2>5, SaveElsewhere
  <2>6. CASE proc' = [proc EXCEPT ![p] = IdleProc]
    BY <2>2, <2>4, <2>6, SaveElsewhere
  <2> QED
    BY <2>3, <2>5, <2>6
<1>5. ASSUME NEW p \in Procs, Abort(p) PROVE SaveInv'
  <2>1. IdleProc.mine = 0 /\ IdleProc.pc \notin {"snapshot", "write"}
    BY DEF IdleProc
  <2> QED
    BY <1>5, <2>1, SaveElsewhere DEF Abort, Returns
<1>6. ASSUME NEW p \in Procs, Put(p) PROVE SaveInv'
  <2> DEFINE image == [mem EXCEPT !.devices = [@ EXCEPT ![proc[p].mac] = next.stamp]]
  <2>1. Mutates(p, "save", image) /\ UNCHANGED <<file, saveMu, acked>>
    BY <1>6 DEF Put
  <2>2. mem'.stamp = next.stamp
    BY <2>1 DEF Mutates, TypeOK, Images
  <2> HIDE DEF image
  <2> QED
    BY <2>1, <2>2, SaveMutates
<1>7. ASSUME NEW p \in Procs, Remove(p) PROVE SaveInv'
  <2> DEFINE image == [mem EXCEPT !.devices = [@ EXCEPT ![proc[p].mac] = 0]]
  <2>1. IdleProc.mine = 0 /\ IdleProc.pc \notin {"snapshot", "write"}
    BY DEF IdleProc
  <2>2. CASE mem.devices[proc[p].mac] = 0
    BY <1>7, <2>1, <2>2, SaveElsewhere DEF Remove, Returns
  <2>3. CASE mem.devices[proc[p].mac] # 0
    <3>1. Mutates(p, "prune", image) /\ UNCHANGED <<file, saveMu, acked>>
      BY <1>7, <2>3 DEF Remove
    <3>2. mem'.stamp = next.stamp
      BY <3>1 DEF Mutates, TypeOK, Images
    <3> HIDE DEF image
    <3> QED
      BY <3>1, <3>2, SaveMutates
  <2> QED
    BY <2>2, <2>3
<1>8. ASSUME NEW p \in Procs, Prune(p) PROVE SaveInv'
  <2> DEFINE q == [proc[p] EXCEPT !.pc = "save"]
  <2>1. q.mine = proc[p].mine /\ q.pc \notin {"snapshot", "write"}
    BY <1>0 DEF ProcStates
  <2> QED
    BY <1>8, <2>1, SaveElsewhere DEF Prune, Goto
<1>9. ASSUME NEW p \in Procs, NEW note \in Notes, MarkPending(p, note) PROVE SaveInv'
  <2>1. PICK pending :
           \/ mem' = [mem EXCEPT !.pending = pending] /\ Returns(p) /\ UNCHANGED next
           \/ Mutates(p, "save", [mem EXCEPT !.pending = pending])
    BY <1>9 DEF MarkPending
  <2>2. UNCHANGED <<file, saveMu, acked>>
    BY <1>9 DEF MarkPending
  <2>3. CASE mem' = [mem EXCEPT !.pending = pending] /\ Returns(p) /\ UNCHANGED next
    <3>1. IdleProc.mine = 0 /\ IdleProc.pc \notin {"snapshot", "write"}
      BY DEF IdleProc
    <3>2. mem'.stamp = mem.stamp
      BY <2>3 DEF TypeOK, Images
    <3> QED
      BY <2>2, <2>3, <3>1, <3>2, SaveElsewhere DEF Returns
  <2>4. CASE Mutates(p, "save", [mem EXCEPT !.pending = pending])
    <3>1. mem'.stamp = next.stamp
      BY <2>4 DEF Mutates, TypeOK, Images
    <3> QED
      BY <2>2, <2>4, <3>1, SaveMutates
  <2> QED
    BY <2>1, <2>3, <2>4
<1>10. ASSUME NEW p \in Procs, SaveLock(p) PROVE SaveInv'
  <2>1. ASSUME NEW r \in Procs PROVE Saver(r)'
    <3>1. CASE r = p
      <4>1. proc'[r].mine = proc[r].mine /\ proc'[r].pc = "snapshot"
        BY <1>0, <1>10, <3>1 DEF SaveLock, Goto, TypeOK, ProcStates
      <4> QED
        BY <1>10, <3>1, <4>1 DEF SaveLock, SaveInv, Saver
    <3>2. CASE r # p
      <4>1. proc'[r] = proc[r] /\ proc[r].pc \notin {"snapshot", "write"}
        BY <1>10, <3>2, ProcAssumption DEF SaveLock, Goto, TypeOK, SaveInv, Saver
      <4> QED
        BY <1>10, <4>1 DEF SaveLock, SaveInv, Saver
    <3> QED
      BY <3>1, <3>2
  <2> QED
    BY <1>10, <2>1 DEF SaveLock, SaveInv, Stamps
<1>11. ASSUME NEW p \in Procs, Snapshot(p) PROVE SaveInv'
  <2>1. ASSUME NEW r \in Procs PROVE Saver(r)'
    <3>1. CASE r = p
      <4>1. /\ proc'[r].mine = proc[r].mine /\ proc'[r].pc = "write"
            /\ proc'[r].snap = mem
        BY <1>0, <1>11, <3>1 DEF Snapshot, TypeOK, ProcStates
      <4> QED
        BY <1>11, <3>1, <4>1, StampTypes DEF Snapshot, At, SaveInv, Saver, Stamps
    <3>2. CASE r # p
      <4>1. proc'[r] = proc[r]
        BY <1>11, <3>2 DEF Snapshot, TypeOK
      <4> QED
        BY <1>11, <4>1 DEF Snapshot, SaveInv, Saver
    <3> QED
      BY <3>1, <3>2
  <2> QED
    BY <1>11, <2>1 DEF Snapshot, SaveInv, Stamps
<1>12. ASSUME NEW p \in Procs, Rename(p) PROVE SaveInv'
  BY <1>12, SaveReturns DEF Rename
<1>13. ASSUME NEW p \in Procs, SaveFails(p) PROVE SaveInv'
  BY <1>13, SaveReturns DEF SaveFails
<1>14. CASE ReadPending
  <2>1. mem'.stamp = mem.stamp
    BY <1>14 DEF ReadPending, TypeOK, Images
  <2> QED
    BY <1>14, <2>1 DEF ReadPending, SaveInv, Stamps, Saver
<1>15. CASE Tick
  BY <1>15 DEF Tick, SaveInv, Stamps, Saver
<1>16. CASE Restart
  <2>1. mem'.stamp = file.stamp
    BY <1>16 DEF Restart, Reloaded, TypeOK, Images
  <2>2. Stamps'
    BY <1>16, <2>1, StampTypes DEF Restart, SaveInv, Stamps
  <2>3. ASSUME NEW r \in Procs PROVE Saver(r)'
    <3>1. proc'[r].mine = 0 /\ proc'[r].pc = "idle"
      BY <1>16 DEF Restart, IdleProc
    <3> QED
      BY <2>1, <3>1, StampTypes DEF Saver
  <2> QED
    BY <2>2, <2>3 DEF SaveInv
<1>17. CASE UNCHANGED vars
  BY <1>17 DEF vars, SaveInv, Stamps, Saver
<1> QED
  BY <1>1, <1>2, <1>3, <1>4, <1>5, <1>6, <1>7, <1>8, <1>9, <1>10, <1>11, <1>12,
     <1>13, <1>14, <1>15, <1>16, <1>17 DEF Next, Step

\* SavesOrdered: memory, file and every snapshot in flight stay ordered, for
\* any number of concurrent savers, failed saves and restarts.
THEOREM SavesOrdered == Spec => [](TypeOK /\ SaveInv)
<1>1. Init => SaveInv
  BY DEF Init, SaveInv, Stamps, Saver, NoImage, IdleProc
<1> QED
  BY <1>1, TypeInit, TypeStep, SaveStep, PTL DEF Spec

\* AckedDurableHolds: what a verb acknowledged is in the file (jsonStore.save).
THEOREM AckedDurableHolds == Spec => []AckedDurable
<1>1. SaveInv => AckedDurable
  BY DEF SaveInv, Stamps, AckedDurable
<1> QED
  BY <1>1, SavesOrdered, PTL

\* FileForwardHolds: no save brings back an older state of the file (saveMu).
THEOREM FileForwardHolds == Spec => FileForward
<1>1. TypeOK /\ SaveInv /\ [Next]_vars => [file.stamp <= file'.stamp]_vars
  <2> SUFFICES ASSUME TypeOK, SaveInv, [Next]_vars PROVE file.stamp <= file'.stamp
    OBVIOUS
  <2>1. ASSUME NEW p \in Procs, Rename(p) PROVE file.stamp <= file'.stamp
    BY <2>1 DEF Rename, At, SaveInv, Saver
  <2>2. CASE file' = file
    BY <2>2, StampTypes
  <2>3. file' = file \/ \E p \in Procs : Rename(p)
    BY DEF Next, Step, vars, Call, MacLock, Acquire, Get, Abort, Put, Remove, Prune,
           MarkPending, ReadPending, Tick, SaveLock, Snapshot, SaveFails, Restart
  <2> QED
    BY <2>1, <2>2, <2>3
<1> QED
  BY <1>1, SavesOrdered, PTL DEF Spec, FileForward

-----------------------------------------------------------------------------
(* Cycles                                                                   *)

\* A step of p that resolves no mutex and enters no cycle keeps LockInv: it may
\* store and unlock only what p owns, and only a Delete prunes its mutex.
LEMMA LockElsewhere ==
    ASSUME TypeOK, LockInv, NEW p \in Procs, NEW q,
           proc' = [proc EXCEPT ![p] = q],
           q.verb = "Delete" => q.mac \in Deletable,
           \/ q.pc \notin Resolved
           \/ /\ q.pc = "prune" /\ proc[p].pc = "remove"
              /\ q.lock = proc[p].lock /\ q.mac = proc[p].mac,
           \/ locks' = locks
           \/ /\ proc[p].pc = "prune" /\ q.pc \notin Resolved
              /\ locks' = [locks EXCEPT ![proc[p].mac] = 0],
           next'.lock = next.lock,
           \/ held' = held
           \/ /\ proc[p].pc \in Resolved \ {"acquire"}
              /\ held' = held \ {proc[p].lock},
           \A m \in Macs : \/ mem'.devices[m] = mem.devices[m]
                           \/ proc[p].pc \in Resolved \ {"acquire"} /\ m = proc[p].mac
    PROVE  LockInv'
<1>0. \A r \in Procs : Owner(r) /\ proc[r].mac \in Macs /\ proc[r].lock \in Nat
  BY DEF LockInv, TypeOK, ProcStates
<1>1. proc'[p] = q /\ \A r \in Procs \ {p} : proc'[r] = proc[r]
  BY DEF TypeOK
<1>2. \A r \in Procs \ {p} : InCycle(r)' <=> InCycle(r)
  BY <1>1 DEF InCycle
<1>3. ~InCycle(p)'
  BY <1>1 DEF InCycle, Resolved
<1>4. \A m \in Macs : locks'[m] = locks[m] \/ (locks'[m] = 0 /\ m = proc[p].mac)
  BY DEF TypeOK
<1>5. next.lock \in Nat \ {0} /\ \A m \in Macs : locks[m] \in Nat
  BY DEF TypeOK
<1>6. \A m \in Macs : locks'[m] < next'.lock
  BY <1>4, <1>5 DEF LockInv
<1>7. ASSUME NEW r \in Procs \ {p}, InCycle(r)
      PROVE  /\ proc[p].pc \in Resolved \ {"acquire"} =>
                   proc[r].lock # proc[p].lock /\ proc[r].mac # proc[p].mac
             /\ proc[r].lock \in held /\ proc[r].lock = locks[proc[r].mac]
  <2>1. proc[r].lock \in held /\ proc[r].lock = locks[proc[r].mac] /\ proc[r].lock # 0
    BY <1>0, <1>7 DEF Owner, InCycle, Resolved
  <2> SUFFICES ASSUME proc[p].pc \in Resolved \ {"acquire"}
               PROVE  proc[r].lock # proc[p].lock /\ proc[r].mac # proc[p].mac
    BY <2>1
  <2>2. CASE proc[p].mac \in Deletable
    <3>1. proc[r].mac # proc[p].mac
      BY <1>7, <2>2 DEF InCycle
    <3>2. \A n \in Macs : locks[n] = proc[p].lock => n = proc[p].mac
      BY <1>0 DEF Owner
    <3> QED
      BY <1>0, <2>1, <3>1, <3>2
  <2>3. CASE proc[p].mac \notin Deletable
    <3>1. InCycle(p) /\ proc[p].lock = locks[proc[p].mac]
      BY <1>0, <2>3 DEF Owner, InCycle, Resolved
    <3>2. proc[r].lock # proc[p].lock
      BY <1>7, <3>1 DEF LockInv
    <3> QED
      BY <2>1, <3>1, <3>2
  <2> QED
    BY <2>2, <2>3
<1>8. ASSUME NEW r \in Procs PROVE Owner(r)'
  <2>1. CASE r = p
    <3>1. q.pc \in Resolved => proc[p].pc \in Resolved /\ locks' = locks
      BY DEF Resolved
    <3>2. q.pc \in {"remove", "prune"} => q.mac \in Deletable
      BY <1>0 DEF Owner, Resolved
    <3>3. q.pc \in Resolved =>
             /\ q.lock # 0 /\ q.lock < next'.lock
             /\ \A n \in Macs : locks'[n] = q.lock => n = q.mac
             /\ q.mac \notin Deletable => q.lock = locks'[q.mac]
      BY <1>0, <3>1 DEF Owner
    <3> QED
      BY <1>1, <1>3, <2>1, <3>2, <3>3 DEF Owner
  <2>2. CASE r # p
    <3>1. Owner(r) /\ proc[r].mac \in Macs /\ proc'[r] = proc[r]
      BY <1>0, <1>1, <2>2
    <3>2. InCycle(r) => proc[r].lock \in held'
      BY <1>0, <1>7, <2>2
    <3>3. InCycle(r) /\ proc[r].pc = "fn" => mem'.devices[proc[r].mac] = proc[r].read
      BY <1>7, <2>2, <3>1 DEF Owner
    <3>4. ASSUME proc[r].pc \in Resolved
          PROVE  /\ \A n \in Macs : locks'[n] = proc[r].lock => n = proc[r].mac
                 /\ proc[r].mac \notin Deletable => proc[r].lock = locks'[proc[r].mac]
      <4>1. /\ proc[r].lock # 0
            /\ \A n \in Macs : locks[n] = proc[r].lock => n = proc[r].mac
            /\ proc[r].mac \notin Deletable => proc[r].lock = locks[proc[r].mac]
        BY <3>1, <3>4 DEF Owner
      <4>2. \A n \in Macs : locks'[n] = proc[r].lock => n = proc[r].mac
        BY <1>4, <4>1
      <4>3. proc[r].mac \notin Deletable => locks'[proc[r].mac] = locks[proc[r].mac]
        <5>1. proc[p].pc = "prune" => proc[p].mac \in Deletable
          BY <1>0 DEF Owner
        <5> QED
          BY <3>1, <5>1 DEF TypeOK
      <4> QED
        BY <4>1, <4>2, <4>3
    <3>5. proc[r].pc \in Resolved => proc[r].lock # 0 /\ proc[r].lock < next'.lock
      BY <3>1 DEF Owner
    <3>6. /\ proc[r].verb = "Delete" => proc[r].mac \in Deletable
          /\ proc[r].pc \in {"remove", "prune"} => proc[r].mac \in Deletable
      BY <3>1 DEF Owner
    <3> QED
      BY <1>2, <2>2, <3>1, <3>2, <3>3, <3>4, <3>5, <3>6 DEF Owner
  <2> QED
    BY <2>1, <2>2
<1>9. \A r, s \in Procs : InCycle(r)' /\ InCycle(s)' /\ r # s =>
         proc'[r].lock # proc'[s].lock
  BY <1>1, <1>2, <1>3 DEF LockInv
<1>10. \A m, n \in Macs : locks'[m] = locks'[n] /\ locks'[m] # 0 => m = n
  BY <1>4 DEF LockInv
<1> QED
  BY <1>6, <1>8, <1>9, <1>10 DEF LockInv

\* Resolving a mutex keeps LockInv: a new one has a number of its own.
LEMMA LockResolved ==
    ASSUME TypeOK, LockInv, NEW p \in Procs, MacLock(p)
    PROVE  LockInv'
<1> DEFINE m == proc[p].mac
           lk == IF locks[m] = 0 THEN next.lock ELSE locks[m]
<1>0. /\ m \in Macs /\ lk \in Nat \ {0} /\ locks \in [Macs -> Nat]
      /\ next.lock \in Nat \ {0}
  BY DEF TypeOK, ProcStates
<1>1. /\ locks' = [locks EXCEPT ![m] = lk]
      /\ proc' = [proc EXCEPT ![p] = [proc[p] EXCEPT !.pc = "acquire", !.lock = lk]]
      /\ UNCHANGED <<mem, held>>
  BY DEF MacLock
<1>2. next'.lock = IF lk = next.lock THEN next.lock + 1 ELSE next.lock
  BY DEF MacLock, TypeOK
<1>3. /\ proc'[p].pc = "acquire" /\ proc'[p].lock = lk /\ proc'[p].mac = m
      /\ proc'[p].verb = proc[p].verb
      /\ \A r \in Procs \ {p} : proc'[r] = proc[r]
  BY <1>1 DEF TypeOK, ProcStates
<1>4. \A n \in Macs : locks'[n] = locks[n] \/ (n = m /\ locks[n] = 0 /\ locks'[n] = next.lock)
  BY <1>0, <1>1
<1>a. locks'[m] = lk
  BY <1>0, <1>1
<1> HIDE DEF lk, m
<1>5. \A n \in Macs : locks'[n] < next'.lock
  BY <1>0, <1>1, <1>2, <1>4 DEF LockInv, lk
<1>b. lk < next'.lock /\ next.lock <= next'.lock
  BY <1>0, <1>2, <1>5, <1>a
<1>c. \A n \in Macs : locks[n] < next.lock
  BY DEF LockInv
<1>6. ASSUME NEW r \in Procs PROVE Owner(r)'
  <2>0. Owner(r) /\ proc[r].mac \in Macs /\ proc[r].lock \in Nat
    BY DEF LockInv, TypeOK, ProcStates
  <2>1. CASE r = p
    <3>1. proc[p].verb = "Delete" => m \in Deletable
      BY <2>0, <2>1 DEF Owner, m
    <3>2. \A n \in Macs : locks'[n] = lk => n = m
      <4> SUFFICES ASSUME NEW n \in Macs, locks'[n] = lk PROVE n = m
        OBVIOUS
      <4>1. CASE locks[m] = 0
        BY <1>0, <1>4, <1>c, <4>1 DEF lk
      <4>2. CASE locks[m] # 0
        BY <1>0, <1>4, <1>c, <4>2 DEF lk, LockInv
      <4> QED
        BY <4>1, <4>2
    <3> QED
      BY <1>0, <1>3, <1>a, <1>b, <2>1, <3>1, <3>2 DEF Owner, InCycle, Resolved
  <2>2. CASE r # p
    <3>1. proc'[r] = proc[r]
      BY <1>3, <2>2
    <3>2. ASSUME proc[r].pc \in Resolved
          PROVE  /\ proc[r].lock # 0
                 /\ proc[r].lock < next'.lock
                 /\ \A n \in Macs : locks'[n] = proc[r].lock => n = proc[r].mac
                 /\ proc[r].mac \notin Deletable => proc[r].lock = locks'[proc[r].mac]
      <4>1. /\ proc[r].lock # 0
            /\ proc[r].lock < next.lock
            /\ \A n \in Macs : locks[n] = proc[r].lock => n = proc[r].mac
            /\ proc[r].mac \notin Deletable => proc[r].lock = locks[proc[r].mac]
        BY <2>0, <3>2 DEF Owner
      <4>2. proc[r].lock < next'.lock
        BY <1>0, <1>2, <2>0, <4>1
      <4>3. \A n \in Macs : locks'[n] = proc[r].lock => n = proc[r].mac
        BY <1>0, <1>4, <2>0, <4>1
      <4>4. locks[proc[r].mac] # 0 => locks'[proc[r].mac] = locks[proc[r].mac]
        BY <1>4, <2>0
      <4> QED
        BY <4>1, <4>2, <4>3, <4>4
    <3>3. InCycle(r)' <=> InCycle(r)
      BY <3>1 DEF InCycle
    <3>4. /\ InCycle(r) => proc[r].lock \in held
          /\ InCycle(r) /\ proc[r].pc = "fn" => mem.devices[proc[r].mac] = proc[r].read
          /\ proc[r].verb = "Delete" => proc[r].mac \in Deletable
          /\ proc[r].pc \in {"remove", "prune"} => proc[r].mac \in Deletable
      BY <2>0 DEF Owner
    <3>5. mem' = mem /\ held' = held
      BY <1>1
    <3> QED
      BY <3>1, <3>2, <3>3, <3>4, <3>5 DEF Owner
  <2> QED
    BY <2>1, <2>2
<1>7. \A r, s \in Procs : InCycle(r)' /\ InCycle(s)' /\ r # s =>
         proc'[r].lock # proc'[s].lock
  BY <1>3 DEF LockInv, InCycle
<1>8. \A n, o \in Macs : locks'[n] = locks'[o] /\ locks'[n] # 0 => n = o
  BY <1>0, <1>4, <1>c DEF LockInv
<1> QED
  BY <1>5, <1>6, <1>7, <1>8 DEF LockInv

\* Acquiring a mutex keeps LockInv: nobody else in a cycle holds that one.
LEMMA LockAcquired ==
    ASSUME TypeOK, LockInv, NEW p \in Procs, Acquire(p)
    PROVE  LockInv'
<1> DEFINE pc == IF proc[p].verb = "Delete" THEN "remove" ELSE "get"
<1>1. /\ proc'[p] = [proc[p] EXCEPT !.pc = pc]
      /\ \A r \in Procs \ {p} : proc'[r] = proc[r]
      /\ held' = held \cup {proc[p].lock} /\ proc[p].lock \notin held
      /\ UNCHANGED <<mem, locks, next>>
  BY DEF Acquire, Goto, TypeOK, ProcStates
<1>2. /\ proc'[p].pc = pc /\ proc'[p].lock = proc[p].lock /\ proc'[p].mac = proc[p].mac
      /\ proc'[p].verb = proc[p].verb /\ proc[p].pc = "acquire"
  BY <1>1 DEF Acquire, At, TypeOK, ProcStates
<1>3. ASSUME NEW r \in Procs PROVE Owner(r)'
  <2>1. Owner(r)
    BY DEF LockInv
  <2>2. CASE r = p
    <3>1. pc # "fn" /\ pc \in Resolved /\ (pc \in {"remove", "prune"} => proc[p].verb = "Delete")
      BY DEF Resolved
    <3> HIDE DEF pc
    <3> QED
      BY <1>1, <1>2, <2>1, <2>2, <3>1 DEF Owner, InCycle, Resolved
  <2>3. CASE r # p
    <3>1. proc'[r] = proc[r]
      BY <1>1, <2>3
    <3> QED
      BY <1>1, <2>1, <3>1 DEF Owner, InCycle
  <2> QED
    BY <2>2, <2>3
<1>4. \A r \in Procs \ {p} : InCycle(r) => proc[r].lock # proc[p].lock
  BY <1>1 DEF LockInv, Owner
<1>5. ASSUME NEW r \in Procs, NEW s \in Procs, InCycle(r)', InCycle(s)', r # s
      PROVE  proc'[r].lock # proc'[s].lock
  <2>1. CASE r # p /\ s # p
    <3>1. proc'[r] = proc[r] /\ proc'[s] = proc[s]
      BY <1>1, <2>1
    <3> QED
      BY <1>5, <3>1 DEF LockInv, InCycle
  <2>2. CASE r = p
    <3>1. proc'[s] = proc[s]
      BY <1>1, <1>5, <2>2
    <3> QED
      BY <1>2, <1>4, <1>5, <2>2, <3>1 DEF InCycle
  <2>3. CASE s = p
    <3>1. proc'[r] = proc[r]
      BY <1>1, <1>5, <2>3
    <3> QED
      BY <1>2, <1>4, <1>5, <2>3, <3>1 DEF InCycle
  <2> QED
    BY <2>1, <2>2, <2>3
<1> QED
  BY <1>1, <1>3, <1>5 DEF LockInv

\* Every step keeps LockInv.
LEMMA LockStep == TypeOK /\ LockInv /\ [Next]_vars => LockInv'
<1> SUFFICES ASSUME TypeOK, LockInv, [Next]_vars PROVE LockInv'
  OBVIOUS
<1>0. /\ \A p \in Procs : proc[p] \in ProcStates /\ Owner(p)
      /\ IdleProc.pc \notin Resolved /\ IdleProc.verb # "Delete"
  BY DEF TypeOK, IdleProc, LockInv, Resolved
<1>1. ASSUME NEW p \in Procs, NEW verb \in Verbs, NEW mac \in Macs, Call(p, verb, mac)
      PROVE  LockInv'
  <2> DEFINE q == [proc[p] EXCEPT !.pc = IF verb = "MarkPending" THEN "mark" ELSE "resolve",
                                  !.verb = verb, !.mac = mac]
  <2>1. q.pc \notin Resolved /\ (q.verb = "Delete" => q.mac \in Deletable)
    BY <1>0, <1>1 DEF ProcStates, Resolved, Call
  <2>2. proc' = [proc EXCEPT ![p] = q] /\ UNCHANGED <<mem, locks, held, next>>
    BY <1>1 DEF Call
  <2> HIDE DEF q
  <2> QED
    BY <2>1, <2>2, LockElsewhere
<1>2. ASSUME NEW p \in Procs, MacLock(p) PROVE LockInv'
  BY <1>2, LockResolved
<1>3. ASSUME NEW p \in Procs, Acquire(p) PROVE LockInv'
  BY <1>3, LockAcquired
<1>4. ASSUME NEW p \in Procs, Get(p) PROVE LockInv'
  <2>1. UNCHANGED <<mem, locks, next>> /\ proc[p].pc = "get"
    BY <1>4 DEF Get, At
  <2>2. CASE Unlock(p) /\ Returns(p)
    BY <1>0, <2>1, <2>2, LockElsewhere DEF Unlock, Returns, Resolved
  <2>3. CASE /\ proc' = [proc EXCEPT ![p] = [@ EXCEPT !.pc = "fn",
                                              !.read = mem.devices[proc[p].mac]]]
             /\ UNCHANGED held
    <3>1. /\ proc'[p].pc = "fn" /\ proc'[p].lock = proc[p].lock
          /\ proc'[p].mac = proc[p].mac /\ proc'[p].read = mem.devices[proc[p].mac]
          /\ proc'[p].verb = proc[p].verb
          /\ \A r \in Procs \ {p} : proc'[r] = proc[r]
      BY <2>3 DEF TypeOK, ProcStates
    <3>2. \A r \in Procs : Owner(r)'
      BY <1>0, <2>1, <2>3, <3>1 DEF Owner, InCycle, Resolved
    <3>3. \A r, s \in Procs : InCycle(r)' /\ InCycle(s)' /\ r # s =>
             proc'[r].lock # proc'[s].lock
      BY <2>1, <3>1 DEF LockInv, InCycle
    <3> QED
      BY <2>1, <3>2, <3>3 DEF LockInv
  <2> QED
    BY <1>4, <2>2, <2>3 DEF Get
<1>5. ASSUME NEW p \in Procs, Abort(p) PROVE LockInv'
  BY <1>0, <1>5, LockElsewhere DEF Abort, At, Unlock, Returns, Resolved
<1>6. ASSUME NEW p \in Procs, NEW pc \in {"save", "prune"},
             NEW image,
             proc[p].pc \in {"fn", "remove"}, pc = "prune" => proc[p].pc = "remove",
             Mutates(p, pc, image),
             \A m \in Macs : m # proc[p].mac => image.devices[m] = mem.devices[m],
             image \in Images, locks' = locks,
             held' = held \/ (held' = held \ {proc[p].lock})
      PROVE  LockInv'
  <2> DEFINE q == [proc[p] EXCEPT !.pc = pc, !.mine = next.stamp]
  <2>1. /\ q.verb = proc[p].verb /\ q.mac = proc[p].mac /\ q.lock = proc[p].lock
        /\ q.pc = pc
    BY <1>0 DEF ProcStates
  <2>2. proc' = [proc EXCEPT ![p] = q] /\ next'.lock = next.lock
    BY <1>6 DEF Mutates, TypeOK
  <2>3. \A m \in Macs : m # proc[p].mac => mem'.devices[m] = mem.devices[m]
    BY <1>6 DEF Mutates, Images
  <2>4. q.verb = "Delete" => q.mac \in Deletable
    BY <1>0, <2>1 DEF Owner
  <2>5. q.pc \notin Resolved \/ (q.pc = "prune" /\ proc[p].pc = "remove")
    BY <1>6, <2>1 DEF Resolved
  <2>6. proc[p].pc \in Resolved \ {"acquire"}
    BY <1>6 DEF Resolved
  <2> HIDE DEF q
  <2> QED
    BY <1>6, <2>1, <2>2, <2>3, <2>4, <2>5, <2>6, LockElsewhere
<1>7. ASSUME NEW p \in Procs, Put(p) PROVE LockInv'
  <2> DEFINE image == [mem EXCEPT !.devices = [@ EXCEPT ![proc[p].mac] = next.stamp]]
  <2>1. /\ image \in Images
        /\ \A m \in Macs : m # proc[p].mac => image.devices[m] = mem.devices[m]
    BY DEF TypeOK, Images
  <2>2. /\ proc[p].pc = "fn" /\ Mutates(p, "save", image) /\ locks' = locks
        /\ held' = held \ {proc[p].lock}
    BY <1>7 DEF Put, At, Unlock
  <2> HIDE DEF image
  <2> QED
    BY <1>6, <2>1, <2>2
<1>8. ASSUME NEW p \in Procs, Remove(p) PROVE LockInv'
  <2> DEFINE image == [mem EXCEPT !.devices = [@ EXCEPT ![proc[p].mac] = 0]]
  <2>1. /\ image \in Images
        /\ \A m \in Macs : m # proc[p].mac => image.devices[m] = mem.devices[m]
    BY DEF TypeOK, Images
  <2>2. proc[p].pc = "remove" /\ locks' = locks
    BY <1>8 DEF Remove, At
  <2>3. CASE Returns(p) /\ Unlock(p) /\ UNCHANGED <<mem, mu, next>>
    BY <1>0, <2>2, <2>3, LockElsewhere DEF Returns, Unlock, Resolved
  <2>4. CASE Mutates(p, "prune", image) /\ UNCHANGED held
    <3> HIDE DEF image
    <3> QED
      BY <1>6, <2>1, <2>2, <2>4
  <2> QED
    BY <1>8, <2>3, <2>4 DEF Remove
<1>9. ASSUME NEW p \in Procs, Prune(p) PROVE LockInv'
  <2> DEFINE q == [proc[p] EXCEPT !.pc = "save"]
  <2>1. q.pc \notin Resolved /\ (q.verb = "Delete" => q.mac \in Deletable)
    BY <1>0 DEF ProcStates, Resolved, Owner
  <2>2. /\ proc' = [proc EXCEPT ![p] = q] /\ proc[p].pc = "prune"
        /\ locks' = [locks EXCEPT ![proc[p].mac] = 0]
        /\ held' = held \ {proc[p].lock} /\ UNCHANGED <<mem, next>>
    BY <1>9 DEF Prune, Goto, At, Unlock
  <2>3. proc[p].pc \in Resolved \ {"acquire"}
    BY <2>2 DEF Resolved
  <2> HIDE DEF q
  <2> QED
    BY <2>1, <2>2, <2>3, LockElsewhere
<1>10. ASSUME NEW p \in Procs, NEW note \in Notes, MarkPending(p, note) PROVE LockInv'
  <2>1. PICK pending :
           \/ mem' = [mem EXCEPT !.pending = pending] /\ Returns(p) /\ UNCHANGED next
           \/ Mutates(p, "save", [mem EXCEPT !.pending = pending])
    BY <1>10 DEF MarkPending
  <2>2. UNCHANGED <<locks, held>>
    BY <1>10 DEF MarkPending
  <2>3. mem'.devices = mem.devices /\ next'.lock = next.lock
    BY <2>1 DEF Mutates, TypeOK, Images
  <2>4. CASE Returns(p)
    BY <1>0, <2>2, <2>3, <2>4, LockElsewhere DEF Returns
  <2>5. CASE Mutates(p, "save", [mem EXCEPT !.pending = pending])
    <3> DEFINE q == [proc[p] EXCEPT !.pc = "save", !.mine = next.stamp]
    <3>1. q.pc \notin Resolved /\ (q.verb = "Delete" => q.mac \in Deletable)
      BY <1>0 DEF ProcStates, Resolved, Owner
    <3>2. proc' = [proc EXCEPT ![p] = q]
      BY <2>5 DEF Mutates
    <3> HIDE DEF q
    <3> QED
      BY <2>2, <2>3, <3>1, <3>2, LockElsewhere
  <2> QED
    BY <2>1, <2>4, <2>5
<1>11. ASSUME NEW p \in Procs, SaveLock(p) PROVE LockInv'
  <2> DEFINE q == [proc[p] EXCEPT !.pc = "snapshot"]
  <2>1. q.pc \notin Resolved /\ (q.verb = "Delete" => q.mac \in Deletable)
    BY <1>0 DEF ProcStates, Resolved, Owner
  <2>2. proc' = [proc EXCEPT ![p] = q] /\ UNCHANGED <<mem, locks, held, next>>
    BY <1>11 DEF SaveLock, Goto
  <2> HIDE DEF q
  <2> QED
    BY <2>1, <2>2, LockElsewhere
<1>12. ASSUME NEW p \in Procs, Snapshot(p) PROVE LockInv'
  <2> DEFINE q == [proc[p] EXCEPT !.pc = "write", !.snap = mem]
  <2>1. q.pc \notin Resolved /\ (q.verb = "Delete" => q.mac \in Deletable)
    BY <1>0 DEF ProcStates, Resolved, Owner
  <2>2. proc' = [proc EXCEPT ![p] = q] /\ UNCHANGED <<mem, locks, held, next>>
    BY <1>12 DEF Snapshot
  <2> HIDE DEF q
  <2> QED
    BY <2>1, <2>2, LockElsewhere
<1>13. ASSUME NEW p \in Procs, Rename(p) \/ SaveFails(p) PROVE LockInv'
  BY <1>0, <1>13, LockElsewhere DEF Rename, SaveFails, Returns
<1>14. CASE ReadPending
  <2>1. mem'.devices = mem.devices
    BY <1>14 DEF ReadPending, TypeOK, Images
  <2> QED
    BY <1>14, <2>1 DEF ReadPending, LockInv, Owner, InCycle
<1>15. CASE Tick
  BY <1>15 DEF Tick, LockInv, Owner, InCycle
<1>16. CASE Restart
  <2>1. \A r \in Procs : proc'[r].pc = "idle" /\ proc'[r].verb = "none"
    BY <1>16 DEF Restart, IdleProc
  <2>2. \A m \in Macs : locks'[m] = 0
    BY <1>16 DEF Restart
  <2> QED
    BY <1>16, <2>1, <2>2 DEF Restart, LockInv, Owner, InCycle, Resolved, TypeOK
<1>17. CASE UNCHANGED vars
  BY <1>17 DEF vars, LockInv, Owner, InCycle
<1> QED
  BY <1>1, <1>2, <1>3, <1>4, <1>5, <1>7, <1>8, <1>9, <1>10, <1>11, <1>12, <1>13,
     <1>14, <1>15, <1>16, <1>17 DEF Next, Step

\* CyclesSerialHolds: the per-MAC mutex of macLock makes read-modify-write cycles
\* on a device serial as long as nobody deletes that device, whatever Delete
\* prunes for others, and through restarts.
THEOREM CyclesSerialHolds == Spec => []CyclesSerial
<1>1. Init => LockInv
  BY DEF Init, LockInv, Owner, InCycle, IdleProc, Resolved
<1>2. LockInv => CyclesSerial
  BY DEF LockInv, Owner, InCycle, CyclesSerial, At
<1> QED
  BY <1>1, <1>2, TypeInit, TypeStep, LockStep, PTL DEF Spec
=============================================================================
