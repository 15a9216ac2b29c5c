-------------------------------- MODULE Store --------------------------------
(***************************************************************************)
(* The device store of internal/store/store.go: the in-memory core (db)    *)
(* with its per-MAC mutexes, and the JSON file behind it (jsonStore).      *)
(* Goroutines run the store's mutating verbs; every lock acquisition, map  *)
(* access and file operation that another goroutine can come between is a  *)
(* step of its own.                                                        *)
(*                                                                         *)
(* Data abstraction: every mutation of the memory draws a fresh stamp. A   *)
(* device record is the stamp of the mutation that stored it, 0 if absent. *)
(* A mutex is a number, and a goroutine keeps the number it resolved: after*)
(* Delete pruned the map entry the next macLock makes another mutex.       *)
(* db.mu is held across steps by Delete only, db.upMu never is.            *)
(***************************************************************************)
EXTENDS Integers, FiniteSets

CONSTANTS
    Procs,       \* goroutines
    Macs, Notes, \* devices, annotations of a sighting
    Verbs,       \* which of Update, UpdateExisting, Delete, MarkPending run
    Deletable,   \* the devices an operator may delete
    NoProc, NoSighting,
    MaxPending,  \* maxPending, 100 in the code
    Ttl,         \* pendingTTL in clock ticks
    MaxCalls, MaxFaults, MaxClock  \* bounds: calls, failed saves + restarts, time

ASSUME ProcAssumption == NoProc \notin Procs
ASSUME MacAssumption == Macs # {}
ASSUME VerbAssumption ==
    Verbs \subseteq {"Update", "UpdateExisting", "Delete", "MarkPending"}
ASSUME DeletableAssumption == Deletable \subseteq Macs
ASSUME SightingAssumption == NoSighting \notin [note : Notes, seenAt : Nat]
ASSUME StoreBoundAssumption ==
    /\ MaxPending \in Nat
    /\ Ttl \in Nat
    /\ MaxCalls \in Nat
    /\ MaxFaults \in Nat
    /\ MaxClock \in Nat

VARIABLES
    mem,     \* db.devices, db.pending and the stamp of the last mutation
    file,    \* the same, as last renamed into place
    locks,   \* db.upLocks: the mutex of each MAC, 0 if there is no entry
    held,    \* mutexes that are locked
    mu,      \* the goroutine that holds db.mu across steps
    saveMu,  \* the goroutine that holds jsonStore.saveMu
    proc,    \* the goroutines
    next,    \* fresh stamp and mutex
    acked,   \* history: the newest mutation whose verb returned nil
    now,     \* the clock
    spent    \* what the bounds count

vars == <<mem, file, locks, held, mu, saveMu, proc, next, acked, now, spent>>

Sightings == [note : Notes, seenAt : Nat]

Images ==
    [devices : [Macs -> Nat],
     pending : [Macs -> Sightings \cup {NoSighting}],
     stamp   : Nat]

Phases == {"idle", "resolve", "acquire", "get", "fn", "remove", "prune",
           "mark", "save", "snapshot", "write"}

NoImage == [devices |-> [m \in Macs |-> 0], pending |-> [m \in Macs |-> NoSighting],
            stamp |-> 0]

ProcStates ==
    [pc : Phases, verb : Verbs \cup {"none"}, mac : Macs, lock : Nat, read : Nat,
     mine : Nat, snap : Images]

IdleProc == [pc |-> "idle", verb |-> "none", mac |-> CHOOSE m \in Macs : TRUE,
             lock |-> 0, read |-> 0, mine |-> 0, snap |-> NoImage]

Init ==
    /\ mem = NoImage
    /\ file = NoImage
    /\ locks = [m \in Macs |-> 0]
    /\ held = {}
    /\ mu = NoProc
    /\ saveMu = NoProc
    /\ proc = [p \in Procs |-> IdleProc]
    /\ next = [stamp |-> 1, lock |-> 1]
    /\ acked = 0
    /\ now = 0
    /\ spent = [calls |-> 0, faults |-> 0]

At(p, pc) == proc[p].pc = pc
Goto(p, pc) == proc' = [proc EXCEPT ![p].pc = pc]
Returns(p) == proc' = [proc EXCEPT ![p] = IdleProc]

\* A mutation of the memory by p: the image and p's stamp.
Mutates(p, pc, image) ==
    /\ mem' = [image EXCEPT !.stamp = next.stamp]
    /\ proc' = [proc EXCEPT ![p] = [@ EXCEPT !.pc = pc, !.mine = next.stamp]]
    /\ next' = [next EXCEPT !.stamp = @ + 1]

-----------------------------------------------------------------------------
(* Read-modify-write cycles                                                 *)

Call(p, verb, mac) ==
    /\ At(p, "idle")
    /\ verb \in Verbs
    /\ verb = "Delete" => mac \in Deletable
    /\ spent.calls < MaxCalls
    /\ proc' = [proc EXCEPT ![p] =
                   [@ EXCEPT !.pc = IF verb = "MarkPending" THEN "mark" ELSE "resolve",
                             !.verb = verb, !.mac = mac]]
    /\ spent' = [spent EXCEPT !.calls = @ + 1]
    /\ UNCHANGED <<mem, file, locks, held, mu, saveMu, next, acked, now>>

\* Mutant: every caller gets a mutex of its own.
MacLockFresh(p) ==
    /\ At(p, "resolve")
    /\ proc' = [proc EXCEPT ![p] = [@ EXCEPT !.pc = "acquire", !.lock = next.lock]]
    /\ next' = [next EXCEPT !.lock = @ + 1]
    /\ UNCHANGED <<mem, file, locks, held, mu, saveMu, acked, now, spent>>

\* macLock: resolve the pointer, making the entry if there is none.
MacLock(p) ==
    /\ At(p, "resolve")
    /\ LET m == proc[p].mac
           lk == IF locks[m] = 0 THEN next.lock ELSE locks[m]
       IN  /\ locks' = [locks EXCEPT ![m] = lk]
           /\ next' = [next EXCEPT !.lock = IF lk = @ THEN @ + 1 ELSE @]
           /\ proc' = [proc EXCEPT ![p] = [@ EXCEPT !.pc = "acquire", !.lock = lk]]
    /\ UNCHANGED <<mem, file, held, mu, saveMu, acked, now, spent>>

Acquire(p) ==
    /\ At(p, "acquire")
    /\ proc[p].lock \notin held
    /\ held' = held \cup {proc[p].lock}
    /\ Goto(p, IF proc[p].verb = "Delete" THEN "remove" ELSE "get")
    /\ UNCHANGED <<mem, file, locks, mu, saveMu, next, acked, now, spent>>

Unlock(p) == held' = held \ {proc[p].lock}

\* The read of the cycle; UpdateExisting stops at an unknown MAC.
Get(p) ==
    /\ At(p, "get")
    /\ mu = NoProc
    /\ LET d == mem.devices[proc[p].mac]
       IN  IF d = 0 /\ proc[p].verb = "UpdateExisting"
           THEN Unlock(p) /\ Returns(p)
           ELSE /\ proc' = [proc EXCEPT ![p] = [@ EXCEPT !.pc = "fn", !.read = d]]
                /\ UNCHANGED held
    /\ UNCHANGED <<mem, file, locks, mu, saveMu, next, acked, now, spent>>

\* The closure returned an error: nothing is stored.
Abort(p) ==
    /\ At(p, "fn")
    /\ Unlock(p)
    /\ Returns(p)
    /\ UNCHANGED <<mem, file, locks, mu, saveMu, next, acked, now, spent>>

Put(p) ==
    /\ At(p, "fn")
    /\ mu = NoProc
    /\ Mutates(p, "save", [mem EXCEPT !.devices = [@ EXCEPT ![proc[p].mac] = next.stamp]])
    /\ Unlock(p)
    /\ UNCHANGED <<file, locks, mu, saveMu, acked, now, spent>>

\* Mutant: the early return of Delete keeps the mutex.
RemoveLeaks(p) ==
    /\ At(p, "remove")
    /\ mu = NoProc
    /\ IF mem.devices[proc[p].mac] = 0
       THEN Returns(p) /\ UNCHANGED <<mem, mu, next, held>>
       ELSE /\ Mutates(p, "prune", [mem EXCEPT !.devices = [@ EXCEPT ![proc[p].mac] = 0]])
            /\ mu' = p
            /\ UNCHANGED held
    /\ UNCHANGED <<file, locks, saveMu, acked, now, spent>>

\* Delete under both locks; an unknown MAC returns ErrNotFound.
Remove(p) ==
    /\ At(p, "remove")
    /\ mu = NoProc
    /\ IF mem.devices[proc[p].mac] = 0
       THEN Returns(p) /\ Unlock(p) /\ UNCHANGED <<mem, mu, next>>
       ELSE /\ Mutates(p, "prune", [mem EXCEPT !.devices = [@ EXCEPT ![proc[p].mac] = 0]])
            /\ mu' = p
            /\ UNCHANGED held
    /\ UNCHANGED <<file, locks, saveMu, acked, now, spent>>

\* The tail of Delete: the map entry goes, then both locks are released.
Prune(p) ==
    /\ At(p, "prune")
    /\ locks' = [locks EXCEPT ![proc[p].mac] = 0]
    /\ mu' = NoProc
    /\ Unlock(p)
    /\ Goto(p, "save")
    /\ UNCHANGED <<mem, file, saveMu, next, acked, now, spent>>

-----------------------------------------------------------------------------
(* Sightings                                                                *)

\* evictExpiredLocked.
Evicted(pending) ==
    [m \in Macs |-> IF pending[m] # NoSighting /\ pending[m].seenAt < now - Ttl
                    THEN NoSighting ELSE pending[m]]

\* markPending: the first-seen time stays, a repeated note changes nothing, a
\* new MAC needs room. Evictions alone are not saved.
MarkPending(p, note) ==
    LET m == proc[p].mac
        fresh == Evicted(mem.pending)
        known == fresh[m] # NoSighting
        full == Cardinality({n \in Macs : fresh[n] # NoSighting}) >= MaxPending
        seen == IF known THEN fresh[m].seenAt ELSE now
        entry == [note |-> note, seenAt |-> seen]
    IN  /\ At(p, "mark")
        /\ mu = NoProc
        /\ IF fresh[m] = entry \/ (~known /\ full)
           THEN /\ mem' = [mem EXCEPT !.pending = fresh]
                /\ Returns(p)
                /\ UNCHANGED next
           ELSE Mutates(p, "save", [mem EXCEPT !.pending = [fresh EXCEPT ![m] = entry]])
        /\ UNCHANGED <<file, locks, held, mu, saveMu, acked, now, spent>>

\* Pending(): a reader evicts too.
ReadPending ==
    /\ mu = NoProc
    /\ mem' = [mem EXCEPT !.pending = Evicted(@)]
    /\ UNCHANGED <<file, locks, held, mu, saveMu, proc, next, acked, now, spent>>

Tick ==
    /\ now < MaxClock
    /\ now' = now + 1
    /\ UNCHANGED <<mem, file, locks, held, mu, saveMu, proc, next, acked, spent>>

-----------------------------------------------------------------------------
(* jsonStore.save                                                           *)

\* Mutant: savers do not exclude each other.
SaveUnlocked(p) ==
    /\ At(p, "save")
    /\ saveMu' = p
    /\ Goto(p, "snapshot")
    /\ UNCHANGED <<mem, file, locks, held, mu, next, acked, now, spent>>

\* Mutant: a save that is already under way is taken to cover this one.
SaveCoalesced(p) ==
    /\ At(p, "save")
    /\ IF saveMu = NoProc
       THEN saveMu' = p /\ Goto(p, "snapshot") /\ UNCHANGED acked
       ELSE /\ acked' = IF proc[p].mine > acked THEN proc[p].mine ELSE acked
            /\ Returns(p)
            /\ UNCHANGED saveMu
    /\ UNCHANGED <<mem, file, locks, held, mu, next, now, spent>>

SaveLock(p) ==
    /\ At(p, "save")
    /\ saveMu = NoProc
    /\ saveMu' = p
    /\ Goto(p, "snapshot")
    /\ UNCHANGED <<mem, file, locks, held, mu, next, acked, now, spent>>

\* Marshalled under db.mu.RLock.
Snapshot(p) ==
    /\ At(p, "snapshot")
    /\ mu = NoProc
    /\ proc' = [proc EXCEPT ![p] = [@ EXCEPT !.pc = "write", !.snap = mem]]
    /\ UNCHANGED <<mem, file, locks, held, mu, saveMu, next, acked, now, spent>>

\* Temporary file, fsync, rename: the file changes in the last of them. The
\* verb returns nil.
Rename(p) ==
    /\ At(p, "write")
    /\ file' = proc[p].snap
    /\ acked' = IF proc[p].mine > acked THEN proc[p].mine ELSE acked
    /\ saveMu' = NoProc
    /\ Returns(p)
    /\ UNCHANGED <<mem, locks, held, mu, next, now, spent>>

\* Any of the file operations fails: the verb returns the error, the memory
\* keeps the mutation.
SaveFails(p) ==
    /\ At(p, "write")
    /\ spent.faults < MaxFaults
    /\ spent' = [spent EXCEPT !.faults = @ + 1]
    /\ saveMu' = NoProc
    /\ Returns(p)
    /\ UNCHANGED <<mem, file, locks, held, mu, next, acked, now>>

\* Mutant: a reloaded sighting counts as one whose TTL has just passed.
ReloadedStale(image) ==
    [image EXCEPT !.pending =
        [m \in Macs |-> IF @[m] = NoSighting THEN NoSighting
                        ELSE [note |-> @[m].note, seenAt |-> now - Ttl]]]

\* NewJSONStore: sightings carry no time in the file and start anew.
Reloaded(image) ==
    [image EXCEPT !.pending =
        [m \in Macs |-> IF @[m] = NoSighting THEN NoSighting
                        ELSE [note |-> @[m].note, seenAt |-> now]]]

\* The process dies between any two steps and comes back.
Restart ==
    /\ spent.faults < MaxFaults
    /\ spent' = [spent EXCEPT !.faults = @ + 1]
    /\ mem' = Reloaded(file)
    /\ locks' = [m \in Macs |-> 0]
    /\ held' = {}
    /\ mu' = NoProc
    /\ saveMu' = NoProc
    /\ proc' = [p \in Procs |-> IdleProc]
    /\ UNCHANGED <<file, next, acked, now>>

-----------------------------------------------------------------------------
Step(p) ==
    \/ MacLock(p) \/ Acquire(p) \/ Get(p) \/ Put(p) \/ Abort(p)
    \/ Remove(p) \/ Prune(p)
    \/ \E note \in Notes : MarkPending(p, note)
    \/ SaveLock(p) \/ Snapshot(p) \/ Rename(p)

Next ==
    \/ \E p \in Procs, verb \in Verbs, mac \in Macs : Call(p, verb, mac)
    \/ \E p \in Procs : Step(p) \/ SaveFails(p)
    \/ ReadPending \/ Tick \/ Restart

Spec == Init /\ [][Next]_vars

\* The runtime schedules every goroutine, and a sync.Mutex is handed to every
\* waiter in the end (starvation mode).
Fairness == \A p \in Procs : SF_vars(Step(p))

FairSpec == Spec /\ Fairness

-----------------------------------------------------------------------------
\* The type invariant of the store.
TypeOK ==
    /\ mem \in Images
    /\ file \in Images
    /\ locks \in [Macs -> Nat]
    /\ held \in SUBSET Nat
    /\ mu \in Procs \cup {NoProc}
    /\ saveMu \in Procs \cup {NoProc}
    /\ proc \in [Procs -> ProcStates]
    /\ next \in [stamp : Nat \ {0}, lock : Nat \ {0}]
    /\ acked \in Nat
    /\ now \in Nat
    /\ spent \in [calls : Nat, faults : Nat]

\* CyclesSerial: what a cycle read is still stored when it writes, so no update
\* is lost and UpdateExisting writes over the record it found, for every device
\* that nobody deletes, whatever is deleted around it (DeviceStore: "concurrent
\* inform handling and admin mutations never interleave for the same device").
CyclesSerial ==
    \A p \in Procs :
        At(p, "fn") /\ proc[p].mac \notin Deletable =>
            mem.devices[proc[p].mac] = proc[p].read

\* AckedDurable: a verb that returned nil is in the file, whatever savers ran
\* concurrently, failed or died, so a restart finds it (save, jsonStore.Update).
AckedDurable == acked <= file.stamp

\* FileForward: no rename brings back an older state (save: "two concurrent
\* savers cannot invert").
FileForward == [][file.stamp <= file'.stamp]_vars

\* OpsComplete: every call returns; the order macLock, db.mu, upMu of Delete and
\* saveMu, db.mu of save never leaves everyone waiting.
OpsComplete == \A p \in Procs : ~At(p, "idle") ~> At(p, "idle")

\* EvictionsPersist: a candidate that was evicted is listed again only when it is
\* sighted again (NewJSONStore: "this keeps restarts from re-exposing long-dead
\* beacons for another full TTL"; store_test.go: "A TTL eviction is a real
\* mutation: the jsonStore must persist it"). It does not hold: a reader's
\* eviction is not saved, and the reload gives the candidate a new TTL.
EvictionsPersist ==
    [][\A m \in Macs : mem.pending[m] = NoSighting /\ mem'.pending[m] # NoSighting
          => \E p \in Procs : At(p, "mark") /\ proc[p].mac = m]_vars
=============================================================================
