------------------------------- MODULE Process -------------------------------
(***************************************************************************)
(* The controller process: run() takes the data directory's lock, opens    *)
(* the store, binds its listeners, starts its goroutines and, on a signal  *)
(* or when a server fails, takes them down again. Several processes share  *)
(* one data directory, as when a supervisor restarts the controller.       *)
(*                                                                         *)
(* A worker is what may be inside a store cycle: a handler of the admin or *)
(* of the inform server, the discovery loop, the poller. The content of    *)
(* devices.json is the number of the save that wrote it.                   *)
(***************************************************************************)
EXTENDS Naturals, FiniteSets

CONSTANTS
    Procs,
    Workers,        \* a subset of {"admin", "inform", "discovery", "poller"}
    Exits,          \* a subset of {"signal", "error"}: what ends a process
    NoProc,         \* nobody has the lock
    MaxStarts,      \* bound: starts of a process
    MaxSaves        \* bound: saves of the store

ASSUME ProcessAssumption ==
    /\ NoProc \notin Procs
    /\ Workers \subseteq {"admin", "inform", "discovery", "poller"}
    /\ Exits \subseteq {"signal", "error"}
    /\ MaxStarts \in Nat /\ MaxSaves \in Nat

VARIABLES
    pc,         \* where run() is
    cause,      \* what ended the process
    lock,       \* holder of .openunifi.lock
    ctx,        \* the signal context is still live
    accepting,  \* workers that may start a store cycle
    busy,       \* workers inside one
    late,       \* workers that run() did not wait for on its way out
    file,       \* content of devices.json
    image,      \* content of the store in memory
    starts

vars == <<pc, cause, lock, ctx, accepting, busy, late, file, image, starts>>

Goto(p, label) == pc' = [pc EXCEPT ![p] = label]

-----------------------------------------------------------------------------
(* Startup                                                                  *)

\* acquireDataDirLock; a process that does not get it ends, having done nothing.
AcquireLock(p) ==
    /\ pc[p] = "off" /\ starts < MaxStarts
    /\ lock = NoProc
    /\ lock' = p
    /\ starts' = starts + 1
    /\ cause' = [cause EXCEPT ![p] = "none"]
    /\ late' = [late EXCEPT ![p] = {}]
    /\ Goto(p, "locked")
    /\ UNCHANGED <<ctx, accepting, busy, file, image>>

\* Mutant: a file that does not read is taken for an empty store.
OpenStoreEmpty(p) ==
    /\ pc[p] = "locked"
    /\ image' = [image EXCEPT ![p] = 0]
    /\ ctx' = [ctx EXCEPT ![p] = TRUE]
    /\ Goto(p, "open")
    /\ UNCHANGED <<cause, lock, accepting, busy, late, file, starts>>

\* NewJSONStore, the wiring, and NotifyContext: from here on a signal ends the
\* context; before, it ends the process (Kill).
OpenStore(p) ==
    /\ pc[p] = "locked"
    /\ image' = [image EXCEPT ![p] = file]
    /\ ctx' = [ctx EXCEPT ![p] = TRUE]
    /\ Goto(p, "open")
    /\ UNCHANGED <<cause, lock, accepting, busy, late, file, starts>>

\* Mutant: the return has no deferred release.
BindFailedLeaks(p) ==
    /\ pc[p] = "open"
    /\ Goto(p, "flush")
    /\ UNCHANGED <<cause, lock, ctx, accepting, busy, late, file, image, starts>>

\* Some other program has a port: a return, as from a store that does not open.
BindFailed(p) ==
    /\ pc[p] = "open"
    /\ Goto(p, "deferred")
    /\ UNCHANGED <<cause, lock, ctx, accepting, busy, late, file, image, starts>>

\* All sockets are bound, the goroutines start.
Serve(p) ==
    /\ pc[p] = "open"
    /\ accepting' = [accepting EXCEPT ![p] = Workers]
    /\ Goto(p, "serving")
    /\ UNCHANGED <<cause, lock, ctx, busy, late, file, image, starts>>

-----------------------------------------------------------------------------
(* Store cycles                                                             *)

\* A request, a packet or a tick. RunPoller's select takes a tick that is ready
\* even when the context is done.
Begin(p, w) ==
    /\ w \in accepting[p] \ busy[p]
    /\ busy' = [busy EXCEPT ![p] = @ \cup {w}]
    /\ UNCHANGED <<pc, cause, lock, ctx, accepting, late, file, image, starts>>

\* The cycle saves: the file becomes what this process has in memory.
Save(p, w) ==
    /\ w \in busy[p] /\ file < MaxSaves
    /\ file' = file + 1
    /\ image' = [image EXCEPT ![p] = file + 1]
    /\ busy' = [busy EXCEPT ![p] = @ \ {w}]
    /\ UNCHANGED <<pc, cause, lock, ctx, accepting, late, starts>>

\* The cycle ends without a save.
Finish(p, w) ==
    /\ w \in busy[p]
    /\ busy' = [busy EXCEPT ![p] = @ \ {w}]
    /\ UNCHANGED <<pc, cause, lock, ctx, accepting, late, file, image, starts>>

\* RunPoller returns, and pollDone is closed.
PollerReturns(p) ==
    /\ "poller" \in accepting[p] \ busy[p]
    /\ ~ctx[p]
    /\ accepting' = [accepting EXCEPT ![p] = @ \ {"poller"}]
    /\ UNCHANGED <<pc, cause, lock, ctx, busy, late, file, image, starts>>

-----------------------------------------------------------------------------
(* Shutdown: admin, inform, discovery, then on a signal the poller          *)

\* The first Shutdown closes the admin listener and waits for its handlers.
Stop(p, why) ==
    /\ pc[p] = "serving"
    /\ cause' = [cause EXCEPT ![p] = why]
    /\ accepting' = [accepting EXCEPT ![p] = @ \ {"admin"}]
    /\ Goto(p, "drainAdmin")
    /\ UNCHANGED <<lock, ctx, busy, late, file, image, starts>>

\* SIGINT or SIGTERM, at any time, ends the context.
Signal(p) ==
    /\ "signal" \in Exits
    /\ ctx[p]
    /\ ctx' = [ctx EXCEPT ![p] = FALSE]
    /\ UNCHANGED <<pc, cause, lock, accepting, busy, late, file, image, starts>>

\* The two cases of run()'s select: the context is done, or a server returned
\* an error through errCh.
StopOnSignal(p) == ~ctx[p] /\ Stop(p, "signal")
StopOnError(p) == "error" \in Exits /\ Stop(p, "error")

\* The first Shutdown returns when its handlers have, or after 5 s without them;
\* the second one closes the inform listener.
DrainAdmin(p) ==
    /\ pc[p] = "drainAdmin"
    /\ late' = [late EXCEPT ![p] = @ \cup (busy[p] \cap {"admin"})]
    /\ accepting' = [accepting EXCEPT ![p] = @ \ {"inform"}]
    /\ Goto(p, "drainInform")
    /\ UNCHANGED <<cause, lock, ctx, busy, file, image, starts>>

\* Mutants: nobody waits for the poller; the error path waits as well.
AfterDrainAtOnce(p) == "deferred"
AfterDrainAlways(p) == "awaitPoll"

\* Only the signal path waits for pollDone.
AfterDrain(p) == IF cause[p] = "signal" THEN "awaitPoll" ELSE "deferred"

\* The same for the informs. closeUDP: the discovery loop ends at its next read,
\* which nobody waits for.
DrainInform(p) ==
    /\ pc[p] = "drainInform"
    /\ late' = [late EXCEPT ![p] = @ \cup (busy[p] \cap {"inform", "discovery"})
                                     \cup (IF cause[p] = "error" THEN {"poller"} ELSE {})]
    /\ accepting' = [accepting EXCEPT ![p] = @ \ {"discovery"}]
    /\ Goto(p, AfterDrain(p))
    /\ UNCHANGED <<cause, lock, ctx, busy, file, image, starts>>

AwaitPoll(p) ==
    /\ pc[p] = "awaitPoll"
    /\ "poller" \notin accepting[p]
    /\ Goto(p, "deferred")
    /\ UNCHANGED <<cause, lock, ctx, accepting, busy, late, file, image, starts>>

\* The deferred calls, last first: stop ends the context, the lock is released.
Deferred(p) ==
    /\ pc[p] = "deferred"
    /\ ctx' = [ctx EXCEPT ![p] = FALSE]
    /\ lock' = NoProc
    /\ Goto(p, "flush")
    /\ UNCHANGED <<cause, accepting, busy, late, file, image, starts>>

\* The first deferred call comes last: traces are flushed, for up to 5 s. Then
\* main returns and takes every goroutine with it.
Exit(p) ==
    /\ pc[p] = "flush"
    /\ accepting' = [accepting EXCEPT ![p] = {}]
    /\ busy' = [busy EXCEPT ![p] = {}]
    /\ Goto(p, "off")
    /\ UNCHANGED <<cause, lock, ctx, late, file, image, starts>>

\* The process is killed: the kernel drops its flock with its file descriptors.
Kill(p) ==
    /\ pc[p] # "off"
    /\ ctx' = [ctx EXCEPT ![p] = FALSE]
    /\ lock' = IF lock = p THEN NoProc ELSE lock
    /\ accepting' = [accepting EXCEPT ![p] = {}]
    /\ busy' = [busy EXCEPT ![p] = {}]
    /\ Goto(p, "off")
    /\ UNCHANGED <<cause, late, file, image, starts>>

-----------------------------------------------------------------------------

Init ==
    /\ pc = [p \in Procs |-> "off"]
    /\ cause = [p \in Procs |-> "none"]
    /\ lock = NoProc
    /\ ctx = [p \in Procs |-> FALSE]
    /\ accepting = [p \in Procs |-> {}]
    /\ busy = [p \in Procs |-> {}]
    /\ late = [p \in Procs |-> {}]
    /\ file = 0
    /\ image = [p \in Procs |-> 0]
    /\ starts = 0

\* What run() does by itself once it is on its way out.
Leave(p) ==
    \/ StopOnSignal(p) \/ DrainAdmin(p) \/ DrainInform(p)
    \/ AwaitPoll(p) \/ Deferred(p) \/ Exit(p)

Next ==
    \E p \in Procs :
       \/ AcquireLock(p) \/ OpenStore(p) \/ BindFailed(p) \/ Serve(p)
       \/ Signal(p) \/ StopOnError(p) \/ Leave(p) \/ PollerReturns(p) \/ Kill(p)
       \/ \E w \in Workers : Begin(p, w) \/ Save(p, w) \/ Finish(p, w)

Spec == Init /\ [][Next]_vars

\* run() goes on, a poll ends, and a select with two ready cases takes each of
\* them sooner or later. Nothing is assumed of the handlers.
FairSpec ==
    /\ Spec
    /\ \A p \in Procs :
          /\ WF_vars(Leave(p))
          /\ WF_vars(Finish(p, "poller"))
          /\ SF_vars(PollerReturns(p))

-----------------------------------------------------------------------------
(* Properties                                                               *)

\* The types, and: a process between its start and its last deferred calls has
\* the lock, whichever return it takes.
TypeOK ==
    /\ lock \in Procs \cup {NoProc}
    /\ accepting \in [Procs -> SUBSET Workers]
    /\ busy \in [Procs -> SUBSET Workers]
    /\ late \in [Procs -> SUBSET {"admin", "inform", "discovery", "poller"}]
    /\ file \in 0 .. MaxSaves /\ starts \in 0 .. MaxStarts
    /\ \A p \in Procs : lock = p <=> pc[p] \notin {"off", "flush"}

\* WritersLocked: a worker inside a store cycle belongs to the process that has
\* the lock, unless it is one run() gave up on: a handler past its 5 s, the
\* discovery loop, or the poller after a server error (README: "an exclusive
\* advisory lock to prevent concurrent JSON writes").
WritersLocked == \A p \in Procs : lock # p => busy[p] \subseteq late[p]

\* NoLostSave: when nobody was given up on, the file is what the lock's holder has
\* in memory: however processes follow each other, signals, kills and failed
\* binds included, the holder's next save overwrites nobody's.
NoLostSave ==
    (\A q \in Procs : late[q] = {})
    => \A p \in Procs : lock = p /\ pc[p] # "locked" => file = image[p]

\* Stops: a process that got a signal or whose server failed ends, even with
\* handlers that never return: the wait for the poller too comes to an end.
Stops ==
    \A p \in Procs :
       (pc[p] = "serving" /\ ~ctx[p]) \/ pc[p] = "drainAdmin" ~> pc[p] = "off"
=============================================================================
