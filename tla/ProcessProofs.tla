---------------------------- MODULE ProcessProofs ----------------------------
(***************************************************************************)
(* Theorems about Process, for any number of processes that share the data *)
(* directory, any of the workers and any number of starts and saves.       *)
(***************************************************************************)
EXTENDS Process, TLAPS

Labels == {"off", "locked", "open", "serving", "drainAdmin", "drainInform",
           "awaitPoll", "deferred", "flush"}

Typed ==
    /\ TypeOK
    /\ pc \in [Procs -> Labels]
    /\ cause \in [Procs -> {"none", "signal", "error"}]
    /\ ctx \in [Procs -> BOOLEAN]
    /\ image \in [Procs -> Nat]

\* What run() has taken down at each point of its way out. Nothing runs before
\* the goroutines start and after the process is gone; a listener that is closed
\* stays closed; a worker that is still busy when its turn is over is late; the
\* poller ends its tick before it returns; and past the waits whatever may still
\* begin a cycle is late as well.
Stage(p) ==
    /\ pc[p] \in {"off", "locked", "open"} => accepting[p] = {} /\ busy[p] = {}
    /\ pc[p] \in {"drainAdmin", "drainInform"} => cause[p] \in {"signal", "error"}
    /\ pc[p] \in {"drainAdmin", "drainInform", "awaitPoll"} => "admin" \notin accepting[p]
    /\ pc[p] \in {"drainInform", "awaitPoll"} =>
          /\ "inform" \notin accepting[p]
          /\ "admin" \in busy[p] => "admin" \in late[p]
    /\ pc[p] = "awaitPoll" =>
          /\ "discovery" \notin accepting[p]
          /\ busy[p] \subseteq late[p] \cup {"poller"}
    /\ pc[p] \in {"deferred", "flush"} => accepting[p] \cup busy[p] \subseteq late[p]
    /\ "poller" \in busy[p] => "poller" \in accepting[p]

Staged == \A p \in Procs : Stage(p)

-----------------------------------------------------------------------------
\* Every step keeps the types, and the lock goes with the process that is
\* between its start and its last deferred call.
LEMMA TypeStep == Typed /\ [Next]_vars => Typed'
<1> SUFFICES ASSUME Typed, [Next]_vars PROVE Typed'
  OBVIOUS
<1>1. ASSUME NEW p \in Procs, AcquireLock(p) PROVE Typed'
  BY <1>1, ProcessAssumption DEF AcquireLock, Goto, Typed, TypeOK, Labels
<1>2. ASSUME NEW p \in Procs, OpenStore(p) PROVE Typed'
  BY <1>2, ProcessAssumption DEF OpenStore, Goto, Typed, TypeOK, Labels
<1>3. ASSUME NEW p \in Procs, BindFailed(p) PROVE Typed'
  BY <1>3, ProcessAssumption DEF BindFailed, Goto, Typed, TypeOK, Labels
<1>4. ASSUME NEW p \in Procs, Serve(p) PROVE Typed'
  BY <1>4, ProcessAssumption DEF Serve, Goto, Typed, TypeOK, Labels
<1>5. ASSUME NEW p \in Procs, Signal(p) PROVE Typed'
  BY <1>5, ProcessAssumption DEF Signal, Goto, Typed, TypeOK, Labels
<1>6. ASSUME NEW p \in Procs, StopOnError(p) PROVE Typed'
  BY <1>6, ProcessAssumption DEF StopOnError, Stop, Goto, Typed, TypeOK, Labels
<1>7. ASSUME NEW p \in Procs, StopOnSignal(p) PROVE Typed'
  BY <1>7, ProcessAssumption DEF StopOnSignal, Stop, Goto, Typed, TypeOK, Labels
<1>8. ASSUME NEW p \in Procs, DrainAdmin(p) PROVE Typed'
  BY <1>8, ProcessAssumption DEF DrainAdmin, Goto, Typed, TypeOK, Labels
<1>9. ASSUME NEW p \in Procs, DrainInform(p) PROVE Typed'
  BY <1>9, ProcessAssumption DEF DrainInform, AfterDrain, Goto, Typed, TypeOK, Labels
<1>10. ASSUME NEW p \in Procs, AwaitPoll(p) PROVE Typed'
  BY <1>10, ProcessAssumption DEF AwaitPoll, Goto, Typed, TypeOK, Labels
<1>11. ASSUME NEW p \in Procs, Deferred(p) PROVE Typed'
  BY <1>11, ProcessAssumption DEF Deferred, Goto, Typed, TypeOK, Labels
<1>12. ASSUME NEW p \in Procs, Exit(p) PROVE Typed'
  BY <1>12, ProcessAssumption DEF Exit, Goto, Typed, TypeOK, Labels
<1>13. ASSUME NEW p \in Procs, PollerReturns(p) PROVE Typed'
  BY <1>13, ProcessAssumption DEF PollerReturns, Goto, Typed, TypeOK, Labels
<1>14. ASSUME NEW p \in Procs, Kill(p) PROVE Typed'
  BY <1>14, ProcessAssumption DEF Kill, Goto, Typed, TypeOK, Labels
<1>15. ASSUME NEW p \in Procs, NEW w \in Workers, Begin(p, w) PROVE Typed'
  BY <1>15, ProcessAssumption DEF Begin, Typed, TypeOK, Labels
<1>16. ASSUME NEW p \in Procs, NEW w \in Workers, Save(p, w) PROVE Typed'
  BY <1>16, ProcessAssumption DEF Save, Typed, TypeOK, Labels
<1>17. ASSUME NEW p \in Procs, NEW w \in Workers, Finish(p, w) PROVE Typed'
  BY <1>17, ProcessAssumption DEF Finish, Typed, TypeOK, Labels
<1>18. CASE UNCHANGED vars
  BY <1>18 DEF vars, Typed, TypeOK, Labels
<1> QED
  BY <1>1, <1>2, <1>3, <1>4, <1>5, <1>6, <1>7, <1>8, <1>9, <1>10, <1>11, <1>12, <1>13, <1>14, <1>15, <1>16, <1>17, <1>18 DEF Next, Leave

\* Every step keeps run()'s order of taking things down.
LEMMA StageStep == Typed /\ Staged /\ [Next]_vars => Staged'
<1> SUFFICES ASSUME Typed, Staged, [Next]_vars PROVE Staged'
  OBVIOUS
<1>1. ASSUME NEW p \in Procs, AcquireLock(p) PROVE Staged'
  BY <1>1, ProcessAssumption DEF AcquireLock, Goto, Typed, TypeOK, Labels, Staged, Stage
<1>2. ASSUME NEW p \in Procs, OpenStore(p) PROVE Staged'
  BY <1>2, ProcessAssumption DEF OpenStore, Goto, Typed, TypeOK, Labels, Staged, Stage
<1>3. ASSUME NEW p \in Procs, BindFailed(p) PROVE Staged'
  BY <1>3, ProcessAssumption DEF BindFailed, Goto, Typed, TypeOK, Labels, Staged, Stage
<1>4. ASSUME NEW p \in Procs, Serve(p) PROVE Staged'
  BY <1>4, ProcessAssumption DEF Serve, Goto, Typed, TypeOK, Labels, Staged, Stage
<1>5. ASSUME NEW p \in Procs, Signal(p) PROVE Staged'
  BY <1>5, ProcessAssumption DEF Signal, Goto, Typed, TypeOK, Labels, Staged, Stage
<1>6. ASSUME NEW p \in Procs, StopOnError(p) PROVE Staged'
  BY <1>6, ProcessAssumption DEF StopOnError, Stop, Goto, Typed, TypeOK, Labels, Staged, Stage
<1>7. ASSUME NEW p \in Procs, StopOnSignal(p) PROVE Staged'
  BY <1>7, ProcessAssumption DEF StopOnSignal, Stop, Goto, Typed, TypeOK, Labels, Staged, Stage
<1>8. ASSUME NEW p \in Procs, DrainAdmin(p) PROVE Staged'
  BY <1>8, ProcessAssumption DEF DrainAdmin, Goto, Typed, TypeOK, Labels, Staged, Stage
<1>9. ASSUME NEW p \in Procs, DrainInform(p) PROVE Staged'
  <2>1. ASSUME NEW q \in Procs, q # p PROVE Stage(q)'
    BY <1>9, <2>1 DEF DrainInform, Goto, Typed, TypeOK, Staged, Stage
  <2>2. /\ accepting'[p] = accepting[p] \ {"discovery"}
        /\ late'[p] = late[p] \cup (busy[p] \cap {"inform", "discovery"})
                              \cup (IF cause[p] = "error" THEN {"poller"} ELSE {})
        /\ busy'[p] = busy[p] /\ cause'[p] = cause[p] /\ pc'[p] = AfterDrain(p)
    BY <1>9 DEF DrainInform, Goto, Typed, TypeOK
  <2>3. /\ cause[p] \in {"signal", "error"}
        /\ "admin" \notin accepting[p] /\ "inform" \notin accepting[p]
        /\ "admin" \in busy[p] => "admin" \in late[p]
        /\ "poller" \in busy[p] => "poller" \in accepting[p]
        /\ accepting[p] \subseteq Workers /\ busy[p] \subseteq Workers
    BY <1>9 DEF DrainInform, Typed, TypeOK, Staged, Stage
  <2>4. busy'[p] \subseteq late'[p] \cup {"poller"} /\ accepting'[p] \subseteq {"poller"}
    BY <2>2, <2>3, ProcessAssumption
  <2>5. CASE cause[p] = "signal"
    <3>1. pc'[p] = "awaitPoll"
      BY <2>2, <2>5 DEF AfterDrain
    <3> QED
      BY <2>1, <2>2, <2>3, <2>4, <3>1 DEF Staged, Stage
  <2>6. CASE cause[p] = "error"
    <3>1. pc'[p] = "deferred" /\ "poller" \in late'[p]
      BY <2>2, <2>6 DEF AfterDrain
    <3> QED
      BY <2>1, <2>2, <2>3, <2>4, <3>1 DEF Staged, Stage
  <2> QED
    BY <2>3, <2>5, <2>6
<1>10. ASSUME NEW p \in Procs, AwaitPoll(p) PROVE Staged'
  <2>1. ASSUME NEW q \in Procs, q # p PROVE Stage(q)'
    BY <1>10, <2>1 DEF AwaitPoll, Goto, Typed, TypeOK, Staged, Stage
  <2>2. /\ accepting'[p] = accepting[p] /\ busy'[p] = busy[p] /\ late'[p] = late[p]
        /\ pc'[p] = "deferred"
    BY <1>10 DEF AwaitPoll, Goto, Typed, TypeOK
  <2>3. accepting[p] = {} /\ "poller" \notin busy[p]
    <3>1. /\ "admin" \notin accepting[p] /\ "inform" \notin accepting[p]
          /\ "discovery" \notin accepting[p] /\ "poller" \notin accepting[p]
      BY <1>10 DEF AwaitPoll, Staged, Stage
    <3>2. accepting[p] \subseteq {"admin", "inform", "discovery", "poller"}
      BY ProcessAssumption DEF Typed, TypeOK
    <3>3. "poller" \in busy[p] => "poller" \in accepting[p]
      BY DEF Staged, Stage
    <3> QED
      BY <3>1, <3>2, <3>3
  <2>4. busy[p] \subseteq late[p]
    BY <1>10, <2>3 DEF AwaitPoll, Staged, Stage
  <2> QED
    BY <2>1, <2>2, <2>3, <2>4 DEF Staged, Stage
<1>11. ASSUME NEW p \in Procs, Deferred(p) PROVE Staged'
  BY <1>11, ProcessAssumption DEF Deferred, Goto, Typed, TypeOK, Labels, Staged, Stage
<1>12. ASSUME NEW p \in Procs, Exit(p) PROVE Staged'
  BY <1>12, ProcessAssumption DEF Exit, Goto, Typed, TypeOK, Labels, Staged, Stage
<1>13. ASSUME NEW p \in Procs, PollerReturns(p) PROVE Staged'
  BY <1>13, ProcessAssumption DEF PollerReturns, Goto, Typed, TypeOK, Labels, Staged, Stage
<1>14. ASSUME NEW p \in Procs, Kill(p) PROVE Staged'
  BY <1>14, ProcessAssumption DEF Kill, Goto, Typed, TypeOK, Labels, Staged, Stage
<1>15. ASSUME NEW p \in Procs, NEW w \in Workers, Begin(p, w) PROVE Staged'
  BY <1>15, ProcessAssumption DEF Begin, Typed, TypeOK, Labels, Staged, Stage
<1>16. ASSUME NEW p \in Procs, NEW w \in Workers, Save(p, w) PROVE Staged'
  BY <1>16, ProcessAssumption DEF Save, Typed, TypeOK, Labels, Staged, Stage
<1>17. ASSUME NEW p \in Procs, NEW w \in Workers, Finish(p, w) PROVE Staged'
  BY <1>17, ProcessAssumption DEF Finish, Typed, TypeOK, Labels, Staged, Stage
<1>18. CASE UNCHANGED vars
  BY <1>18 DEF vars, Typed, TypeOK, Labels, Staged, Stage
<1> QED
  BY <1>1, <1>2, <1>3, <1>4, <1>5, <1>6, <1>7, <1>8, <1>9, <1>10, <1>11, <1>12, <1>13, <1>14, <1>15, <1>16, <1>17, <1>18 DEF Next, Leave

\* A process that does not have the lock runs only workers it gave up on.
LEMMA StagedWriters == Typed /\ Staged => WritersLocked
<1> SUFFICES ASSUME Typed, Staged, NEW p \in Procs, lock # p
             PROVE  busy[p] \subseteq late[p]
  BY DEF WritersLocked
<1>1. pc[p] \in {"off", "flush"}
  BY DEF Typed, TypeOK
<1> QED
  BY <1>1 DEF Staged, Stage

\* Every step keeps the file at what the holder of the lock has in memory: who
\* saves has the lock or is late.
LEMMA SaveStep == Typed /\ WritersLocked /\ NoLostSave /\ [Next]_vars => NoLostSave'
<1> SUFFICES ASSUME Typed, WritersLocked, NoLostSave, [Next]_vars,
                    \A q \in Procs : late'[q] = {},
                    NEW h \in Procs, lock' = h, pc'[h] # "locked"
             PROVE  file' = image'[h]
  BY DEF NoLostSave
<1> USE DEF Typed, TypeOK
<1>1. ASSUME NEW p \in Procs, AcquireLock(p) PROVE file' = image'[h]
  BY <1>1 DEF AcquireLock, Goto
<1>2. ASSUME NEW p \in Procs, OpenStore(p) PROVE file' = image'[h]
  <2>1. lock = p /\ lock' = p
    BY <1>2 DEF OpenStore
  <2> QED
    BY <1>2, <2>1 DEF OpenStore, Goto
<1>3. ASSUME NEW p \in Procs, NEW w \in Workers, Save(p, w) PROVE file' = image'[h]
  <2>1. late[p] = {} /\ w \in busy[p]
    BY <1>3 DEF Save
  <2>2. lock = p
    BY <2>1 DEF WritersLocked
  <2> QED
    BY <1>3, <2>2 DEF Save
<1> DEFINE Bystander == /\ UNCHANGED <<file, image>>
                        /\ lock' \in {lock, NoProc}
                        /\ \A q \in Procs : late[q] \subseteq late'[q]
                        /\ pc[h] = "locked" => pc'[h] \in {"locked", "off"}
<1>4. ASSUME Bystander PROVE file' = image'[h]
  <2>1. lock = h
    BY <1>4, ProcessAssumption
  <2>2. pc[h] # "locked"
    <3>1. SUFFICES ASSUME pc'[h] = "off" PROVE FALSE
      BY <1>4
    <3>2. Typed'
      BY TypeStep
    <3> QED
      BY <3>1, <3>2
  <2>3. \A q \in Procs : late[q] = {}
    BY <1>4
  <2> QED
    BY <1>4, <2>1, <2>2, <2>3 DEF NoLostSave
<1> HIDE DEF Bystander
<1>5. ASSUME NEW p \in Procs, BindFailed(p) PROVE Bystander
  BY <1>5 DEF Bystander, BindFailed, Goto
<1>6. ASSUME NEW p \in Procs, Serve(p) PROVE Bystander
  BY <1>6 DEF Bystander, Serve, Goto
<1>7. ASSUME NEW p \in Procs, Signal(p) PROVE Bystander
  BY <1>7 DEF Bystander, Signal
<1>8. ASSUME NEW p \in Procs, StopOnError(p) PROVE Bystander
  BY <1>8 DEF Bystander, StopOnError, Stop, Goto
<1>9. ASSUME NEW p \in Procs, StopOnSignal(p) PROVE Bystander
  BY <1>9 DEF Bystander, StopOnSignal, Stop, Goto
<1>10. ASSUME NEW p \in Procs, DrainAdmin(p) PROVE Bystander
  BY <1>10 DEF Bystander, DrainAdmin, Goto
<1>11. ASSUME NEW p \in Procs, DrainInform(p) PROVE Bystander
  BY <1>11 DEF Bystander, DrainInform, Goto
<1>12. ASSUME NEW p \in Procs, AwaitPoll(p) PROVE Bystander
  BY <1>12 DEF Bystander, AwaitPoll, Goto
<1>13. ASSUME NEW p \in Procs, Deferred(p) PROVE Bystander
  BY <1>13 DEF Bystander, Deferred, Goto
<1>14. ASSUME NEW p \in Procs, Exit(p) PROVE Bystander
  BY <1>14 DEF Bystander, Exit, Goto
<1>15. ASSUME NEW p \in Procs, PollerReturns(p) PROVE Bystander
  BY <1>15 DEF Bystander, PollerReturns
<1>16. ASSUME NEW p \in Procs, Kill(p) PROVE Bystander
  BY <1>16 DEF Bystander, Kill, Goto
<1>17. ASSUME NEW p \in Procs, NEW w \in Workers, Begin(p, w) PROVE Bystander
  BY <1>17 DEF Bystander, Begin
<1>18. ASSUME NEW p \in Procs, NEW w \in Workers, Finish(p, w) PROVE Bystander
  BY <1>18 DEF Bystander, Finish
<1>19. CASE UNCHANGED vars
  BY <1>4, <1>19 DEF Bystander, vars
<1> QED
  BY <1>1, <1>2, <1>3, <1>4, <1>5, <1>6, <1>7, <1>8, <1>9, <1>10, <1>11, <1>12, <1>13, <1>14, <1>15, <1>16, <1>17, <1>18, <1>19 DEF Next, Leave

\* The order of shutdown, from which the theorems follow, holds in every state.
LEMMA InvariantHolds == Spec => [](Typed /\ Staged /\ NoLostSave)
<1>1. Init => Typed /\ Staged /\ NoLostSave
  BY ProcessAssumption
     DEF Init, Typed, TypeOK, Labels, Staged, Stage, NoLostSave
<1>2. Typed /\ Staged /\ NoLostSave /\ [Next]_vars => (Typed /\ Staged /\ NoLostSave)'
  BY TypeStep, StageStep, StagedWriters, SaveStep
<1> QED
  BY <1>1, <1>2, PTL DEF Spec

\* The process wiring keeps its types, and whichever way run() returns, the lock
\* is held from acquireDataDirLock to the deferred release and no longer.
THEOREM TypeCorrect == Spec => []TypeOK
<1>1. Typed => TypeOK
  BY DEF Typed
<1> QED
  BY <1>1, InvariantHolds, PTL

\* WritersLocked: any number of processes may share the data directory; one that
\* does not hold its lock runs no store cycle but those run() gave up on.
THEOREM WritersLockedHolds == Spec => []WritersLocked
BY InvariantHolds, StagedWriters, PTL

\* NoLostSave: however processes start, fail to bind, stop and are killed, as long
\* as run() gave up on nobody the lock's holder has the file's content in memory.
THEOREM NoLostSaveHolds == Spec => []NoLostSave
BY InvariantHolds, PTL
=============================================================================
