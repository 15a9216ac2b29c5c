--------------------------- MODULE AdoptionRefines ---------------------------
(***************************************************************************)
(* Adoption implements Lifecycle: the keys, cycles, answers, saves and     *)
(* restarts of one device seen as the life of its record.                  *)
(***************************************************************************)
EXTENDS Adoption

\* A record, without what is delivered through it.
Life(d) ==
    IF d = NoRecord THEN NoRecord
    ELSE [inc |-> d.epoch, state |-> d.state, key |-> d.xAuthkey, confirmed |-> d.keyConfirmed]

LC == INSTANCE Lifecycle WITH
          None <- NoRecord, live <- Life(rec), saved <- Life(disk.rec)

\* The absence of a record is not a life.
ASSUME LifeAssumption == NoRecord \notin LC!Lives

\* ImplementsLifecycle: with stale informs, a plaintext lane, deletion under a
\* running cycle, failed saves and restarts, every change of the record in memory
\* and of the one on disk is a step of Lifecycle: a proved key is never replaced,
\* only an adopted record is given up, and only demotion and deletion end an
\* incarnation (decideEncrypted, armedLifecycle, rotateKeys, sweepLost, saveIntent).
ImplementsLifecycle == LC!Spec
=============================================================================
