-------------------------- MODULE JobPipelineProofs --------------------------
(***************************************************************************)
(* The safety properties of JobPipeline, for every set of databases and    *)
(* every choice of options.                                                *)
(***************************************************************************)
EXTENDS JobPipeline, TLAPS

\* What the single mode lists does not depend on the source.
ListedIsSet ==
    stage \notin {"list", "failed"} /\ ~AllDatabases => listed = {SourceDatabase}

\* Until the dump container has ended the target is as it was.
TargetWaits ==
    stage \in {"list", "dump"} =>
        \A db \in Database: target[db] \in {"absent", "foreign"}

\* The loops lose nothing: what is wanted is done or still to do.
DumpLoop ==
    /\ stage = "list" => dumps = {}
    /\ stage = "dump" =>
        /\ todo \subseteq listed /\ dumps \subseteq listed
        /\ \A db \in dumps: Wanted(db)
        /\ \A db \in listed: Wanted(db) => db \in todo \cup dumps

RestoreLoop ==
    stage \in {"restore", "succeeded"} =>
        /\ dumps # {}
        /\ dumps = {db \in listed : Wanted(db)}
        /\ todo \subseteq dumps
        /\ Format # "plain" =>
            \A db \in dumps \ todo: target[Restored(db)] = "complete"
        /\ stage = "succeeded" => todo = {}

Inv ==
    /\ TypeOK /\ ListedIsSet /\ TargetWaits /\ DumpLoop /\ RestoreLoop
    /\ TargetIsSafe

\* Before the dump container starts nothing is listed, dumped or restored.
THEOREM InitInv == Init => Inv
  BY DEF Init, Inv, TypeOK, ListedIsSet, TargetWaits, DumpLoop, RestoreLoop,
     TargetIsSafe, Stage, Content, AllDatabases, Format

\* Each line of the two scripts, a kill of the pod and a change of the source
\* keep the invariant (client.go:338-544).
LEMMA InvStep == Inv /\ [Next]_vars => Inv'
<1> SUFFICES ASSUME Inv, [Next]_vars PROVE Inv'
  OBVIOUS
<1> USE OptionsAssumption
    DEF Inv, TypeOK, ListedIsSet, TargetWaits, DumpLoop, RestoreLoop,
        TargetIsSafe, Stage, Content, Wanted, Restored, AllDatabases, Format
<1>1. CASE Lists
  BY <1>1 DEF Lists
<1>2. CASE DumpEnds
  BY <1>2 DEF DumpEnds
<1>3. CASE RestoreEnds
  BY <1>3 DEF RestoreEnds
<1>4. ASSUME NEW db \in Database, DumpSkips(db) PROVE Inv'
  BY <1>4 DEF DumpSkips
<1>5. ASSUME NEW db \in Database, Dumps(db) PROVE Inv'
  BY <1>5 DEF Dumps
<1>6. ASSUME NEW db \in Database, DumpBreaks(db) PROVE Inv'
  BY <1>6 DEF DumpBreaks, Fails
<1>7. ASSUME NEW db \in Database, CreatesDatabase(db) PROVE Inv'
  BY <1>7 DEF CreatesDatabase
<1>8. ASSUME NEW db \in Database, Restores(db) PROVE Inv'
  BY <1>8 DEF Restores
<1>9. ASSUME NEW db \in Database, RestoresWithErrors(db) PROVE Inv'
  BY <1>9 DEF RestoresWithErrors
<1>10. ASSUME NEW db \in Database, RestoreBreaks(db) PROVE Inv'
  BY <1>10 DEF RestoreBreaks
<1>11. CASE Killed
  BY <1>11 DEF Killed, Fails
<1>12. CASE SourceChanges
  BY <1>12 DEF SourceChanges
<1>13. CASE UNCHANGED vars
  BY <1>13 DEF vars
<1> QED
  BY <1>1, <1>2, <1>3, <1>4, <1>5, <1>6, <1>7, <1>8, <1>9, <1>10, <1>11, <1>12, <1>13
  DEF Next, ScriptStep

\* So it holds in every run of the Job, for any options and any servers.
THEOREM Invariance == Spec => []Inv
  BY InitInv, InvStep, PTL DEF Spec

\* Nothing is written to the target before the whole dump is there, and an
\* excluded database never is (client.go:435-438, 447-450, 633-635).
THEOREM Safety == Spec => []TargetIsSafe
<1>1. Inv => TargetIsSafe
  BY DEF Inv
<1> QED
  BY Invariance, <1>1, PTL

\* With a format pg_restore reads, a Job that succeeds has restored all that
\* was listed and not excluded (client.go:434-450, 649-681).
THEOREM Completeness == Spec => []ArchiveIsComplete
<1>1. Inv => ArchiveIsComplete
  <2> SUFFICES ASSUME Inv, stage = "succeeded", Format # "plain"
               PROVE  EverythingRestored
    BY DEF ArchiveIsComplete
  <2>1. CASE AllDatabases
    BY <2>1 DEF Inv, RestoreLoop, EverythingRestored, Wanted, Restored
  <2>2. CASE ~AllDatabases
    BY <2>2 DEF Inv, RestoreLoop, EverythingRestored, Wanted, Restored
  <2> QED
    BY <2>1, <2>2
<1> QED
  BY Invariance, <1>1, PTL
=============================================================================
