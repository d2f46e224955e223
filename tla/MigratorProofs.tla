---------------------------- MODULE MigratorProofs ----------------------------
(***************************************************************************)
(* The composition implements both of its components, for every set of     *)
(* migrations, requests and goroutine names; with what is proved of the    *)
(* components it has their properties, and one that needs both.            *)
(***************************************************************************)
EXTENDS Migrator, TLAPS

-----------------------------------------------------------------------------
(* The invariant that ties verify.go's state to service.go's.              *)

\* Once a verification has begun, Create and the poller write no more, and the
\* pod of the migration has succeeded.
BegunIsOver ==
    \A m \in Migration: Verifications!Begun(m) =>
        /\ createPc[m] = "done"
        /\ watchPc[m] \in {"check", "exited"}
        /\ status[m] \in {"completed", "cancelled"}
        /\ "succeeded" \in history[m]

\* Nobody works on an id that is not in the store.
OnlyStoredIsWorkedOn ==
    \A m \in Migration: status[m] = "absent" =>
        /\ createPc[m] \in {"idle", "done"}
        /\ watchPc[m] = "none"
        /\ \A c \in CancelRequest: cancelPc[m][c] = "idle"
        /\ \A k \in CleanupRequest: cleanupPc[m][k] = "idle"

\* The cluster has nothing of an id that was never created.
NewIsUnknown ==
    \A m \in Migration: createPc[m] = "idle" =>
        status[m] = "absent" /\ Verifications!Unknown(m) /\ vpods[m] = "none"

\* A verification Job may outlive the server, so its existence has to be tied to
\* the pod's past directly.
JobsAreOfRestored ==
    \A m \in Migration: vjobs[m] # "absent" => "succeeded" \in history[m]

\* A verification that is marked or watched shows.
WorkShows ==
    \A m \in Migration:
        \/ \E v \in Verifications!Caller:
                startPc[m][v] \in {"create", "failing", "register"}
        \/ \E w \in Watcher: vwatchPc[m][w] # "none"
        => verification[m] # "none"

Link ==
    /\ BegunIsOver
    /\ OnlyStoredIsWorkedOn
    /\ NewIsUnknown
    /\ JobsAreOfRestored
    /\ WorkShows

Inv == Migrations!Inv /\ Verifications!Inv /\ Link
-----------------------------------------------------------------------------
(* service.go: what verify.go does is a step of its environment.           *)

LEMMA InitMigrations == Init => Migrations!Init
  BY DEF Init, KubeInit, ServiceInit,
         Migrations!Init, Migrations!KubeInit, Migrations!ServiceInit

\* Of what service.go has, a verification only takes over the trigger.
LEMMA VerificationIsEnvironment ==
    ASSUME NEW m \in Migration, VerificationStep(m)
    PROVE  Migrations!AutoVerifyRuns(m) \/ UNCHANGED Migrations!vars
<1> USE DEF migrationVars, Migrations!vars, Migrations!migrationVars,
            Migrations!handlerVars, Migrations!watchVars, Migrations!migrationKubeVars
<1> USE DEF Verifications!serviceVars, Verifications!kubeVars, Verifications!migrationKubeVars
<1>1. UNCHANGED Migrations!migrationVars
  BY DEF VerificationStep
<1>2. CASE Verifications!Triggers(m)
  BY <1>1, <1>2 DEF Verifications!Triggers, Migrations!AutoVerifyRuns,
                    Migrations!kubeVars, Migrations!verificationKubeVars,
                    Verifications!verificationKubeVars
<1>3. ASSUME NEW v \in Verifications!Caller,
             Verifications!StartChecks(m, v) \/ Verifications!StartProceeds(m, v)
      PROVE  UNCHANGED Migrations!vars
  BY <1>1, <1>3 DEF Verifications!StartChecks, Verifications!StartProceeds,
        Verifications!StartDeletesJob, Verifications!StartMarks,
        Verifications!StartCreatesJob, Verifications!StartFails,
        Verifications!StartRegisters
<1>4. ASSUME NEW w \in Watcher, Verifications!VWatchStepOf(m, w)
      PROVE  UNCHANGED Migrations!vars
  BY <1>1, <1>4 DEF Verifications!VWatchStepOf, Verifications!VWatchProceeds,
        Verifications!VWatchStops, Verifications!PollGetsVJob,
        Verifications!VWatchTicks, Verifications!PollFindsNoVJob,
        Verifications!PollReadsVLogs, Verifications!PollWritesVerdict,
        Verifications!VWatchReleases
<1>5. CASE Verifications!VJobStep(m) \/ Verifications!VJobIsRemoved(m)
  BY <1>1, <1>5 DEF Verifications!VJobStep, Verifications!VJobIsRemoved
<1> QED
  BY <1>2, <1>3, <1>4, <1>5 DEF VerificationStep, Verifications!VerifyStep

LEMMA StepsMigrations == [Next]_vars => [Migrations!Next]_(Migrations!vars)
<1>1. ASSUME NEW m \in Migration, MigrationStep(m)
      PROVE  Migrations!Next
  BY <1>1 DEF MigrationStep, Migrations!Next
<1>2. ASSUME NEW m \in Migration, VerificationStep(m)
      PROVE  [Migrations!Next]_(Migrations!vars)
  BY <1>2, VerificationIsEnvironment DEF Migrations!Next
<1>3. ASSUME ServerCrash
      PROVE  Migrations!Next
  BY <1>3 DEF ServerCrash, ServiceCrash, kubeVars, migrationKubeVars,
              verificationKubeVars, Migrations!Next, Migrations!ServerCrash,
              Migrations!ServiceCrash, Migrations!kubeVars,
              Migrations!migrationKubeVars, Migrations!verificationKubeVars
<1>4. ASSUME UNCHANGED vars
      PROVE  UNCHANGED Migrations!vars
  BY <1>4 DEF vars, serviceVars, kubeVars, migrationKubeVars, verificationKubeVars,
              migrationVars, Migrations!vars, Migrations!migrationVars,
              Migrations!handlerVars, Migrations!watchVars,
              Migrations!migrationKubeVars
<1> QED
  BY <1>1, <1>2, <1>3, <1>4 DEF Next

\* The backend implements service.go's specification: verify.go does nothing to
\* the status, to the cancel map's own entries or to the migration Job
\* (service.go:65-265, verify.go:26-154).
THEOREM MigrationsRefined == Spec => ImplementsMigrations
  BY InitMigrations, StepsMigrations, PTL
     DEF Spec, ImplementsMigrations, Migrations!Spec

-----------------------------------------------------------------------------
(* verify.go: what service.go does is a step of its environment, as long   *)
(* as the link holds.                                                      *)

LEMMA InitVerifications == Init => Verifications!Init
  BY DEF Init, KubeInit, ServiceInit,
         Verifications!Init, Verifications!KubeInit, Verifications!ServiceInit

\* Create works on an id that is new, and later on one no verification has
\* begun for.
LEMMA CreateIsEnvironment ==
    ASSUME Inv, NEW m \in Migration, UNCHANGED verificationVars,
           Migrations!CreateStores(m) \/ Migrations!CreateProceeds(m)
    PROVE  Verifications!ServiceStep(m) \/ UNCHANGED Verifications!vars
<1> USE DEF Inv, Link, BegunIsOver, OnlyStoredIsWorkedOn, NewIsUnknown
<1> USE DEF verificationVars, Verifications!vars, Verifications!verificationVars,
            Verifications!startVars,
            Verifications!kubeVars, Verifications!migrationKubeVars,
            Verifications!verificationKubeVars
<1> USE DEF Migrations!CreateGoes, Migrations!serviceVars, Migrations!kubeVars,
            Migrations!migrationKubeVars, Migrations!verificationKubeVars
<1>1. ASSUME NEW s \in {"pending", "failed", "dumping"}, Migrations!SetStatus(m, s),
             ~Verifications!Begun(m), ~Verifications!Stored(m) => Verifications!Unknown(m),
             UNCHANGED <<verification, cancelFn, verifyCancelFn, autoVerify,
                         Migrations!kubeVars>>
      PROVE  Verifications!ServiceStep(m)
  BY <1>1 DEF Migrations!SetStatus, Verifications!ServiceStep, Verifications!StatusMoves,
              Verifications!SetStatus, Verifications!Active, Verifications!Terminal
<1>2. CASE Migrations!CreateStores(m)
  BY <1>1, <1>2 DEF Migrations!CreateStores
<1>3. CASE Migrations!CreateFails(m)
  BY <1>1, <1>3 DEF Migrations!CreateFails, Verifications!Stored
<1>4. CASE Migrations!CreateStarts(m)
  BY <1>1, <1>4 DEF Migrations!CreateStarts, Verifications!Stored
<1>5. CASE Migrations!CreatesPVC(m) \/ Migrations!CreatesJob(m)
            \/ Migrations!CreateSpawnsWatch(m)
  BY <1>5 DEF Migrations!CreatesPVC, Migrations!CreatesJob, Migrations!CreateSpawnsWatch
<1> QED
  BY <1>2, <1>3, <1>4, <1>5 DEF Migrations!CreateProceeds

\* Cancel may come late, but works on an id that is stored.
LEMMA CancelIsEnvironment ==
    ASSUME Inv, NEW m \in Migration, NEW c \in CancelRequest, UNCHANGED verificationVars,
           Migrations!CancelChecks(m, c) \/ Migrations!CancelProceeds(m, c)
    PROVE  Verifications!ServiceStep(m) \/ UNCHANGED Verifications!vars
<1> USE DEF Inv, Link, OnlyStoredIsWorkedOn
<1> USE DEF verificationVars, Verifications!vars, Verifications!verificationVars,
            Verifications!startVars,
            Verifications!kubeVars, Verifications!migrationKubeVars,
            Verifications!verificationKubeVars
<1> USE DEF Migrations!CancelGoes, Migrations!serviceVars, Migrations!kubeVars,
            Migrations!migrationKubeVars, Migrations!verificationKubeVars
<1>1. CASE Migrations!CancelMarks(m, c)
  <2>1. Verifications!Stored(m) /\ Verifications!SetStatus(m, "cancelled")
    BY <1>1 DEF Migrations!CancelMarks, Migrations!SetStatus, Verifications!Stored,
                Verifications!SetStatus
  <2>2. Verifications!StatusMoves(m)
    BY <1>1, <2>1 DEF Migrations!CancelMarks, Verifications!StatusMoves,
                      Verifications!Terminal
  <2> QED
    BY <2>2 DEF Verifications!ServiceStep
<1>2. CASE Migrations!CancelChecks(m, c) \/ Migrations!CancelSignals(m, c)
            \/ Migrations!CancelDeletesJob(m, c)
  BY <1>2 DEF Migrations!CancelChecks, Migrations!CancelSignals,
              Migrations!CancelDeletesJob
<1> QED
  BY <1>1, <1>2 DEF Migrations!CancelProceeds

\* So does Cleanup, and of its three deletions one is of verify.go's Job.
LEMMA CleanupIsEnvironment ==
    ASSUME Inv, NEW m \in Migration, NEW k \in CleanupRequest, UNCHANGED verificationVars,
           Migrations!CleanupChecks(m, k) \/ Migrations!CleanupProceeds(m, k)
    PROVE  Verifications!ServiceStep(m) \/ UNCHANGED Verifications!vars
<1> USE DEF Inv, Link, OnlyStoredIsWorkedOn
<1> USE DEF verificationVars, Verifications!vars, Verifications!verificationVars,
            Verifications!startVars,
            Verifications!migrationKubeVars, Verifications!verificationKubeVars
<1> USE DEF Migrations!CleanupGoes, Migrations!serviceVars, Migrations!kubeVars,
            Migrations!migrationKubeVars, Migrations!verificationKubeVars
<1>1. CASE Migrations!CleanupDeletesVerificationJob(m, k)
  BY <1>1 DEF Migrations!CleanupDeletesVerificationJob, Verifications!Stored,
              Migrations!DeleteVerificationJob, Migrations!RemoveVerificationJob,
              Verifications!RemoveVerificationJob, Verifications!ServiceStep,
              Verifications!CleanupRemovesVJob, Verifications!serviceVars
<1>2. CASE Migrations!CleanupChecks(m, k) \/ Migrations!CleanupDeletesJob(m, k)
            \/ Migrations!CleanupDeletesPVC(m, k)
  BY <1>2 DEF Migrations!CleanupChecks, Migrations!CleanupDeletesJob,
              Migrations!CleanupDeletesPVC
<1> QED
  BY <1>1, <1>2 DEF Migrations!CleanupProceeds

\* A poll that writes does so before any verification has begun.
LEMMA WatchIsEnvironment ==
    ASSUME Inv, NEW m \in Migration, UNCHANGED verificationVars,
           Migrations!WatchStepOf(m)
    PROVE  Verifications!ServiceStep(m) \/ UNCHANGED Verifications!vars
<1> USE DEF Inv, Link, BegunIsOver, OnlyStoredIsWorkedOn
<1> USE DEF verificationVars, Verifications!vars, Verifications!verificationVars,
            Verifications!startVars,
            Verifications!kubeVars, Verifications!migrationKubeVars,
            Verifications!verificationKubeVars
<1> USE DEF Migrations!WatchGoes, Migrations!serviceVars, Migrations!kubeVars,
            Migrations!migrationKubeVars, Migrations!verificationKubeVars
<1>1. CASE Migrations!PollWrites(m)
  <2> DEFINE new == Migrations!PolledStatus(seen[m].job, seen[m].phase)
  <2>1. new \in {"completed", "failed", "restoring", "dumping"}
    BY DEF Migrations!PolledStatus
  <2>2. ~Verifications!Begun(m) /\ Verifications!Stored(m)
    BY <1>1 DEF Migrations!PollWrites, Verifications!Stored
  <2>3. /\ Verifications!SetStatus(m, new)
        /\ autoVerify' = IF new = "completed" THEN autoVerify \cup {m} ELSE autoVerify
    BY <1>1, <2>2 DEF Migrations!PollWrites, Migrations!SetStatus,
                      Verifications!SetStatus, Verifications!Begun
  <2> HIDE DEF new
  <2> QED
    BY <1>1, <2>1, <2>2, <2>3
       DEF Migrations!PollWrites, Verifications!ServiceStep, Verifications!StatusMoves,
           Verifications!Active, Verifications!Terminal
<1>2. CASE ~Migrations!PollWrites(m)
  BY <1>2 DEF Migrations!WatchStepOf, Migrations!WatchProceeds, Migrations!WatchTicks,
              Migrations!WatchStops, Migrations!PollGetsJob, Migrations!PollFindsNoJob,
              Migrations!PollReadsLogs, Migrations!WatchChecks
<1> QED
  BY <1>1, <1>2

LEMMA StepsVerifications ==
    Inv /\ [Next]_vars => [Verifications!Next]_(Verifications!vars)
<1> SUFFICES ASSUME Inv, [Next]_vars
             PROVE  [Verifications!Next]_(Verifications!vars)
  OBVIOUS
<1>1. ASSUME NEW m \in Migration, VerificationStep(m)
      PROVE  Verifications!Next
  BY <1>1 DEF VerificationStep, Verifications!Next
<1>2. ASSUME NEW m \in Migration, MigrationStep(m)
      PROVE  Verifications!ServiceStep(m) \/ UNCHANGED Verifications!vars
  <2>1. CASE Migrations!JobStep(m) \/ Migrations!JobIsRemoved(m)
    BY <1>2, <2>1 DEF MigrationStep, Migrations!JobStep, Migrations!JobIsRemoved,
          verificationVars, Verifications!vars, Verifications!verificationVars,
          Verifications!startVars,
          Verifications!verificationKubeVars, Migrations!verificationKubeVars,
          Migrations!serviceVars
  <2> QED
    BY <1>2, <2>1, CreateIsEnvironment, CancelIsEnvironment, CleanupIsEnvironment,
       WatchIsEnvironment DEF MigrationStep, Migrations!RequestStep
<1>3. ASSUME ServerCrash
      PROVE  Verifications!Next
  BY <1>3 DEF ServerCrash, ServiceCrash, kubeVars, migrationKubeVars,
              verificationKubeVars, Verifications!Next, Verifications!ServerCrash,
              Verifications!ServiceCrash, Verifications!kubeVars,
              Verifications!migrationKubeVars, Verifications!verificationKubeVars
<1>4. ASSUME UNCHANGED vars
      PROVE  UNCHANGED Verifications!vars
  BY <1>4 DEF vars, serviceVars, kubeVars, migrationKubeVars, verificationKubeVars,
              verificationVars, Verifications!vars, Verifications!verificationVars,
              Verifications!startVars, Verifications!verificationKubeVars
<1> QED
  BY <1>1, <1>2, <1>3, <1>4 DEF Next, Verifications!Next

-----------------------------------------------------------------------------
(* The link is kept.                                                       *)

\* Create, Cancel, Cleanup and the poller: each writes only before a verification
\* has begun, but for Cancel, which writes what BegunIsOver allows.
LEMMA CreateKeepsLink ==
    ASSUME Inv, Migrations!Inv', NEW m \in Migration, UNCHANGED verificationVars,
           Migrations!CreateStores(m) \/ Migrations!CreateProceeds(m)
    PROVE  Link'
<1> USE DEF Inv, Link, BegunIsOver, OnlyStoredIsWorkedOn, NewIsUnknown, JobsAreOfRestored,
            WorkShows
<1> USE DEF Migrations!Inv, Migrations!Rest, Migrations!CreateComesFirst, Migrations!TypeOK,
            Migrations!MigrationKubeTypeOK, Migrations!ServiceTypeOK, Migrations!CreateStep
<1> USE DEF verificationVars, Verifications!Begun, Verifications!Unknown
<1> USE DEF Migrations!CreateGoes, Migrations!SetStatus, Migrations!serviceVars,
            Migrations!kubeVars, Migrations!migrationKubeVars,
            Migrations!verificationKubeVars, Migrations!watchVars
<1>1. CASE Migrations!CreateStores(m)
  BY <1>1 DEF Migrations!CreateStores
<1>2. CASE Migrations!CreatesPVC(m)
  BY <1>2 DEF Migrations!CreatesPVC
<1>3. CASE Migrations!CreatesJob(m)
  BY <1>3 DEF Migrations!CreatesJob
<1>4. CASE Migrations!CreateFails(m)
  BY <1>4 DEF Migrations!CreateFails
<1>5. CASE Migrations!CreateStarts(m)
  BY <1>5 DEF Migrations!CreateStarts
<1>6. CASE Migrations!CreateSpawnsWatch(m)
  BY <1>6 DEF Migrations!CreateSpawnsWatch
<1> QED
  BY <1>1, <1>2, <1>3, <1>4, <1>5, <1>6 DEF Migrations!CreateProceeds

LEMMA CancelKeepsLink ==
    ASSUME Inv, NEW m \in Migration, NEW c \in CancelRequest, UNCHANGED verificationVars,
           Migrations!CancelChecks(m, c) \/ Migrations!CancelProceeds(m, c)
    PROVE  Link'
<1> USE DEF Inv, Link, BegunIsOver, OnlyStoredIsWorkedOn, NewIsUnknown, JobsAreOfRestored,
            WorkShows
<1> USE DEF Migrations!Inv, Migrations!TypeOK, Migrations!ServiceTypeOK
<1> USE DEF verificationVars, Verifications!Begun, Verifications!Unknown
<1> USE DEF Migrations!CancelGoes, Migrations!SetStatus, Migrations!serviceVars,
            Migrations!kubeVars, Migrations!migrationKubeVars,
            Migrations!verificationKubeVars, Migrations!watchVars, Migrations!Active
<1>1. CASE Migrations!CancelChecks(m, c)
  BY <1>1 DEF Migrations!CancelChecks
<1>2. CASE Migrations!CancelSignals(m, c)
  BY <1>2 DEF Migrations!CancelSignals
<1>3. CASE Migrations!CancelDeletesJob(m, c)
  BY <1>3 DEF Migrations!CancelDeletesJob
<1>4. CASE Migrations!CancelMarks(m, c)
  BY <1>4 DEF Migrations!CancelMarks
<1> QED
  BY <1>1, <1>2, <1>3, <1>4 DEF Migrations!CancelProceeds

LEMMA CleanupKeepsLink ==
    ASSUME Inv, NEW m \in Migration, NEW k \in CleanupRequest, UNCHANGED verificationVars,
           Migrations!CleanupChecks(m, k) \/ Migrations!CleanupProceeds(m, k)
    PROVE  Link'
<1> USE DEF Inv, Link, BegunIsOver, OnlyStoredIsWorkedOn, NewIsUnknown, JobsAreOfRestored,
            WorkShows
<1> USE DEF Migrations!Inv, Migrations!TypeOK
<1> USE DEF verificationVars, Verifications!Begun, Verifications!Unknown
<1> USE DEF Migrations!CleanupGoes, Migrations!serviceVars,
            Migrations!kubeVars, Migrations!migrationKubeVars,
            Migrations!verificationKubeVars, Migrations!watchVars
<1>1. CASE Migrations!CleanupChecks(m, k)
  BY <1>1 DEF Migrations!CleanupChecks, Migrations!Stored
<1>2. CASE Migrations!CleanupDeletesJob(m, k)
  BY <1>2 DEF Migrations!CleanupDeletesJob
<1>3. CASE Migrations!CleanupDeletesVerificationJob(m, k)
  <2> USE <1>3 DEF Migrations!CleanupDeletesVerificationJob
  <2>1. status[m] # "absent"
    OBVIOUS
  <2>2. CASE UNCHANGED <<vjobs, vpods, leftover>>
    BY <2>2
  <2>3. CASE Migrations!RemoveVerificationJob(m)
    BY <2>1, <2>3 DEF Migrations!RemoveVerificationJob, Verifications!Inv,
                      Verifications!TypeOK, Verifications!VerificationKubeTypeOK
  <2> QED
    BY <2>2, <2>3 DEF Migrations!DeleteVerificationJob
<1>4. CASE Migrations!CleanupDeletesPVC(m, k)
  BY <1>4 DEF Migrations!CleanupDeletesPVC
<1> QED
  BY <1>1, <1>2, <1>3, <1>4 DEF Migrations!CleanupProceeds

LEMMA WatchKeepsLink ==
    ASSUME Inv, Migrations!Inv', NEW m \in Migration, UNCHANGED verificationVars,
           Migrations!WatchStepOf(m)
    PROVE  Link'
<1> USE DEF Inv, Link, BegunIsOver, OnlyStoredIsWorkedOn, NewIsUnknown, JobsAreOfRestored,
            WorkShows
<1> USE DEF Migrations!Inv, Migrations!Rest, Migrations!CreateComesFirst,
            Migrations!StatusHonest, Migrations!TypeOK,
            Migrations!MigrationKubeTypeOK, Migrations!ServiceTypeOK, Migrations!WatchStep
<1> USE DEF verificationVars, Verifications!Begun, Verifications!Unknown
<1> USE DEF Migrations!WatchGoes, Migrations!SetStatus, Migrations!serviceVars,
            Migrations!kubeVars, Migrations!migrationKubeVars,
            Migrations!verificationKubeVars, Migrations!handlerVars
<1>1. CASE Migrations!PollWrites(m)
  <2> DEFINE new == Migrations!PolledStatus(seen[m].job, seen[m].phase)
  <2>1. new \in {"completed", "failed", "restoring", "dumping"}
    BY DEF Migrations!PolledStatus
  <2> HIDE DEF new
  <2> QED
    BY <1>1, <2>1 DEF Migrations!PollWrites, new
<1>2. CASE Migrations!WatchChecks(m)
  BY <1>2 DEF Migrations!WatchChecks, Migrations!Terminal
<1>3. CASE Migrations!WatchTicks(m)
  BY <1>3 DEF Migrations!WatchTicks
<1>4. CASE Migrations!WatchStops(m)
  BY <1>4 DEF Migrations!WatchStops
<1>5. CASE Migrations!PollGetsJob(m)
  BY <1>5 DEF Migrations!PollGetsJob
<1>6. CASE Migrations!PollFindsNoJob(m)
  BY <1>6 DEF Migrations!PollFindsNoJob
<1>7. CASE Migrations!PollReadsLogs(m)
  BY <1>7 DEF Migrations!PollReadsLogs
<1> QED
  BY <1>1, <1>2, <1>3, <1>4, <1>5, <1>6, <1>7
     DEF Migrations!WatchStepOf, Migrations!WatchProceeds

\* The cluster adds to the past of a pod and takes nothing from it.
LEMMA JobKeepsLink ==
    ASSUME Inv, NEW m \in Migration, UNCHANGED verificationVars,
           Migrations!JobStep(m) \/ Migrations!JobIsRemoved(m)
    PROVE  Link'
<1> USE DEF Inv, Link, BegunIsOver, OnlyStoredIsWorkedOn, NewIsUnknown, JobsAreOfRestored,
            WorkShows
<1>1. /\ \A n \in Migration: history[n] \subseteq history'[n]
      /\ UNCHANGED <<Migrations!verificationKubeVars, Migrations!serviceVars,
                     Migrations!migrationVars>>
  <2>1. CASE Migrations!JobIsRemoved(m)
    BY <2>1 DEF Migrations!JobIsRemoved, Migrations!JobExpires
  <2>2. CASE Migrations!PodStarts(m) /\ Migrations!JobStep(m)
    BY <2>2 DEF Migrations!JobStep, Migrations!PodStarts, Migrations!Inv,
                Migrations!TypeOK, Migrations!MigrationKubeTypeOK
  <2>3. CASE Migrations!PodProgresses(m) /\ Migrations!JobStep(m)
    BY <2>3 DEF Migrations!JobStep, Migrations!PodProgresses, Migrations!Inv,
                Migrations!TypeOK, Migrations!MigrationKubeTypeOK
  <2>4. CASE (Migrations!JobEnds(m) \/ Migrations!PodCollected(m)) /\ Migrations!JobStep(m)
    BY <2>4 DEF Migrations!JobStep, Migrations!JobEnds, Migrations!PodCollected
  <2> QED
    BY <2>1, <2>2, <2>3, <2>4 DEF Migrations!JobStep, Migrations!MigrationKubeStep
<1> QED
  BY <1>1 DEF verificationVars, Verifications!Begun, Verifications!Unknown,
              Migrations!verificationKubeVars, Migrations!serviceVars,
              Migrations!migrationVars, Migrations!handlerVars, Migrations!watchVars

\* Whoever works for verify.go works for a verification that has begun.
LEMMA StartKeepsLink ==
    ASSUME Inv, NEW m \in Migration, UNCHANGED migrationVars, Verifications!VerifyStep(m)
    PROVE  Link'
<1> USE DEF Inv, Link, BegunIsOver, OnlyStoredIsWorkedOn, NewIsUnknown, JobsAreOfRestored,
            WorkShows
<1> USE DEF Verifications!Inv, Verifications!TypeOK, Verifications!VerificationKubeTypeOK,
            Verifications!StartStep
<1> USE DEF migrationVars, Verifications!Begun, Verifications!Unknown
<1> USE DEF Verifications!StartGoes, Verifications!SetVerification,
            Verifications!serviceVars, Verifications!kubeVars,
            Verifications!migrationKubeVars, Verifications!verificationKubeVars,
            Verifications!watcherVars
<1>1. CASE Verifications!Triggers(m)
  BY <1>1 DEF Verifications!Triggers, Verifications!Caller
<1> SUFFICES ASSUME NEW v \in Verifications!Caller,
                    Verifications!StartChecks(m, v) \/ Verifications!StartProceeds(m, v)
             PROVE  Link'
  BY <1>1 DEF Verifications!VerifyStep
<1>2. CASE Verifications!StartChecks(m, v)
  BY <1>2 DEF Verifications!StartChecks
<1>3. CASE Verifications!StartDeletesJob(m, v)
  BY <1>3 DEF Verifications!StartDeletesJob, Verifications!DeleteVerificationJob,
              Verifications!RemoveVerificationJob
<1>4. CASE Verifications!StartMarks(m, v)
  BY <1>4 DEF Verifications!StartMarks
<1>5. CASE Verifications!StartCreatesJob(m, v)
  <2> USE <1>5 DEF Verifications!StartCreatesJob
  <2>1. Verifications!Begun(m) /\ verification[m] # "none"
    OBVIOUS
  <2>2. /\ startPc' \in {[startPc EXCEPT ![m][v] = "register"],
                         [startPc EXCEPT ![m][v] = "failing"]}
        /\ vjobs' \in {vjobs, [vjobs EXCEPT ![m] = "active"]}
    BY DEF Verifications!CreateVerificationJob
  <2>3. UNCHANGED <<status, verification, autoVerify, history, vpods, leftover,
                    everMatched, vwatchPc, createPc, cancelPc, cleanupPc, watchPc>>
    OBVIOUS
  <2>4. createPc[m] = "done" /\ "succeeded" \in history[m]
    BY <2>1
  <2>5. \A n \in Migration: Verifications!Begun(n)' => Verifications!Begun(n)
    BY <2>1, <2>2, <2>3
  <2>6. BegunIsOver' /\ OnlyStoredIsWorkedOn'
    BY <2>3, <2>5
  <2>7. NewIsUnknown' /\ JobsAreOfRestored'
    BY <2>2, <2>3, <2>4
  <2>8. WorkShows'
    BY <2>1, <2>2, <2>3
  <2> QED
    BY <2>6, <2>7, <2>8
<1>6. CASE Verifications!StartFails(m, v)
  BY <1>6 DEF Verifications!StartFails
<1>7. CASE Verifications!StartRegisters(m, v)
  BY <1>7 DEF Verifications!StartRegisters
<1> QED
  BY <1>2, <1>3, <1>4, <1>5, <1>6, <1>7 DEF Verifications!StartProceeds

LEMMA VWatchKeepsLink ==
    ASSUME Inv, NEW m \in Migration, NEW w \in Watcher, UNCHANGED migrationVars,
           Verifications!VWatchStepOf(m, w)
    PROVE  Link'
<1> USE DEF Inv, Link, BegunIsOver, OnlyStoredIsWorkedOn, NewIsUnknown, JobsAreOfRestored,
            WorkShows
<1> USE DEF Verifications!Inv, Verifications!TypeOK
<1> USE DEF migrationVars, Verifications!Begun, Verifications!Unknown
<1> USE DEF Verifications!VWatchGoes, Verifications!SetVerification,
            Verifications!startVars, Verifications!serviceVars, Verifications!kubeVars,
            Verifications!migrationKubeVars, Verifications!verificationKubeVars
<1>1. CASE Verifications!VWatchTicks(m, w)
  BY <1>1 DEF Verifications!VWatchTicks
<1>2. CASE Verifications!VWatchStops(m, w)
  BY <1>2 DEF Verifications!VWatchStops
<1>3. CASE Verifications!PollGetsVJob(m, w)
  BY <1>3 DEF Verifications!PollGetsVJob
<1>4. CASE Verifications!PollFindsNoVJob(m, w)
  BY <1>4 DEF Verifications!PollFindsNoVJob
<1>5. CASE Verifications!PollReadsVLogs(m, w)
  BY <1>5 DEF Verifications!PollReadsVLogs
<1>6. CASE Verifications!PollWritesVerdict(m, w)
  <2>1. Verifications!PolledVerdict(vseen[m][w].job, vseen[m][w].logs) # "none"
    BY DEF Verifications!PolledVerdict
  <2> QED
    BY <1>6, <2>1 DEF Verifications!PollWritesVerdict
<1>7. CASE Verifications!VWatchReleases(m, w)
  BY <1>7 DEF Verifications!VWatchReleases
<1> QED
  BY <1>1, <1>2, <1>3, <1>4, <1>5, <1>6, <1>7
     DEF Verifications!VWatchStepOf, Verifications!VWatchProceeds

LEMMA VJobKeepsLink ==
    ASSUME Inv, NEW m \in Migration, UNCHANGED migrationVars,
           Verifications!VJobStep(m) \/ Verifications!VJobIsRemoved(m)
    PROVE  Link'
<1> USE DEF Inv, Link, BegunIsOver, OnlyStoredIsWorkedOn, NewIsUnknown, JobsAreOfRestored,
            WorkShows
<1> USE DEF Verifications!Inv, Verifications!TypeOK, Verifications!VerificationKubeTypeOK
<1> USE DEF migrationVars, Verifications!Begun, Verifications!Unknown
<1> USE DEF Verifications!serviceVars, Verifications!verificationVars,
            Verifications!startVars,
            Verifications!migrationKubeVars, Verifications!VPodResult,
            Verifications!NotesResult
<1>1. CASE Verifications!VJobIsRemoved(m)
  BY <1>1 DEF Verifications!VJobIsRemoved, Verifications!VJobExpires,
              Verifications!RemoveVerificationJob
<1> SUFFICES ASSUME Verifications!VJobStep(m) PROVE Link'
  BY <1>1
<1> USE DEF Verifications!VJobStep
<1>2. CASE Verifications!VPodStarts(m)
  BY <1>2 DEF Verifications!VPodStarts
<1>3. CASE Verifications!VPodEnds(m)
  BY <1>3 DEF Verifications!VPodEnds
<1>4. CASE Verifications!VJobEnds(m)
  BY <1>4 DEF Verifications!VJobEnds
<1>5. CASE Verifications!LeftoverEnds(m)
  BY <1>5 DEF Verifications!LeftoverEnds
<1>6. CASE Verifications!LeftoverCollected(m)
  BY <1>6 DEF Verifications!LeftoverCollected
<1> QED
  BY <1>2, <1>3, <1>4, <1>5, <1>6 DEF Verifications!VerificationKubeStep

\* A new process knows no id, and the cluster keeps what it has.
LEMMA CrashKeepsLink == Inv /\ ServerCrash => Link'
<1> SUFFICES ASSUME Inv, ServerCrash PROVE Link'
  OBVIOUS
<1> USE DEF Inv, Link, ServerCrash, ServiceCrash, Migrations!MigrationCrash,
            Verifications!VerificationCrash, kubeVars, migrationKubeVars,
            verificationKubeVars, Verifications!Begun, Verifications!Unknown
<1>1. BegunIsOver' /\ WorkShows'
  BY DEF BegunIsOver, WorkShows
<1>2. OnlyStoredIsWorkedOn'
  BY DEF OnlyStoredIsWorkedOn
<1>3. NewIsUnknown' /\ JobsAreOfRestored'
  BY DEF NewIsUnknown, JobsAreOfRestored
<1> QED
  BY <1>1, <1>2, <1>3

LEMMA LinkStep == Inv /\ Migrations!Inv' /\ [Next]_vars => Link'
<1> SUFFICES ASSUME Inv, Migrations!Inv', [Next]_vars PROVE Link'
  OBVIOUS
<1>1. ASSUME NEW m \in Migration, MigrationStep(m) PROVE Link'
  BY <1>1, CreateKeepsLink, CancelKeepsLink, CleanupKeepsLink, WatchKeepsLink,
     JobKeepsLink DEF MigrationStep, Migrations!RequestStep
<1>2. ASSUME NEW m \in Migration, VerificationStep(m) PROVE Link'
  BY <1>2, StartKeepsLink, VWatchKeepsLink, VJobKeepsLink DEF VerificationStep
<1>3. CASE UNCHANGED vars
  BY <1>3 DEF Inv, Link, BegunIsOver, OnlyStoredIsWorkedOn, NewIsUnknown,
              JobsAreOfRestored, WorkShows, Verifications!Begun, Verifications!Unknown,
              vars, serviceVars, kubeVars, migrationKubeVars, verificationKubeVars,
              migrationVars, verificationVars
<1> QED
  BY <1>1, <1>2, <1>3, CrashKeepsLink DEF Next

-----------------------------------------------------------------------------
(* The invariant and what it gives.                                        *)

LEMMA InitInv == Init => Inv
<1>1. Init => Migrations!Inv
  BY InitMigrations, Migrations!InitInv, WatcherAssumption, TTLAssumption
<1>2. Init => Verifications!Inv
  BY InitVerifications, Verifications!InitInv, WatcherAssumption, TTLAssumption,
     CallerAssumption
<1>3. Init => Link
  BY DEF Init, KubeInit, ServiceInit, Migrations!MigrationInit,
         Verifications!VerificationInit, Link, BegunIsOver, OnlyStoredIsWorkedOn,
         NewIsUnknown, JobsAreOfRestored, WorkShows, Verifications!Begun,
         Verifications!Unknown
<1> QED
  BY <1>1, <1>2, <1>3 DEF Inv

\* Both components' invariants and the link between them hold of the backend.
THEOREM Invariance == Spec => []Inv
<1>1. Inv /\ [Next]_vars => Inv'
  <2>1. Inv /\ [Next]_vars => Migrations!Inv'
    BY StepsMigrations, Migrations!TypesStep, Migrations!RestStep,
       WatcherAssumption, TTLAssumption DEF Inv, Migrations!Inv
  <2>2. Inv /\ [Next]_vars => Verifications!Inv'
    BY StepsVerifications, Verifications!TypesStep, Verifications!RestStep,
       WatcherAssumption, TTLAssumption, CallerAssumption DEF Inv, Verifications!Inv
  <2> QED
    BY <2>1, <2>2, LinkStep DEF Inv
<1> QED
  BY InitInv, <1>1, PTL DEF Spec

\* And verify.go's specification: a status that reached "completed" is not taken
\* back while its verification runs, and no id starts with a verification Job
\* around (service.go:65-265, verify.go:26-154).
THEOREM VerificationsRefined == Spec => ImplementsVerifications
  BY InitVerifications, StepsVerifications, Invariance, PTL
     DEF Spec, ImplementsVerifications, Verifications!Spec

\* So the status a client of the whole backend reads follows the life cycle.
THEOREM LifecycleRefined == Spec => Migrations!Implements
<1>1. Migrations!Spec => Migrations!Implements
  BY Migrations!Refinement, WatcherAssumption, TTLAssumption
<1> QED
  BY <1>1, MigrationsRefined DEF ImplementsMigrations

\* No verification, automatic or requested, runs against a target that was never
\* restored (verify.go:32, 76; service.go:223-235).
THEOREM OnlyRestored == Spec => []VerifiesOnlyRestored
<1>1. Inv => VerifiesOnlyRestored
  BY DEF Inv, Link, BegunIsOver, JobsAreOfRestored, VerifiesOnlyRestored,
         Verifications!Begun
<1> QED
  BY <1>1, Invariance, PTL

\* While only the automatic verification runs, a verdict that shows as running is
\* worked on, whatever Cancel, Cleanup, polls and restarts do around it
\* (verify.go:49-104).
THEOREM AutoTending ==
    ASSUME VerifyRequest = {}
    PROVE  Spec => []AutoIsTended
<1>1. Verifications!Spec => []Verifications!RunningIsTended
  BY Verifications!Tending, WatcherAssumption, TTLAssumption, CallerAssumption
<1> QED
  BY <1>1, VerificationsRefined DEF ImplementsVerifications, AutoIsTended

\* A verdict of the whole backend stays until the next start marks it or the server
\* restarts, whatever Cancel, Cleanup, polls and requests go on around it, unless
\* two starts of the id, the automatic one among them, were past the check at once
\* (verify.go:32-71, 85-154).
THEOREM Staying == Spec => Verifications!VerdictStays
<1>1. Verifications!Spec => Verifications!VerdictStays
  BY Verifications!Staying, WatcherAssumption, TTLAssumption, CallerAssumption
<1> QED
  BY <1>1, VerificationsRefined DEF ImplementsVerifications
=============================================================================
