----------------------- MODULE MigrationServiceProofs -----------------------
(***************************************************************************)
(* The safety properties of MigrationService, for every set of migrations  *)
(* and of requests.  All of them follow from one inductive invariant.      *)
(***************************************************************************)
EXTENDS MigrationService, TLAPS

-----------------------------------------------------------------------------
(* The inductive invariant.                                                *)

\* The watcher is Create's last act, and only a watcher completes or fails a
\* migration whose Create has not given up.
CreateComesFirst ==
    \A m \in Migration:
        createPc[m] # "done" =>
            watchPc[m] = "none" /\ status[m] \notin {"completed", "failed"}

\* Until a poll has written, its watcher has not completed the migration.
PollsBeforeCompletion ==
    \A m \in Migration:
        watchPc[m] \in {"select", "getJob", "getLogs", "write"} =>
            status[m] # "completed"

\* What the Job object says, and what a poll has read of Job and logs, the
\* pod has been through.
SeenWasReal ==
    \A m \in Migration:
        /\ pods[m] # "none" => pods[m] \in history[m]
        /\ jobs[m] \in {"succeeded", "failed"} => jobs[m] \in history[m]
        /\ seen[m].job \in {"succeeded", "failed"} => seen[m].job \in history[m]
        /\ seen[m].phase = "restore" => "restore" \in history[m]
        /\ watchPc[m] \in {"getLogs", "write"} => seen[m].job # "absent"

Rest ==
    /\ CreateComesFirst
    /\ PollsBeforeCompletion
    /\ SeenWasReal
    /\ StatusHonest
    /\ ActiveIsWatched
    /\ WatcherIsReachable

Inv == TypeOK /\ Rest

-----------------------------------------------------------------------------
USE DEF JobState, PodState, CreateStep, CancelStep, CleanupStep, WatchStep, Phase

\* The maps a new Service starts with satisfy the invariant (NewService,
\* store.New).
THEOREM InitInv == Init => Inv
<1> SUFFICES ASSUME Init PROVE Inv
  OBVIOUS
<1> USE DEF Init, KubeInit, ServiceInit, MigrationInit, NothingSeen
<1>1. TypeOK
  BY DEF TypeOK, MigrationKubeTypeOK, ServiceTypeOK, Active, Terminal
<1>2. CreateComesFirst /\ PollsBeforeCompletion /\ SeenWasReal
  BY DEF CreateComesFirst, PollsBeforeCompletion, SeenWasReal
<1>3. StatusHonest /\ ActiveIsWatched /\ WatcherIsReachable
  BY DEF StatusHonest, ActiveIsWatched, WatcherIsReachable, Active
<1> QED
  BY <1>1, <1>2, <1>3 DEF Inv, Rest

-----------------------------------------------------------------------------
(* Every step keeps the types.                                             *)

\* No step of a Create request breaks a type (service.go:62-123).
LEMMA CreateTypes ==
    ASSUME TypeOK, NEW m \in Migration, CreateStores(m) \/ CreateProceeds(m)
    PROVE  TypeOK'
<1> USE DEF TypeOK, MigrationKubeTypeOK, ServiceTypeOK, Active, Terminal,
            CreateGoes, SetStatus, serviceVars, kubeVars, migrationKubeVars,
            watchVars
<1>1. CASE CreateStores(m)
  BY <1>1 DEF CreateStores
<1>2. CASE CreatesPVC(m)
  BY <1>2 DEF CreatesPVC, CreatePVC
<1>3. CASE CreatesJob(m)
  BY <1>3 DEF CreatesJob, CreateMigrationJob
<1>4. CASE CreateFails(m)
  BY <1>4 DEF CreateFails
<1>5. CASE CreateStarts(m)
  BY <1>5 DEF CreateStarts
<1>6. CASE CreateSpawnsWatch(m)
  BY <1>6 DEF CreateSpawnsWatch
<1> QED
  BY <1>1, <1>2, <1>3, <1>4, <1>5, <1>6 DEF CreateProceeds

\* Nor does a step of a Cancel request (service.go:138-165).
LEMMA CancelTypes ==
    ASSUME TypeOK, NEW m \in Migration, NEW c \in CancelRequest,
           CancelChecks(m, c) \/ CancelProceeds(m, c)
    PROVE  TypeOK'
<1> USE DEF TypeOK, MigrationKubeTypeOK, ServiceTypeOK, Active, Terminal,
            CancelGoes, SetStatus, serviceVars, kubeVars, migrationKubeVars,
            watchVars
<1>1. CASE CancelChecks(m, c)
  BY <1>1 DEF CancelChecks
<1>2. CASE CancelSignals(m, c)
  BY <1>2 DEF CancelSignals
<1>3. CASE CancelDeletesJob(m, c)
  BY <1>3 DEF CancelDeletesJob, DeleteJob
<1>4. CASE CancelMarks(m, c)
  BY <1>4 DEF CancelMarks
<1> QED
  BY <1>1, <1>2, <1>3, <1>4 DEF CancelProceeds

\* Nor a step of a Cleanup request (service.go:167-182).
LEMMA CleanupTypes ==
    ASSUME TypeOK, NEW m \in Migration, NEW k \in CleanupRequest,
           CleanupChecks(m, k) \/ CleanupProceeds(m, k)
    PROVE  TypeOK'
<1> USE DEF TypeOK, MigrationKubeTypeOK, ServiceTypeOK, CleanupGoes,
            serviceVars, kubeVars, migrationKubeVars, watchVars
<1>1. CASE CleanupChecks(m, k)
  BY <1>1 DEF CleanupChecks
<1>2. CASE CleanupDeletesJob(m, k)
  BY <1>2 DEF CleanupDeletesJob, DeleteJob
<1>3. CASE CleanupDeletesVerificationJob(m, k)
  BY <1>3 DEF CleanupDeletesVerificationJob
<1>4. CASE CleanupDeletesPVC(m, k)
  BY <1>4 DEF CleanupDeletesPVC, DeletePVC
<1> QED
  BY <1>1, <1>2, <1>3, <1>4 DEF CleanupProceeds

\* Nor a step of the goroutine watch and its poll (service.go:184-265).
LEMMA WatchTypes ==
    ASSUME TypeOK, NEW m \in Migration, WatchStepOf(m)
    PROVE  TypeOK'
<1> USE DEF TypeOK, MigrationKubeTypeOK, ServiceTypeOK, Active, Terminal,
            WatchGoes, SetStatus, serviceVars, kubeVars, migrationKubeVars,
            handlerVars
<1>1. CASE WatchTicks(m)
  BY <1>1 DEF WatchTicks
<1>2. CASE WatchStops(m)
  BY <1>2 DEF WatchStops
<1>3. CASE PollGetsJob(m)
  <2>1. PICK job \in JobState : seen' = [seen EXCEPT ![m].job = job]
    BY <1>3 DEF PollGetsJob
  <2>2. seen' \in [Migration -> [job : JobState, phase : Phase]]
    BY <2>1
  <2> QED
    BY <1>3, <2>2 DEF PollGetsJob
<1>4. CASE PollFindsNoJob(m)
  BY <1>4 DEF PollFindsNoJob
<1>5. CASE PollReadsLogs(m)
  <2>1. LoggedPhases(m) \subseteq Phase
    BY DEF LoggedPhases
  <2>2. PICK phase \in Phase : seen' = [seen EXCEPT ![m].phase = phase]
    BY <1>5, <2>1, Zenon DEF PollReadsLogs
  <2>3. seen' \in [Migration -> [job : JobState, phase : Phase]]
    BY <2>2
  <2> QED
    BY <1>5, <2>3 DEF PollReadsLogs
<1>6. CASE PollWrites(m)
  BY <1>6 DEF PollWrites, PolledStatus, NothingSeen
<1>7. CASE WatchChecks(m)
  BY <1>7 DEF WatchChecks
<1> QED
  BY <1>1, <1>2, <1>3, <1>4, <1>5, <1>6, <1>7 DEF WatchStepOf, WatchProceeds

\* Nor a step of the Job or its pod (client.go:94-182).
LEMMA JobTypes ==
    ASSUME TypeOK, NEW m \in Migration, JobStep(m) \/ JobIsRemoved(m)
    PROVE  TypeOK'
<1> USE DEF TypeOK, MigrationKubeTypeOK, ServiceTypeOK, JobStep, JobIsRemoved, serviceVars,
            migrationVars, handlerVars, watchVars
<1>1. CASE PodStarts(m)
  BY <1>1 DEF PodStarts
<1>2. CASE PodProgresses(m)
  BY <1>2 DEF PodProgresses, PodSuccessors
<1>3. CASE JobEnds(m)
  BY <1>3 DEF JobEnds
<1>4. CASE JobExpires(m)
  BY <1>4 DEF JobExpires
<1>5. CASE PodCollected(m)
  BY <1>5 DEF PodCollected
<1> QED
  BY <1>1, <1>2, <1>3, <1>4, <1>5 DEF MigrationKubeStep, JobStep, JobIsRemoved

\* So the types survive every step, the crash of the server included.
LEMMA TypesStep == TypeOK /\ [Next]_vars => TypeOK'
<1> SUFFICES ASSUME TypeOK, [Next]_vars PROVE TypeOK'
  OBVIOUS
<1>1. ASSUME NEW m \in Migration, RequestStep(m) PROVE TypeOK'
  BY <1>1, CreateTypes, CancelTypes, CleanupTypes DEF RequestStep
<1>2. ASSUME NEW m \in Migration, AutoVerifyRuns(m) PROVE TypeOK'
  BY <1>2 DEF AutoVerifyRuns, TypeOK, MigrationKubeTypeOK, ServiceTypeOK, kubeVars,
         migrationKubeVars, migrationVars, handlerVars, watchVars
<1>3. CASE ServerCrash
  BY <1>3 DEF ServerCrash, MigrationCrash, ServiceCrash, NothingSeen, TypeOK,
         MigrationKubeTypeOK, ServiceTypeOK, kubeVars, migrationKubeVars
<1>4. CASE UNCHANGED vars
  BY <1>4 DEF vars, TypeOK, MigrationKubeTypeOK, ServiceTypeOK,
         migrationKubeVars, migrationVars, handlerVars, watchVars
<1> QED
  BY <1>1, <1>2, <1>3, <1>4, WatchTypes, JobTypes DEF Next

-----------------------------------------------------------------------------
(* Every step keeps the rest of the invariant.                             *)

\* A Create request, which writes "dumping" and "failed" without looking at the
\* status, does so before its watcher starts (service.go:90-123).
LEMMA CreateKeeps ==
    ASSUME Inv, NEW m \in Migration, CreateStores(m) \/ CreateProceeds(m)
    PROVE  Rest'
<1> USE DEF Inv, Rest, CreateComesFirst, PollsBeforeCompletion, SeenWasReal, StatusHonest,
            ActiveIsWatched, WatcherIsReachable, TypeOK, MigrationKubeTypeOK,
            ServiceTypeOK, Active, Terminal, SetStatus, serviceVars, kubeVars,
            migrationKubeVars, watchVars, CreateGoes
<1>1. CASE CreateStores(m)
  BY <1>1 DEF CreateStores
<1>2. CASE CreatesPVC(m)
  BY <1>2 DEF CreatesPVC, CreatePVC
<1>3. CASE CreatesJob(m)
  <2>1. \A n \in Migration: jobs'[n] = jobs[n] \/ jobs'[n] = "active"
    BY <1>3 DEF CreatesJob, CreateMigrationJob
  <2>2. PICK to \in {"starting", "failing"} :
            createPc[m] = "job" /\ createPc' = [createPc EXCEPT ![m] = to]
    BY <1>3 DEF CreatesJob
  <2>3. UNCHANGED <<pods, history, status, cancelFn, watchPc, ctxDone, seen>>
    BY <1>3 DEF CreatesJob
  <2> QED
    BY <2>1, <2>2, <2>3
<1>4. CASE CreateFails(m)
  BY <1>4 DEF CreateFails
<1>5. CASE CreateStarts(m)
  BY <1>5 DEF CreateStarts
<1>6. CASE CreateSpawnsWatch(m)
  BY <1>6 DEF CreateSpawnsWatch
<1> QED
  BY <1>1, <1>2, <1>3, <1>4, <1>5, <1>6 DEF CreateProceeds

\* A Cancel request takes out the entry of s.cancel only by calling it, and its
\* "cancelled" claims nothing of the pod (service.go:138-165).
LEMMA CancelKeeps ==
    ASSUME Inv, NEW m \in Migration, NEW c \in CancelRequest,
           CancelChecks(m, c) \/ CancelProceeds(m, c)
    PROVE  Rest'
<1> USE DEF Inv, Rest, CreateComesFirst, PollsBeforeCompletion, SeenWasReal, StatusHonest,
            ActiveIsWatched, WatcherIsReachable, TypeOK, MigrationKubeTypeOK,
            ServiceTypeOK, Active, Terminal, SetStatus, serviceVars, kubeVars,
            migrationKubeVars, watchVars, CancelGoes
<1>1. CASE CancelChecks(m, c)
  BY <1>1 DEF CancelChecks
<1>2. CASE CancelSignals(m, c)
  BY <1>2 DEF CancelSignals
<1>3. CASE CancelDeletesJob(m, c)
  <2>1. \A n \in Migration: jobs'[n] = jobs[n] \/ jobs'[n] = "absent"
    BY <1>3 DEF CancelDeletesJob, DeleteJob
  <2> QED
    BY <1>3, <2>1 DEF CancelDeletesJob
<1>4. CASE CancelMarks(m, c)
  BY <1>4 DEF CancelMarks
<1> QED
  BY <1>1, <1>2, <1>3, <1>4 DEF CancelProceeds

\* A Cleanup request removes objects, never what the pod has been through
\* (service.go:167-182).
LEMMA CleanupKeeps ==
    ASSUME Inv, NEW m \in Migration, NEW k \in CleanupRequest,
           CleanupChecks(m, k) \/ CleanupProceeds(m, k)
    PROVE  Rest'
<1> USE DEF Inv, Rest, CreateComesFirst, PollsBeforeCompletion, SeenWasReal, StatusHonest,
            ActiveIsWatched, WatcherIsReachable, TypeOK, MigrationKubeTypeOK,
            ServiceTypeOK, Active, Terminal, SetStatus, serviceVars, kubeVars,
            migrationKubeVars, watchVars, CleanupGoes
<1>1. CASE CleanupChecks(m, k)
  BY <1>1 DEF CleanupChecks
<1>2. CASE CleanupDeletesJob(m, k)
  <2>1. \A n \in Migration: jobs'[n] = jobs[n] \/ jobs'[n] = "absent"
    BY <1>2 DEF CleanupDeletesJob, DeleteJob
  <2> QED
    BY <1>2, <2>1 DEF CleanupDeletesJob
<1>3. CASE CleanupDeletesVerificationJob(m, k)
  BY <1>3 DEF CleanupDeletesVerificationJob
<1>4. CASE CleanupDeletesPVC(m, k)
  BY <1>4 DEF CleanupDeletesPVC, DeletePVC
<1> QED
  BY <1>1, <1>2, <1>3, <1>4 DEF CleanupProceeds

\* A poll writes what it read, and what it read was true of the pod once
\* (service.go:184-265).
LEMMA WatchKeeps ==
    ASSUME Inv, NEW m \in Migration, WatchStepOf(m)
    PROVE  Rest'
<1> USE DEF Inv, Rest, CreateComesFirst, PollsBeforeCompletion, SeenWasReal, StatusHonest,
            ActiveIsWatched, WatcherIsReachable, TypeOK, MigrationKubeTypeOK,
            ServiceTypeOK, Active, Terminal, SetStatus, serviceVars, kubeVars,
            migrationKubeVars, handlerVars, WatchGoes
<1>1. CASE WatchTicks(m)
  BY <1>1 DEF WatchTicks
<1>2. CASE WatchStops(m)
  BY <1>2 DEF WatchStops
<1>3. CASE PollGetsJob(m)
  BY <1>3 DEF PollGetsJob
<1>4. CASE PollFindsNoJob(m)
  BY <1>4 DEF PollFindsNoJob
<1>5. CASE PollReadsLogs(m)
  BY <1>5 DEF PollReadsLogs, LoggedPhases
<1>6. CASE PollWrites(m)
  BY <1>6 DEF PollWrites, PolledStatus, NothingSeen
<1>7. CASE WatchChecks(m)
  BY <1>7 DEF WatchChecks
<1> QED
  BY <1>1, <1>2, <1>3, <1>4, <1>5, <1>6, <1>7 DEF WatchStepOf, WatchProceeds

\* The Job and its pod only add to what the pod has been through, and record
\* an end that happened (client.go:94-182).
LEMMA JobKeeps ==
    ASSUME Inv, NEW m \in Migration, JobStep(m) \/ JobIsRemoved(m)
    PROVE  Rest'
<1> USE DEF Inv, Rest, CreateComesFirst, PollsBeforeCompletion, SeenWasReal, StatusHonest,
            ActiveIsWatched, WatcherIsReachable, TypeOK, MigrationKubeTypeOK,
            ServiceTypeOK, Active, Terminal, SetStatus, serviceVars, kubeVars,
            migrationKubeVars, JobStep, JobIsRemoved, migrationVars,
            handlerVars, watchVars
<1>1. CASE PodStarts(m)
  BY <1>1 DEF PodStarts
<1>2. CASE PodProgresses(m)
  BY <1>2 DEF PodProgresses, PodSuccessors
<1>3. CASE JobEnds(m)
  BY <1>3 DEF JobEnds
<1>4. CASE JobExpires(m)
  BY <1>4 DEF JobExpires
<1>5. CASE PodCollected(m)
  BY <1>5 DEF PodCollected
<1> QED
  BY <1>1, <1>2, <1>3, <1>4, <1>5 DEF MigrationKubeStep, JobStep, JobIsRemoved

\* So the rest of the invariant survives every step, the crash included.
LEMMA RestStep == Inv /\ [Next]_vars => Rest'
<1> SUFFICES ASSUME Inv, [Next]_vars PROVE Rest'
  OBVIOUS
<1> USE DEF Inv, Rest, CreateComesFirst, PollsBeforeCompletion, SeenWasReal,
            StatusHonest, ActiveIsWatched, WatcherIsReachable, Active,
            migrationKubeVars, migrationVars, handlerVars, watchVars
<1>1. ASSUME NEW m \in Migration, RequestStep(m) PROVE Rest'
  BY <1>1, CreateKeeps, CancelKeeps, CleanupKeeps DEF RequestStep
<1>2. ASSUME NEW m \in Migration, AutoVerifyRuns(m) PROVE Rest'
  BY <1>2 DEF AutoVerifyRuns, kubeVars
<1>3. CASE ServerCrash
  BY <1>3 DEF ServerCrash, MigrationCrash, ServiceCrash, NothingSeen, kubeVars
<1>4. CASE UNCHANGED vars
  BY <1>4 DEF vars
<1> QED
  BY <1>1, <1>2, <1>3, <1>4, WatchKeeps, JobKeeps DEF Next

-----------------------------------------------------------------------------
(* The theorems.                                                           *)

\* The inductive invariant holds throughout: Create, Cancel, Cleanup, polls,
\* the Job's life and crashes all keep it.
THEOREM Invariance == Spec => []Inv
<1>1. Inv /\ [Next]_vars => Inv'
  BY TypesStep, RestStep DEF Inv
<1> QED
  BY InitInv, <1>1, PTL DEF Spec

\* Every variable of service.go's component keeps its type.
THEOREM TypeCorrectness == Spec => []TypeOK
<1>1. Inv => TypeOK
  BY DEF Inv
<1> QED
  BY Invariance, <1>1, PTL

\* No status a poll or Create wrote was made up (service.go:218-255).
THEOREM Honesty == Spec => []StatusHonest
<1>1. Inv => StatusHonest
  BY DEF Inv, Rest
<1> QED
  BY Invariance, <1>1, PTL

\* No migration is left active without a goroutine, unless a Cancel stopped it
\* (service.go:112-121, 196-199).
THEOREM Watching == Spec => []ActiveIsWatched
<1>1. Inv => ActiveIsWatched
  BY DEF Inv, Rest
<1> QED
  BY Invariance, <1>1, PTL

\* No watcher polls on beyond the reach of Cancel (service.go:119-121, 148-151).
THEOREM Reachability == Spec => []WatcherIsReachable
<1>1. Inv => WatcherIsReachable
  BY DEF Inv, Rest
<1> QED
  BY Invariance, <1>1, PTL

-----------------------------------------------------------------------------
(* "completed" is only ever taken back by a Cancel or a crash.             *)

\* Whoever overwrites "completed" is a Cancel that passed its check before, or
\* the crash: Create is through and the watcher has stopped (service.go:158).
LEMMA CompletedStep ==
    ASSUME Inv, [Next]_vars, NEW m \in Migration, status[m] = "completed"
    PROVE  status'[m] \in {"completed", "cancelled", "absent"}
<1> USE DEF Inv, Rest, CreateComesFirst, PollsBeforeCompletion, TypeOK, ServiceTypeOK,
            SetStatus, serviceVars
<1>1. ASSUME NEW n \in Migration, CreateStores(n) \/ CreateProceeds(n)
      PROVE  status'[m] \in {"completed", "cancelled", "absent"}
  BY <1>1 DEF CreateStores, CreateProceeds, CreatesPVC, CreatesJob, CreateFails,
         CreateStarts, CreateSpawnsWatch, CreateGoes
<1>2. ASSUME NEW n \in Migration, NEW c \in CancelRequest,
             CancelChecks(n, c) \/ CancelProceeds(n, c)
      PROVE  status'[m] \in {"completed", "cancelled", "absent"}
  BY <1>2 DEF CancelChecks, CancelProceeds, CancelSignals, CancelDeletesJob, CancelMarks
<1>3. ASSUME NEW n \in Migration, NEW k \in CleanupRequest,
             CleanupChecks(n, k) \/ CleanupProceeds(n, k)
      PROVE  status'[m] = "completed"
  BY <1>3 DEF CleanupChecks, CleanupProceeds, CleanupDeletesJob,
         CleanupDeletesVerificationJob, CleanupDeletesPVC
<1>4. ASSUME NEW n \in Migration, WatchStepOf(n)
      PROVE  status'[m] = "completed"
  BY <1>4 DEF WatchStepOf, WatchProceeds, WatchTicks, WatchStops, PollGetsJob,
         PollFindsNoJob, PollReadsLogs, PollWrites, WatchChecks, WatchGoes
<1>5. ASSUME NEW n \in Migration, JobStep(n) \/ JobIsRemoved(n) \/ AutoVerifyRuns(n)
      PROVE  status'[m] = "completed"
  BY <1>5 DEF JobStep, JobIsRemoved, AutoVerifyRuns
<1>6. CASE ServerCrash
  BY <1>6 DEF ServerCrash, ServiceCrash
<1>7. CASE UNCHANGED vars
  BY <1>7 DEF vars
<1> QED
  BY <1>1, <1>2, <1>3, <1>4, <1>5, <1>6, <1>7 DEF Next, RequestStep

\* A finished migration is not reopened by a late poll or a late Create
\* (service.go:112-116, 196-199, 223-225).
THEOREM Completion == Spec => CompletedNeverReopens
<1>1. Inv /\ [Next]_vars =>
        [\A m \in Migration: status[m] = "completed" =>
            status'[m] \in {"completed", "cancelled", "absent"}]_vars
  BY CompletedStep
<1> QED
  BY Invariance, <1>1, PTL DEF Spec, CompletedNeverReopens
=============================================================================
