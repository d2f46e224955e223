----------------------- MODULE MigrationLifecycleProofs -----------------------
(***************************************************************************)
(* MigrationService implements MigrationLifecycle, for every set of        *)
(* migrations and of requests.                                             *)
(***************************************************************************)
EXTENDS MigrationServiceProofs

-----------------------------------------------------------------------------
(* What the refinement needs beyond Inv: the Job of a migration is created *)
(* once and its pod has one life.                                          *)

OneLife ==
    \A m \in Migration:
        /\ createPc[m] \in {"idle", "pvc", "job"} =>
                jobs[m] = "absent" /\ pods[m] = "none" /\ history[m] = {}
        /\ jobs[m] = "active" /\ pods[m] = "none" => history[m] = {}
        /\ pods[m] = "dump" => history[m] = {"dump"}
        /\ pods[m] = "restore" => history[m] = {"dump", "restore"}

\* No object of a migration exists before its Create request (service.go:89).
LEMMA InitOneLife == Init => OneLife
  BY DEF Init, KubeInit, MigrationInit, OneLife

\* A pod goes on from its first container to its second, or fails.
LEMMA SuccessorsOfPods ==
    /\ DOMAIN PodSuccessors = {"dump", "restore"}
    /\ PodSuccessors["dump"] = {"restore", "failed"}
    /\ PodSuccessors["restore"] = {"succeeded", "failed"}
  BY DEF PodSuccessors

\* Create makes one Job and everyone else only removes it (service.go:104, 154,
\* 174), so a collected pod is never started again.
LEMMA OneLifeStep == Inv /\ OneLife /\ [Next]_vars => OneLife'
<1> SUFFICES ASSUME Inv, OneLife, [Next]_vars PROVE OneLife'
  OBVIOUS
<1> USE DEF Inv, OneLife, TypeOK, MigrationKubeTypeOK
<1>1. ASSUME NEW m \in Migration, CreateStores(m) \/ CreateProceeds(m)
      PROVE  OneLife'
  <2> USE DEF CreateGoes, kubeVars, migrationKubeVars
  <2>1. CASE CreateStores(m)
    BY <2>1 DEF CreateStores
  <2>2. CASE CreatesPVC(m)
    BY <2>2 DEF CreatesPVC
  <2>3. CASE CreatesJob(m)
    <3>1. \A n \in Migration: n # m => jobs'[n] = jobs[n]
      BY <2>3 DEF CreatesJob, CreateMigrationJob
    <3>2. PICK to \in {"starting", "failing"} :
              createPc[m] = "job" /\ createPc' = [createPc EXCEPT ![m] = to]
      BY <2>3 DEF CreatesJob
    <3>3. UNCHANGED <<pods, history>>
      BY <2>3 DEF CreatesJob
    <3> QED
      BY <3>1, <3>2, <3>3
  <2>4. CASE CreateFails(m) \/ CreateStarts(m) \/ CreateSpawnsWatch(m)
    BY <2>4 DEF CreateFails, CreateStarts, CreateSpawnsWatch
  <2> QED
    BY <1>1, <2>1, <2>2, <2>3, <2>4 DEF CreateProceeds
<1>2. ASSUME UNCHANGED <<createPc, pods, history>>,
             \A n \in Migration: jobs'[n] \in {jobs[n], "absent"}
      PROVE  OneLife'
  BY <1>2
<1>3. ASSUME NEW m \in Migration, NEW c \in CancelRequest,
             CancelChecks(m, c) \/ CancelProceeds(m, c)
      PROVE  OneLife'
  BY <1>2, <1>3 DEF CancelChecks, CancelProceeds, CancelSignals, CancelDeletesJob,
         CancelMarks, DeleteJob, kubeVars, migrationKubeVars
<1>4. ASSUME NEW m \in Migration, NEW k \in CleanupRequest,
             CleanupChecks(m, k) \/ CleanupProceeds(m, k)
      PROVE  OneLife'
  BY <1>2, <1>4 DEF CleanupChecks, CleanupProceeds, CleanupDeletesJob,
         CleanupDeletesVerificationJob, CleanupDeletesPVC, DeleteJob,
         kubeVars, migrationKubeVars
<1>5. ASSUME NEW m \in Migration, WatchStepOf(m) \/ AutoVerifyRuns(m)
      PROVE  OneLife'
  BY <1>2, <1>5 DEF WatchStepOf, WatchProceeds, WatchTicks, WatchStops, PollGetsJob,
         PollFindsNoJob, PollReadsLogs, PollWrites, WatchChecks, AutoVerifyRuns,
         handlerVars, migrationVars, kubeVars, migrationKubeVars
<1>6. ASSUME NEW m \in Migration, JobStep(m) \/ JobIsRemoved(m)
      PROVE  OneLife'
  <2> USE DEF JobStep, JobIsRemoved, migrationVars, handlerVars
  <2>1. CASE PodStarts(m)
    BY <1>6, <2>1 DEF PodStarts
  <2>2. CASE PodProgresses(m)
    <3>1. UNCHANGED <<createPc, jobs>>
      BY <1>6, <2>2 DEF PodProgresses
    <3>2. /\ pods[m] \in {"dump", "restore"}
          /\ PodSuccessors[pods[m]] =
                IF pods[m] = "dump" THEN {"restore", "failed"} ELSE {"succeeded", "failed"}
      BY <2>2, SuccessorsOfPods DEF PodProgresses
    <3>3. PICK next \in PodSuccessors[pods[m]]:
            /\ pods' = [pods EXCEPT ![m] = next]
            /\ history' = [history EXCEPT ![m] = @ \cup {next}]
      BY <2>2 DEF PodProgresses
    <3> QED
      BY <3>1, <3>2, <3>3
  <2>3. CASE JobEnds(m) \/ JobExpires(m) \/ PodCollected(m)
    BY <1>6, <2>3 DEF JobEnds, JobExpires, PodCollected
  <2> QED
    BY <1>6, <2>1, <2>2, <2>3 DEF MigrationKubeStep
<1>7. CASE ServerCrash
  BY <1>7 DEF ServerCrash, MigrationCrash, kubeVars, migrationKubeVars
<1>8. CASE UNCHANGED vars
  BY <1>8 DEF vars, migrationVars, handlerVars, migrationKubeVars
<1> QED
  BY <1>1, <1>3, <1>4, <1>5, <1>6, <1>7, <1>8 DEF Next, RequestStep

-----------------------------------------------------------------------------
(* The refinement, handler by handler.                                     *)

\* An empty store is a life cycle in which nothing was asked for (store.New).
LEMMA InitRefines == Init => Lifecycle!Init
  BY DEF Init, KubeInit, ServiceInit, MigrationInit, Lifecycle!Init, StageOf

\* Service.Create is Accepts, then GivesUp, or Launches and IsWatched; its API
\* calls are stutters (service.go:65-123).
LEMMA CreateRefines ==
    ASSUME Inv, NEW m \in Migration, CreateStores(m) \/ CreateProceeds(m)
    PROVE  [Lifecycle!Next]_(Lifecycle!vars)
<1> USE DEF Inv, Rest, TypeOK, ServiceTypeOK, CreateComesFirst, StageOf, CreateGoes,
            SetStatus, Lifecycle!Next, Lifecycle!Step, Lifecycle!vars,
            Lifecycle!MovesOn, Lifecycle!Shows, kubeVars, migrationKubeVars, watchVars
<1>1. CASE CreateStores(m)
  <2>1. Lifecycle!Accepts(m)
    BY <1>1 DEF CreateStores, Lifecycle!Accepts
  <2> QED
    BY <2>1
<1>2. CASE CreatesPVC(m)
  BY <1>2 DEF CreatesPVC, Lifecycle!vars, serviceVars
<1>3. CASE CreatesJob(m)
  BY <1>3 DEF CreatesJob, Lifecycle!vars, serviceVars
<1>4. CASE CreateFails(m)
  <2>1. Lifecycle!GivesUp(m)
    BY <1>4 DEF CreateFails, Lifecycle!GivesUp
  <2> QED
    BY <2>1
<1>5. CASE CreateStarts(m)
  <2>1. Lifecycle!Launches(m)
    BY <1>5 DEF CreateStarts, Lifecycle!Launches
  <2> QED
    BY <2>1
<1>6. CASE CreateSpawnsWatch(m)
  <2>1. Lifecycle!IsWatched(m)
    BY <1>6 DEF CreateSpawnsWatch, Lifecycle!IsWatched
  <2> QED
    BY <2>1
<1> QED
  BY <1>1, <1>2, <1>3, <1>4, <1>5, <1>6 DEF CreateProceeds

\* Service.Cancel is IsAsked, Tells and IsCancelled; the removal of the Job is a
\* stutter (service.go:138-165).
LEMMA CancelRefines ==
    ASSUME Inv, NEW m \in Migration, NEW c \in CancelRequest,
           CancelChecks(m, c) \/ CancelProceeds(m, c)
    PROVE  [Lifecycle!Next]_(Lifecycle!vars)
<1> USE DEF Inv, TypeOK, ServiceTypeOK, CancelGoes, SetStatus, Lifecycle!Next,
            Lifecycle!Step, Lifecycle!vars, Lifecycle!Shows, kubeVars,
            migrationKubeVars, serviceVars, watchVars
<1>1. CASE CancelChecks(m, c)
  <2>1. Lifecycle!IsAsked(m)
    BY <1>1 DEF CancelChecks, Lifecycle!IsAsked, Active, Lifecycle!Underway
  <2> QED
    BY <2>1
<1>2. CASE CancelSignals(m, c)
  <2>1. {n \in Migration: \E d \in CancelRequest: cancelPc[n][d] # "idle"}'
            = {n \in Migration: \E d \in CancelRequest: cancelPc[n][d] # "idle"}
    BY <1>2 DEF CancelSignals
  <2>2. CASE m \in cancelFn
    <3>1. Lifecycle!Tells(m)
      BY <1>2, <2>1, <2>2 DEF CancelSignals, Lifecycle!Tells
    <3> QED
      BY <3>1
  <2>3. CASE m \notin cancelFn
    BY <1>2, <2>1, <2>3 DEF CancelSignals
  <2> QED
    BY <2>2, <2>3
<1>3. CASE CancelDeletesJob(m, c)
  BY <1>3 DEF CancelDeletesJob
<1>4. CASE CancelMarks(m, c)
  <2>1. Lifecycle!IsCancelled(m)
    BY <1>4 DEF CancelMarks, Lifecycle!IsCancelled
  <2> QED
    BY <2>1
<1> QED
  BY <1>1, <1>2, <1>3, <1>4 DEF CancelProceeds

\* Service.Cleanup changes nothing the life cycle speaks of
\* (service.go:167-182), and neither does the start of the verification.
LEMMA CleanupRefines ==
    ASSUME NEW m \in Migration,
           \/ AutoVerifyRuns(m)
           \/ \E k \in CleanupRequest: CleanupChecks(m, k) \/ CleanupProceeds(m, k)
    PROVE  UNCHANGED Lifecycle!vars
  BY DEF CleanupChecks, CleanupProceeds, CleanupDeletesJob,
         CleanupDeletesVerificationJob, CleanupDeletesPVC, AutoVerifyRuns,
         kubeVars, migrationKubeVars, serviceVars, watchVars, migrationVars,
         handlerVars, Lifecycle!vars

\* The goroutine watch is Reports and Leaves; its reads are stutters
\* (service.go:184-265).
LEMMA WatchRefines ==
    ASSUME Inv, NEW m \in Migration, WatchStepOf(m)
    PROVE  [Lifecycle!Next]_(Lifecycle!vars)
<1> USE DEF Inv, Rest, TypeOK, ServiceTypeOK, CreateComesFirst, StageOf, WatchGoes,
            SetStatus, Lifecycle!Next, Lifecycle!Step, Lifecycle!vars,
            Lifecycle!MovesOn, Lifecycle!Shows, kubeVars, migrationKubeVars,
            handlerVars, serviceVars
<1>1. CASE WatchTicks(m) \/ PollGetsJob(m) \/ PollFindsNoJob(m) \/ PollReadsLogs(m)
  BY <1>1 DEF WatchTicks, PollGetsJob, PollFindsNoJob, PollReadsLogs
<1>2. CASE WatchStops(m)
  <2>1. Lifecycle!Leaves(m)
    BY <1>2 DEF WatchStops, Lifecycle!Leaves
  <2> QED
    BY <2>1
<1>3. CASE PollWrites(m)
  <2>1. status[m] # "completed"
    BY <1>3 DEF PollWrites, PollsBeforeCompletion
  <2>2. StageOf(createPc[m], watchPc[m]) = "watched"
    BY <1>3 DEF PollWrites
  <2>3. PICK s \in DOMAIN Lifecycle!Grounds:
            Lifecycle!Grounds[s] \subseteq history[m] /\ Lifecycle!Shows(m, s)
    BY <1>3 DEF PollWrites, PolledStatus, SeenWasReal, Lifecycle!Grounds
  <2>4. Lifecycle!Reports(m)
    BY <1>3, <2>1, <2>2, <2>3 DEF PollWrites, Lifecycle!Reports
  <2> QED
    BY <2>4
<1>4. CASE WatchChecks(m)
  <2>1. CASE status[m] \in Terminal
    <3>1. Lifecycle!Leaves(m)
      BY <1>4, <2>1 DEF WatchChecks, Terminal, Lifecycle!Leaves, Lifecycle!Over
    <3> QED
      BY <3>1
  <2>2. CASE status[m] \notin Terminal
    BY <1>4, <2>2 DEF WatchChecks
  <2> QED
    BY <2>1, <2>2
<1> QED
  BY <1>1, <1>2, <1>3, <1>4 DEF WatchStepOf, WatchProceeds

\* The pod's progress is Works; what the controllers record or remove are
\* stutters (client.go:137-164).
LEMMA JobRefines ==
    ASSUME Inv, OneLife, NEW m \in Migration, JobStep(m) \/ JobIsRemoved(m)
    PROVE  [Lifecycle!Next]_(Lifecycle!vars)
<1> USE DEF Inv, TypeOK, MigrationKubeTypeOK, OneLife, JobStep, JobIsRemoved,
            serviceVars, migrationVars, handlerVars, watchVars
<1>1. CASE JobEnds(m) \/ JobExpires(m) \/ PodCollected(m)
  BY <1>1 DEF JobEnds, JobExpires, PodCollected, Lifecycle!vars
<1>2. CASE PodStarts(m)
  <2>1. Lifecycle!Works(m)
    BY <1>2 DEF PodStarts, Lifecycle!Works, Lifecycle!Follows
  <2> QED
    BY <2>1 DEF Lifecycle!Next, Lifecycle!Step
<1>3. CASE PodProgresses(m)
  <2>1. PICK next \in PodSuccessors[pods[m]] :
            history' = [history EXCEPT ![m] = @ \cup {next}]
    BY <1>3 DEF PodProgresses
  <2>2. \/ pods[m] = "dump" /\ next \in {"restore", "failed"}
        \/ pods[m] = "restore" /\ next \in {"succeeded", "failed"}
    BY <1>3, <2>1 DEF PodProgresses, PodSuccessors
  <2>3. \/ history[m] = {"dump"} /\ next \in {"restore", "failed"}
        \/ history[m] = {"dump", "restore"} /\ next \in {"succeeded", "failed"}
    BY <2>2
  <2>4. next \in DOMAIN Lifecycle!Follows
    BY <2>3 DEF Lifecycle!Follows
  <2>5. Lifecycle!Follows[next] \subseteq history[m]
    BY <2>3 DEF Lifecycle!Follows
  <2>6. history[m] \cap {next, "succeeded", "failed"} = {}
    BY <2>3
  <2>7. UNCHANGED <<status, createPc, watchPc, cancelPc, ctxDone>>
    BY <1>3 DEF PodProgresses
  <2>8. Lifecycle!Works(m)
    <3>1. UNCHANGED <<status,
                      [n \in Migration |-> StageOf(createPc[n], watchPc[n])],
                      {n \in Migration: \E c \in CancelRequest: cancelPc[n][c] # "idle"},
                      ctxDone>>
      BY <2>7
    <3>2. \E nx \in DOMAIN Lifecycle!Follows:
            /\ Lifecycle!Follows[nx] \subseteq history[m]
            /\ history[m] \cap {nx, "succeeded", "failed"} = {}
            /\ history' = [history EXCEPT ![m] = @ \cup {nx}]
      BY <2>1, <2>4, <2>5, <2>6, Zenon
    <3> QED
      BY <3>1, <3>2, Zenon DEF Lifecycle!Works
  <2> QED
    BY <2>8 DEF Lifecycle!Next, Lifecycle!Step
<1> QED
  BY <1>1, <1>2, <1>3 DEF MigrationKubeStep

\* A crash is Restarts: only requests that were never made stay new
\* (service.go:25-32).
LEMMA CrashRefines == TypeOK /\ ServerCrash => Lifecycle!Restarts
  BY DEF TypeOK, ServerCrash, MigrationCrash, ServiceCrash, kubeVars,
         migrationKubeVars, StageOf, CreateStep, Lifecycle!Restarts

-----------------------------------------------------------------------------
\* Everything service.go does to a migration is a step of its life cycle, or
\* shows nothing of itself (service.go:65-265).
THEOREM Refinement == Spec => Implements
<1>1. ASSUME Inv, OneLife, Next PROVE [Lifecycle!Next]_(Lifecycle!vars)
  BY <1>1, CreateRefines, CancelRefines, CleanupRefines, WatchRefines, JobRefines,
     CrashRefines DEF Next, RequestStep, Inv, Lifecycle!Next
<1>2. ASSUME UNCHANGED vars PROVE UNCHANGED Lifecycle!vars
  BY <1>2 DEF vars, migrationVars, handlerVars, watchVars, migrationKubeVars, Lifecycle!vars
<1>3. Inv /\ OneLife /\ [Next]_vars => [Lifecycle!Next]_(Lifecycle!vars)
  BY <1>1, <1>2
<1> QED
  BY <1>3, InitRefines, InitOneLife, OneLifeStep, Invariance, PTL
     DEF Spec, Implements, Lifecycle!Spec
=============================================================================
