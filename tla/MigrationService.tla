-------------------------- MODULE MigrationService --------------------------
(***************************************************************************)
(* service.go: Create, Cancel, Cleanup and the goroutine watch, against    *)
(* the cluster of module Kubernetes.                                       *)
(*                                                                         *)
(* Every handler runs in a goroutine of its own and takes no lock, so it   *)
(* may stop between any two accesses to the shared record, to s.cancel or  *)
(* to the cluster.  Each such access is one step, and a pc says which one  *)
(* comes next.                                                             *)
(***************************************************************************)
EXTENDS ServiceState

CONSTANTS
    CancelRequest,  \* POST /migrations/{id}/cancel requests one id may get
    CleanupRequest  \* DELETE /migrations/{id}/resources requests

VARIABLES
    createPc,       \* where the Create request of a migration stands
    cancelPc,       \* the same for each of its Cancel requests
    cleanupPc,      \* and each of its Cleanup requests
    watchPc,        \* the goroutine watch; "none" before it is started
    ctxDone,        \* migrations whose watchCtx is cancelled
    seen            \* the locals job and phase of a poll in progress

handlerVars == <<createPc, cancelPc, cleanupPc>>
watchVars == <<watchPc, ctxDone, seen>>
migrationVars == <<handlerVars, watchVars>>
\* What this component reads or writes.  The rest of the shared state belongs
\* to verify.go: here it only moves with a Cleanup or a crash.
vars == <<status, cancelFn, autoVerify, migrationKubeVars, migrationVars>>

CreateStep == {"idle", "pvc", "job", "failing", "starting", "spawning", "done"}
CancelStep == {"idle", "signal", "delete", "mark"}
CleanupStep == {"idle", "job", "verify", "pvc"}
WatchStep == {"none", "select", "getJob", "getLogs", "write", "check", "exited"}
Phase == {"pending", "dump", "restore"}

NothingSeen == [job |-> "absent", phase |-> "pending"]

TypeOK ==
    /\ MigrationKubeTypeOK
    /\ ServiceTypeOK
    /\ cancelFn \subseteq Migration
    /\ createPc \in [Migration -> CreateStep]
    /\ cancelPc \in [Migration -> [CancelRequest -> CancelStep]]
    /\ cleanupPc \in [Migration -> [CleanupRequest -> CleanupStep]]
    /\ watchPc \in [Migration -> WatchStep]
    /\ ctxDone \subseteq Migration
    /\ seen \in [Migration -> [job : JobState, phase : Phase]]

MigrationInit ==
    /\ createPc = [m \in Migration |-> "idle"]
    /\ cancelPc = [m \in Migration |-> [c \in CancelRequest |-> "idle"]]
    /\ cleanupPc = [m \in Migration |-> [k \in CleanupRequest |-> "idle"]]
    /\ watchPc = [m \in Migration |-> "none"]
    /\ ctxDone = {}
    /\ seen = [m \in Migration |-> NothingSeen]

Init == KubeInit /\ ServiceInit /\ MigrationInit

-----------------------------------------------------------------------------
(* Service.Create, after validateRequest and resolveImage have passed (a   *)
(* request they refuse leaves no trace).                                   *)

CreateGoes(m, from, to) ==
    createPc[m] = from /\ createPc' = [createPc EXCEPT ![m] = to]

\* store.Create: from here on List shows the id, so others can act on it.
CreateStores(m) ==
    /\ CreateGoes(m, "idle", "pvc")
    /\ SetStatus(m, "pending")
    /\ UNCHANGED <<verification, cancelFn, verifyCancelFn, autoVerify,
                   kubeVars, cancelPc, cleanupPc, watchVars>>

CreatesPVC(m) ==
    /\ \E ok \in BOOLEAN:
        /\ CreatePVC(m, ok)
        /\ CreateGoes(m, "pvc", IF ok THEN "job" ELSE "failing")
    /\ UNCHANGED <<jobs, pods, history, verificationKubeVars, serviceVars,
                   cancelPc, cleanupPc, watchVars>>

\* Mutation: the watcher is started as soon as there is a Job to watch.
CreatesJobAndWatches(m) ==
    /\ \E ok \in BOOLEAN:
        /\ CreateMigrationJob(m, ok)
        /\ CreateGoes(m, "job", IF ok THEN "starting" ELSE "failing")
        /\ watchPc' = [watchPc EXCEPT ![m] = IF ok THEN "select" ELSE @]
    /\ UNCHANGED <<pvcs, pods, history, verificationKubeVars, serviceVars,
                   cancelPc, cleanupPc, ctxDone, seen>>

CreatesJob(m) ==
    /\ \E ok \in BOOLEAN:
        /\ CreateMigrationJob(m, ok)
        /\ CreateGoes(m, "job", IF ok THEN "starting" ELSE "failing")
    /\ UNCHANGED <<pvcs, pods, history, verificationKubeVars, serviceVars,
                   cancelPc, cleanupPc, watchVars>>

\* The PVC, and the Job of a call whose answer was lost, stay where they are.
CreateFails(m) ==
    /\ CreateGoes(m, "failing", "done")
    /\ SetStatus(m, "failed")
    /\ UNCHANGED <<verification, cancelFn, verifyCancelFn, autoVerify,
                   kubeVars, cancelPc, cleanupPc, watchVars>>

\* Written whatever the status has become since store.Create.
CreateStarts(m) ==
    /\ CreateGoes(m, "starting", "spawning")
    /\ SetStatus(m, "dumping")
    /\ UNCHANGED <<verification, cancelFn, verifyCancelFn, autoVerify,
                   kubeVars, cancelPc, cleanupPc, watchVars>>

\* s.cancel[id] = cancel; go s.watch(watchCtx, id)
CreateSpawnsWatch(m) ==
    /\ CreateGoes(m, "spawning", "done")
    /\ cancelFn' = cancelFn \cup {m}
    /\ watchPc' = [watchPc EXCEPT ![m] = "select"]
    /\ UNCHANGED <<status, verification, verifyCancelFn, autoVerify, kubeVars,
                   cancelPc, cleanupPc, ctxDone, seen>>

CreateProceeds(m) ==
    \/ CreatesPVC(m) \/ CreatesJob(m) \/ CreateFails(m)
    \/ CreateStarts(m) \/ CreateSpawnsWatch(m)

-----------------------------------------------------------------------------
(* Service.Cancel                                                          *)

CancelGoes(m, c, from, to) ==
    cancelPc[m][c] = from /\ cancelPc' = [cancelPc EXCEPT ![m][c] = to]

\* Mutation: the early return is missing.
CancelsAnything(m, c) ==
    /\ Stored(m)
    /\ CancelGoes(m, c, "idle", "signal")
    /\ UNCHANGED <<serviceVars, kubeVars, createPc, cleanupPc, watchVars>>

\* Store.Get and the early return for a migration that has ended.
CancelChecks(m, c) ==
    /\ status[m] \in Active
    /\ CancelGoes(m, c, "idle", "signal")
    /\ UNCHANGED <<serviceVars, kubeVars, createPc, cleanupPc, watchVars>>

\* Mutation: the entry is removed and never called.
CancelForgets(m, c) ==
    /\ CancelGoes(m, c, "signal", "delete")
    /\ cancelFn' = cancelFn \ {m}
    /\ UNCHANGED <<status, verification, verifyCancelFn, autoVerify, kubeVars,
                   createPc, cleanupPc, watchVars>>

\* cancel(); delete(s.cancel, id), if there is an entry.
CancelSignals(m, c) ==
    /\ CancelGoes(m, c, "signal", "delete")
    /\ ctxDone' = ctxDone \cup ({m} \cap cancelFn)
    /\ cancelFn' = cancelFn \ {m}
    /\ UNCHANGED <<status, verification, verifyCancelFn, autoVerify, kubeVars,
                   createPc, cleanupPc, watchPc, seen>>

CancelDeletesJob(m, c) ==
    /\ CancelGoes(m, c, "delete", "mark")
    /\ DeleteJob(m)
    /\ UNCHANGED <<pvcs, pods, history, verificationKubeVars, serviceVars,
                   createPc, cleanupPc, watchVars>>

CancelMarks(m, c) ==
    /\ CancelGoes(m, c, "mark", "idle")
    /\ SetStatus(m, "cancelled")
    /\ UNCHANGED <<verification, cancelFn, verifyCancelFn, autoVerify,
                   kubeVars, createPc, cleanupPc, watchVars>>

CancelProceeds(m, c) ==
    CancelSignals(m, c) \/ CancelDeletesJob(m, c) \/ CancelMarks(m, c)

-----------------------------------------------------------------------------
(* Service.Cleanup: no look at the status, no error looked at, and the     *)
(* watchers are not told.                                                  *)

CleanupGoes(m, k, from, to) ==
    cleanupPc[m][k] = from /\ cleanupPc' = [cleanupPc EXCEPT ![m][k] = to]

CleanupChecks(m, k) ==
    /\ Stored(m)
    /\ CleanupGoes(m, k, "idle", "job")
    /\ UNCHANGED <<serviceVars, kubeVars, createPc, cancelPc, watchVars>>

CleanupDeletesJob(m, k) ==
    /\ CleanupGoes(m, k, "job", "verify")
    /\ DeleteJob(m)
    /\ UNCHANGED <<pvcs, pods, history, verificationKubeVars, serviceVars,
                   createPc, cancelPc, watchVars>>

CleanupDeletesVerificationJob(m, k) ==
    /\ CleanupGoes(m, k, "verify", "pvc")
    /\ DeleteVerificationJob(m)
    /\ UNCHANGED <<migrationKubeVars, everMatched, serviceVars,
                   createPc, cancelPc, watchVars>>

CleanupDeletesPVC(m, k) ==
    /\ CleanupGoes(m, k, "pvc", "idle")
    /\ DeletePVC(m)
    /\ UNCHANGED <<jobs, pods, history, verificationKubeVars, serviceVars,
                   createPc, cancelPc, watchVars>>

CleanupProceeds(m, k) ==
    \/ CleanupDeletesJob(m, k)
    \/ CleanupDeletesVerificationJob(m, k)
    \/ CleanupDeletesPVC(m, k)

-----------------------------------------------------------------------------
(* The goroutine watch and the poll it makes at every tick.                *)

WatchGoes(m, from, to) ==
    watchPc[m] = from /\ watchPc' = [watchPc EXCEPT ![m] = to]

\* <-ticker.C.  A select with two ready cases may take this one although the
\* context is done.
WatchTicks(m) ==
    /\ WatchGoes(m, "select", "getJob")
    /\ UNCHANGED <<serviceVars, kubeVars, handlerVars, ctxDone, seen>>

\* Mutation: break leaves the select, not the loop.
WatchBreaks(m) ==
    /\ m \in ctxDone
    /\ WatchGoes(m, "select", "select")
    /\ UNCHANGED <<serviceVars, kubeVars, handlerVars, ctxDone, seen>>

\* <-ctx.Done()
WatchStops(m) ==
    /\ m \in ctxDone
    /\ WatchGoes(m, "select", "exited")
    /\ UNCHANGED <<serviceVars, kubeVars, handlerVars, ctxDone, seen>>

PollGetsJob(m) ==
    /\ m \notin ctxDone
    /\ jobs[m] # "absent"
    /\ WatchGoes(m, "getJob", "getLogs")
    /\ seen' = [seen EXCEPT ![m].job = jobs[m]]
    /\ UNCHANGED <<serviceVars, kubeVars, handlerVars, ctxDone>>

\* Mutation: an error of the poll ends the watcher.
PollGivesUp(m) ==
    /\ WatchGoes(m, "getJob", "exited")
    /\ UNCHANGED <<serviceVars, kubeVars, handlerVars, ctxDone, seen>>

\* Not found, a done context and a passing outage all end in `continue`.
PollFindsNoJob(m) ==
    /\ WatchGoes(m, "getJob", "select")
    /\ UNCHANGED <<serviceVars, kubeVars, handlerVars, ctxDone, seen>>

PollReadsLogs(m) ==
    /\ WatchGoes(m, "getLogs", "write")
    /\ \E phase \in IF m \in ctxDone THEN {"pending"} ELSE LoggedPhases(m):
            seen' = [seen EXCEPT ![m].phase = phase]
    /\ UNCHANGED <<serviceVars, kubeVars, handlerVars, ctxDone>>

\* Mutation: the phase is taken for a status.
PhaseAsStatus(job, phase) ==
    CASE job = "succeeded" -> "completed"
      [] job = "failed" -> "failed"
      [] OTHER -> phase

\* Mutation: a Job that has ended has done its work.
EndedIsCompleted(job, phase) ==
    IF job = "active"
    THEN IF phase = "restore" THEN "restoring" ELSE "dumping"
    ELSE "completed"

\* The status a poll writes for a Job and a phase.
PolledStatus(job, phase) ==
    CASE job = "succeeded" -> "completed"
      [] job = "failed" -> "failed"
      [] OTHER -> IF phase = "restore" THEN "restoring" ELSE "dumping"

PollWrites(m) ==
    LET new == PolledStatus(seen[m].job, seen[m].phase) IN
    /\ WatchGoes(m, "write", "check")
    /\ SetStatus(m, new)
    /\ autoVerify' = IF new = "completed" /\ status[m] # "completed"
                     THEN autoVerify \cup {m} ELSE autoVerify
    /\ seen' = [seen EXCEPT ![m] = NothingSeen]
    /\ UNCHANGED <<verification, cancelFn, verifyCancelFn, kubeVars,
                   handlerVars, ctxDone>>

\* The status is read again after the poll; s.cancel keeps the entry.
WatchChecks(m) ==
    /\ WatchGoes(m, "check", IF status[m] \in Terminal THEN "exited" ELSE "select")
    /\ UNCHANGED <<serviceVars, kubeVars, handlerVars, ctxDone, seen>>

WatchProceeds(m) ==
    \/ WatchTicks(m) \/ PollFindsNoJob(m) \/ PollReadsLogs(m)
    \/ PollWrites(m) \/ WatchChecks(m)

-----------------------------------------------------------------------------
\* See ServiceCrash: what the goroutines of this module were doing is lost.
MigrationCrash ==
    /\ createPc' = [m \in Migration |->
                       IF createPc[m] = "idle" THEN "idle" ELSE "done"]
    /\ cancelPc' = [m \in Migration |-> [c \in CancelRequest |-> "idle"]]
    /\ cleanupPc' = [m \in Migration |-> [k \in CleanupRequest |-> "idle"]]
    /\ watchPc' = [m \in Migration |-> "none"]
    /\ ctxDone' = {}
    /\ seen' = [m \in Migration |-> NothingSeen]

ServerCrash ==
    /\ \E m \in Migration: createPc[m] # "idle"
    /\ MigrationCrash
    /\ ServiceCrash
    /\ UNCHANGED kubeVars

RequestStep(m) ==
    \/ CreateStores(m)
    \/ CreateProceeds(m)
    \/ \E c \in CancelRequest: CancelChecks(m, c) \/ CancelProceeds(m, c)
    \/ \E k \in CleanupRequest: CleanupChecks(m, k) \/ CleanupProceeds(m, k)

WatchStepOf(m) == WatchStops(m) \/ PollGetsJob(m) \/ WatchProceeds(m)

JobStep(m) ==
    /\ MigrationKubeStep(m)
    /\ UNCHANGED <<verificationKubeVars, serviceVars, migrationVars>>

JobIsRemoved(m) ==
    /\ JobExpires(m)
    /\ TTLOutlastsPolling =>
        watchPc[m] \in {"none", "exited"} /\ createPc[m] \notin {"starting", "spawning"}
    /\ UNCHANGED <<verificationKubeVars, serviceVars, migrationVars>>

\* Environment: `go triggerVerificationIfNeeded` gets to run (verify.go:74).
AutoVerifyRuns(m) ==
    /\ m \in autoVerify
    /\ autoVerify' = autoVerify \ {m}
    /\ UNCHANGED <<status, verification, cancelFn, verifyCancelFn, kubeVars,
                   migrationVars>>

Next ==
    \/ \E m \in Migration:
        \/ RequestStep(m) \/ WatchStepOf(m)
        \/ JobStep(m) \/ JobIsRemoved(m) \/ AutoVerifyRuns(m)
    \/ ServerCrash

Spec == Init /\ [][Next]_vars

-----------------------------------------------------------------------------
(* Fairness.  A goroutine that can take its next step takes it; the        *)
(* API server answers some of the calls that keep being made; a select     *)
(* whose ctx.Done() stays ready takes that case at some tick; the cluster  *)
(* schedules a pod that can be scheduled and the pod ends.  Nothing makes  *)
(* a client send a request, a TTL pass or the server crash.                *)
Fairness(m) ==
    /\ WF_vars(CreateProceeds(m))
    /\ \A c \in CancelRequest: WF_vars(CancelProceeds(m, c))
    /\ \A k \in CleanupRequest: WF_vars(CleanupProceeds(m, k))
    /\ WF_vars(WatchProceeds(m))
    /\ SF_vars(WatchStops(m))
    /\ SF_vars(PollGetsJob(m))
    /\ WF_vars(JobStep(m))

FairSpec == Spec /\ \A m \in Migration: Fairness(m)

-----------------------------------------------------------------------------
(* What the service promises.                                              *)

\* A status the poller or Create wrote is backed by something the migration
\* pod really did: no "completed" without a restore that ended well, no
\* "restoring" before the dump container is through, and once the watcher
\* runs no "failed" without a failed pod, across stale polls, lost answers,
\* removed Jobs and restarts (service.go:218-255).
StatusHonest ==
    \A m \in Migration:
        /\ status[m] = "completed" => "succeeded" \in history[m]
        /\ status[m] = "restoring" => "restore" \in history[m]
        /\ status[m] = "failed" /\ watchPc[m] # "none" => "failed" \in history[m]

\* A migration shown as active after its Create request is through has a
\* goroutine that will poll again, unless a Cancel stopped that goroutine:
\* the status is written before the watcher starts, and the watcher leaves
\* only at a status it will not see change (service.go:112-121, 196-199).
ActiveIsWatched ==
    \A m \in Migration:
        createPc[m] = "done" /\ status[m] \in Active =>
            watchPc[m] \notin {"none", "exited"} \/ m \in ctxDone

\* A watcher that polls on can still be stopped: whatever requests for the
\* same id did between its registration and its end, the entry in s.cancel is
\* only taken out by whoever calls it (service.go:119-121, 148-151).
WatcherIsReachable ==
    \A m \in Migration:
        watchPc[m] \notin {"none", "exited"} => m \in cancelFn \/ m \in ctxDone

\* A finished migration is not reopened by a late poll or a late Create:
\* "completed" can only be overwritten by a Cancel that had passed its check
\* before, and that shows as "cancelled" (service.go:144, 158, 225).
CompletedNeverReopens ==
    [][\A m \in Migration: status[m] = "completed" =>
            status'[m] \in {"completed", "cancelled", "absent"}]_vars

\* A migration does not stay active for ever, unless somebody took away what
\* the poller needs: a Cancel its context or the Job, a Cleanup the Job or the
\* PVC of a waiting pod, or an outage longer than the TTL the Job
\* (service.go:184-202, config.go:61).
Settles ==
    \A m \in Migration:
        status[m] \in Active ~>
            \/ status[m] \notin Active
            \/ m \in ctxDone
            \/ watchPc[m] \in {"select", "getJob"} /\ (jobs[m] = "absent" \/ m \notin pvcs)

\* A cancelled watcher goroutine ends, although its select may keep choosing
\* the ticker and a poll may still be under way (service.go:188-200).
WatcherEnds ==
    \A m \in Migration: m \in ctxDone ~> watchPc[m] \in {"none", "exited"}

-----------------------------------------------------------------------------
(* The service implements MigrationLifecycle.                              *)

StageOf(create, watch) ==
    CASE create = "idle" -> "new"
      [] create = "spawning" -> "launched"
      [] create = "done" -> IF watch \in {"none", "exited"} THEN "left" ELSE "watched"
      [] OTHER -> "creating"

Lifecycle == INSTANCE MigrationLifecycle WITH
    shown <- status,
    did <- history,
    stage <- [m \in Migration |-> StageOf(createPc[m], watchPc[m])],
    asked <- {m \in Migration: \E c \in CancelRequest: cancelPc[m][c] # "idle"},
    told <- ctxDone

\* Every status a client can read is one the life cycle allows at that point:
\* reports have their grounds in the one life of the pod, only what is under
\* way can be cancelled, and the watcher leaves only what is over or cancelled
\* (service.go:65-123, 138-165, 184-265).
Implements == Lifecycle!Spec

-----------------------------------------------------------------------------
(* What the README says of Cancel, and the code does not keep.             *)

\* README "Cancel migration", and watch itself counts "cancelled" among the states
\* a migration ends in (service.go:144, 197): once its Create has returned, a
\* migration that was cancelled stays cancelled.
CancelIsFinal ==
    [][\A m \in Migration: createPc[m] = "done" /\ status[m] = "cancelled" =>
            status'[m] \in {"cancelled", "absent"}]_vars
=============================================================================
