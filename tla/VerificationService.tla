------------------------- MODULE VerificationService -------------------------
(***************************************************************************)
(* verify.go: StartVerification, called by a request or by the goroutine   *)
(* triggerVerificationIfNeeded, and the goroutine watchVerification.       *)
(*                                                                         *)
(* As in MigrationService a handler may stop between any two accesses to   *)
(* shared state.  Several StartVerification calls for one id may be under  *)
(* way together, and so may several watchers.                              *)
(***************************************************************************)
EXTENDS ServiceState

CONSTANTS
    VerifyRequest,  \* POST /migrations/{id}/verify requests one id may get
    Automatic       \* the caller triggerVerificationIfNeeded

ASSUME AutoAssumption == Automatic \notin VerifyRequest

Caller == VerifyRequest \cup {Automatic}

VARIABLES
    startPc,        \* where each caller of StartVerification stands
    vwatchPc,       \* the goroutines watchVerification of a migration
    vctxDone,       \* those whose watchCtx is cancelled
    vseen,          \* the locals job and logs of a poll in progress
    overlapped      \* history: ids with two StartVerification calls past the
                    \* check at once, since the server started

startVars == <<startPc, overlapped>>
verificationVars == <<startVars, vwatchPc, vctxDone, vseen>>
\* What this component reads or writes; see MigrationService for the rest.
vars == <<status, verification, verifyCancelFn, autoVerify,
          verificationKubeVars, verificationVars>>

StartStep == {"idle", "triggered", "delete", "mark", "create", "failing", "register"}
VWatchStep == {"none", "select", "getJob", "getLogs", "write", "release"}

NothingSeen == [job |-> "absent", logs |-> "none"]

TypeOK ==
    /\ VerificationKubeTypeOK
    /\ ServiceTypeOK
    /\ verification \in [Migration -> VerificationStatus \cup {"none"}]
    /\ verifyCancelFn \in [Migration -> Watcher \cup {NoWatcher}]
    /\ startPc \in [Migration -> [Caller -> StartStep]]
    /\ vwatchPc \in [Migration -> [Watcher -> VWatchStep]]
    /\ vctxDone \in [Migration -> SUBSET Watcher]
    /\ vseen \in [Migration -> [Watcher -> [job : JobState, logs : VPodState]]]
    /\ overlapped \subseteq Migration

VerificationInit ==
    /\ startPc = [m \in Migration |-> [v \in Caller |-> "idle"]]
    /\ vwatchPc = [m \in Migration |-> [w \in Watcher |-> "none"]]
    /\ vctxDone = [m \in Migration |-> {}]
    /\ vseen = [m \in Migration |-> [w \in Watcher |-> NothingSeen]]
    /\ overlapped = {}

Init == KubeInit /\ ServiceInit /\ VerificationInit

-----------------------------------------------------------------------------
(* StartVerification and its caller triggerVerificationIfNeeded            *)

\* Past the check for "running" and not yet back.
Starting(m, v) == startPc[m][v] \notin {"idle", "triggered"}

StartGoes(m, v, from, to) ==
    /\ startPc[m][v] = from
    /\ startPc' = [startPc EXCEPT ![m][v] = to]
    /\ overlapped' = IF Starting(m, v)' /\ \E u \in Caller \ {v}: Starting(m, u)
                     THEN overlapped \cup {m} ELSE overlapped

watcherVars == <<vwatchPc, vctxDone, vseen>>

\* Mutation: the check for a nil Verification is inverted.
TriggersAgain(m) ==
    /\ m \in autoVerify
    /\ autoVerify' = autoVerify \ {m}
    /\ StartGoes(m, Automatic, "idle",
                 IF status[m] = "completed" /\ verification[m] # "none"
                 THEN "triggered" ELSE "idle")
    /\ UNCHANGED <<status, verification, cancelFn, verifyCancelFn, kubeVars,
                   watcherVars>>

\* The first three returns of triggerVerificationIfNeeded.  The goroutine
\* that takes it over is `Automatic`.
Triggers(m) ==
    /\ m \in autoVerify
    /\ autoVerify' = autoVerify \ {m}
    /\ StartGoes(m, Automatic, "idle",
                 IF status[m] = "completed" /\ verification[m] = "none"
                 THEN "triggered" ELSE "idle")
    /\ UNCHANGED <<status, verification, cancelFn, verifyCancelFn, kubeVars,
                   watcherVars>>

\* Mutation: a verification that runs is no reason to return.
StartsAgain(m, v) ==
    /\ StartGoes(m, v, IF v = Automatic THEN "triggered" ELSE "idle",
                 IF status[m] = "completed" THEN "delete" ELSE "idle")
    /\ UNCHANGED <<serviceVars, kubeVars, watcherVars>>

\* The checks at the head of StartVerification.
StartChecks(m, v) ==
    /\ StartGoes(m, v, IF v = Automatic THEN "triggered" ELSE "idle",
                 IF status[m] = "completed" /\ verification[m] # "running"
                 THEN "delete" ELSE "idle")
    /\ UNCHANGED <<serviceVars, kubeVars, watcherVars>>

\* resolveImage, the next call (42-45), finds what it found in Create: versions
\* and configuration of a process do not change (VersionPolicy).
StartDeletesJob(m, v) ==
    /\ StartGoes(m, v, "delete", "mark")
    /\ DeleteVerificationJob(m)
    /\ UNCHANGED <<migrationKubeVars, everMatched, serviceVars, watcherVars>>

StartMarks(m, v) ==
    /\ StartGoes(m, v, "mark", "create")
    /\ SetVerification(m, "running")
    /\ UNCHANGED <<status, cancelFn, verifyCancelFn, autoVerify, kubeVars, watcherVars>>

\* Mutation: the error is returned and nothing is marked.
StartReturnsError(m, v) ==
    /\ \E ok \in BOOLEAN:
        /\ CreateVerificationJob(m, ok)
        /\ StartGoes(m, v, "create", IF ok THEN "register" ELSE "idle")
    /\ UNCHANGED <<migrationKubeVars, vpods, leftover, everMatched, serviceVars,
                   watcherVars>>

StartCreatesJob(m, v) ==
    /\ \E ok \in BOOLEAN:
        /\ CreateVerificationJob(m, ok)
        /\ StartGoes(m, v, "create", IF ok THEN "register" ELSE "failing")
    /\ UNCHANGED <<migrationKubeVars, vpods, leftover, everMatched, serviceVars,
                   watcherVars>>

\* Mutation: a verification that cannot start fails the migration.
StartFailsMigration(m, v) ==
    /\ StartGoes(m, v, "failing", "idle")
    /\ SetVerification(m, "failed")
    /\ SetStatus(m, "failed")
    /\ UNCHANGED <<cancelFn, verifyCancelFn, autoVerify, kubeVars, watcherVars>>

StartFails(m, v) ==
    /\ StartGoes(m, v, "failing", "idle")
    /\ SetVerification(m, "failed")
    /\ UNCHANGED <<status, cancelFn, verifyCancelFn, autoVerify, kubeVars, watcherVars>>

\* s.cancel["verify:"+id] = cancel overwrites an entry that is still there.
\* Bound: no more than Cardinality(Watcher) watchers of an id at a time.
StartRegisters(m, v) ==
    /\ StartGoes(m, v, "register", "idle")
    /\ \E w \in Watcher:
        /\ vwatchPc[m][w] = "none"
        /\ vwatchPc' = [vwatchPc EXCEPT ![m][w] = "select"]
        /\ verifyCancelFn' = [verifyCancelFn EXCEPT ![m] = w]
    /\ UNCHANGED <<status, verification, cancelFn, autoVerify, kubeVars,
                   vctxDone, vseen>>

StartProceeds(m, v) ==
    \/ v = Automatic /\ StartChecks(m, v)
    \/ StartDeletesJob(m, v) \/ StartMarks(m, v) \/ StartCreatesJob(m, v)
    \/ StartFails(m, v) \/ StartRegisters(m, v)

-----------------------------------------------------------------------------
(* watchVerification and pollVerification                                  *)

VWatchGoes(m, w, from, to) ==
    vwatchPc[m][w] = from /\ vwatchPc' = [vwatchPc EXCEPT ![m][w] = to]

VWatchTicks(m, w) ==
    /\ VWatchGoes(m, w, "select", "getJob")
    /\ UNCHANGED <<serviceVars, kubeVars, startVars, vctxDone, vseen>>

\* <-ctx.Done().  The goroutine is gone and its name may be used again.
VWatchStops(m, w) ==
    /\ w \in vctxDone[m]
    /\ VWatchGoes(m, w, "select", "none")
    /\ vctxDone' = [vctxDone EXCEPT ![m] = @ \ {w}]
    /\ UNCHANGED <<serviceVars, kubeVars, startVars, vseen>>

PollGetsVJob(m, w) ==
    /\ w \notin vctxDone[m]
    /\ vjobs[m] # "absent"
    /\ VWatchGoes(m, w, "getJob", "getLogs")
    /\ vseen' = [vseen EXCEPT ![m][w].job = vjobs[m]]
    /\ UNCHANGED <<serviceVars, kubeVars, startVars, vctxDone>>

\* (false, err): the error is dropped and the watcher goes on.
PollFindsNoVJob(m, w) ==
    /\ VWatchGoes(m, w, "getJob", "select")
    /\ UNCHANGED <<serviceVars, kubeVars, startVars, vctxDone, vseen>>

\* Only what the switch looks at is kept: the logs of an ended Job.
PollReadsVLogs(m, w) ==
    /\ VWatchGoes(m, w, "getLogs",
                  IF vseen[m][w].job = "active" THEN "select" ELSE "write")
    /\ \E logs \in IF w \in vctxDone[m] \/ vseen[m][w].job = "active"
                   THEN {"none"} ELSE LoggedPods(m):
        vseen' = [vseen EXCEPT ![m][w] =
                    IF @.job = "active" THEN NothingSeen ELSE [@ EXCEPT !.logs = logs]]
    /\ UNCHANGED <<serviceVars, kubeVars, startVars, vctxDone>>

\* Mutation: the script's exit status is taken for its result.
ExitIsVerdict(job, logs) == IF job = "succeeded" THEN "passed" ELSE "failed"

\* Mutation: without a SUMMARY line the parser's zero value is kept.
PendingWithoutLogs(job, logs) ==
    CASE job = "succeeded" /\ logs = "matched" -> "passed"
      [] job = "succeeded" /\ logs = "none" -> "pending"
      [] OTHER -> "failed"

\* ParseVerificationLogs: no SUMMARY line that says true, no pass.
PolledVerdict(job, logs) ==
    IF job = "succeeded" /\ logs = "matched" THEN "passed" ELSE "failed"

PollWritesVerdict(m, w) ==
    /\ VWatchGoes(m, w, "write", "release")
    /\ SetVerification(m, PolledVerdict(vseen[m][w].job, vseen[m][w].logs))
    /\ vseen' = [vseen EXCEPT ![m][w] = NothingSeen]
    /\ UNCHANGED <<status, cancelFn, verifyCancelFn, autoVerify, kubeVars,
                   startVars, vctxDone>>

\* Mutation: the entry stays, as s.cancel[id] does.
VWatchLeavesEntry(m, w) ==
    /\ VWatchGoes(m, w, "release", "none")
    /\ vctxDone' = [vctxDone EXCEPT ![m] =
                       (@ \cup ({verifyCancelFn[m]} \ {NoWatcher})) \ {w}]
    /\ UNCHANGED <<serviceVars, kubeVars, startVars, vseen>>

\* cancel(), delete and return; the entry is whoever registered last.
VWatchReleases(m, w) ==
    LET entry == verifyCancelFn[m] IN
    /\ VWatchGoes(m, w, "release", "none")
    /\ vctxDone' = [vctxDone EXCEPT ![m] = (@ \cup ({entry} \ {NoWatcher})) \ {w}]
    /\ verifyCancelFn' = [verifyCancelFn EXCEPT ![m] = NoWatcher]
    /\ UNCHANGED <<status, verification, cancelFn, autoVerify, kubeVars,
                   startVars, vseen>>

VWatchProceeds(m, w) ==
    \/ VWatchTicks(m, w) \/ PollFindsNoVJob(m, w) \/ PollReadsVLogs(m, w)
    \/ PollWritesVerdict(m, w) \/ VWatchReleases(m, w)

-----------------------------------------------------------------------------
\* See ServiceCrash: what the goroutines of this module were doing is lost.
VerificationCrash ==
    /\ startPc' = [m \in Migration |-> [v \in Caller |-> "idle"]]
    /\ vwatchPc' = [m \in Migration |-> [w \in Watcher |-> "none"]]
    /\ vctxDone' = [m \in Migration |-> {}]
    /\ vseen' = [m \in Migration |-> [w \in Watcher |-> NothingSeen]]
    /\ overlapped' = {}

ServerCrash == VerificationCrash /\ ServiceCrash /\ UNCHANGED kubeVars

VerifyStep(m) ==
    \/ Triggers(m)
    \/ \E v \in Caller: StartChecks(m, v) \/ StartProceeds(m, v)

VWatchStepOf(m, w) ==
    VWatchStops(m, w) \/ PollGetsVJob(m, w) \/ VWatchProceeds(m, w)

VJobStep(m) ==
    /\ VerificationKubeStep(m)
    /\ UNCHANGED <<migrationKubeVars, serviceVars, verificationVars>>

VJobIsRemoved(m) ==
    /\ VJobExpires(m)
    /\ TTLOutlastsPolling =>
        /\ \A w \in Watcher: vwatchPc[m][w] = "none"
        /\ \A v \in Caller: startPc[m][v] # "register"
    /\ UNCHANGED <<migrationKubeVars, serviceVars, verificationVars>>

\* Environment (service.go): the status moves, and the poll that completes the
\* migration spawns the trigger.  A new id has no verification Job yet, and a
\* status that was "completed" only becomes "cancelled" (CompletedNeverReopens
\* in MigrationService); Migrator shows that the real service keeps to this.
Begun(m) ==
    \/ status[m] = "completed" \/ m \in autoVerify \/ verification[m] # "none"
    \/ \E v \in Caller: startPc[m][v] # "idle"

Unknown(m) == vjobs[m] = "absent" /\ leftover[m] = {} /\ m \notin everMatched

StatusMoves(m) ==
    /\ ~Stored(m) => Unknown(m)
    /\ \E s \in IF Begun(m) THEN {"cancelled"} ELSE Active \cup Terminal:
        /\ SetStatus(m, s)
        /\ autoVerify' = IF s = "completed" THEN autoVerify \cup {m} ELSE autoVerify
    /\ UNCHANGED <<verification, cancelFn, verifyCancelFn, kubeVars,
                   verificationVars>>

\* Environment: the second call of a Cleanup.
CleanupRemovesVJob(m) ==
    /\ Stored(m)
    /\ RemoveVerificationJob(m)
    /\ UNCHANGED <<migrationKubeVars, everMatched, serviceVars,
                   verificationVars>>

ServiceStep(m) == StatusMoves(m) \/ CleanupRemovesVJob(m)

Next ==
    \/ \E m \in Migration:
        \/ VerifyStep(m) \/ VJobStep(m) \/ VJobIsRemoved(m) \/ ServiceStep(m)
        \/ \E w \in Watcher: VWatchStepOf(m, w)
    \/ ServerCrash

Spec == Init /\ [][Next]_vars

-----------------------------------------------------------------------------
(* Fairness: as in MigrationService.                                       *)
Fairness(m) ==
    /\ WF_vars(Triggers(m))
    /\ \A v \in Caller: WF_vars(StartProceeds(m, v))
    /\ \A w \in Watcher:
        /\ WF_vars(VWatchProceeds(m, w))
        /\ SF_vars(VWatchStops(m, w))
        /\ SF_vars(PollGetsVJob(m, w))
    /\ WF_vars(VJobStep(m))

FairSpec == Spec /\ \A m \in Migration: Fairness(m)

-----------------------------------------------------------------------------
(* What the service promises.                                              *)

\* "passed" is never made up: some verification pod of this migration printed
\* a SUMMARY that says so, whatever Jobs were deleted, replaced, duplicated or
\* read late in between (verify.go:125-134, ParseVerificationLogs).
PassedHasEvidence ==
    \A m \in Migration: verification[m] = "passed" => m \in everMatched

\* The entry of the cancel map names a goroutine that is still there, so the
\* call of a releasing watcher never goes to a name that means another one by
\* now (verify.go:67-69, 95-101).
EntryIsAlive ==
    \A m \in Migration:
        verifyCancelFn[m] # NoWatcher => vwatchPc[m][verifyCancelFn[m]] # "none"

\* A verdict that shows as running is being worked on: a StartVerification has
\* yet to create its Job or register, or a watcher that nobody cancelled polls
\* (verify.go:49-71).  The automatic verification alone keeps it; a re-run does
\* not: the watcher of the run before, when it returns late, cancels the new one
\* (verify.go:95-101).
RunningIsTended ==
    \A m \in Migration:
        verification[m] = "running" =>
            \/ \E v \in Caller: startPc[m][v] \in {"create", "failing", "register"}
            \/ \E w \in Watcher: vwatchPc[m][w] # "none" /\ w \notin vctxDone[m]

\* A verdict stays until a new StartVerification marks it or the server restarts:
\* however many re-runs there are, whatever Jobs, left-over pods and watchers they
\* leave behind and whoever cancels whom, nobody has a second verdict to write
\* (verify.go:32-71, 95-151).  Nothing in the code keeps two calls for one id
\* apart between the check for "running" and the mark (36-49): when two get
\* through, both write, and it is lost.
VerdictStays ==
    [][\A m \in Migration \ overlapped:
            verification[m] \in {"passed", "failed"} =>
                \/ verification'[m] = verification[m]
                \/ verification'[m] \in {"running", "none"}]_vars

\* A completed migration gets its verdict, unless a Cleanup or a TTL that was
\* shorter than an outage took the Job away under its watcher, a late Cancel
\* relabelled it before the trigger ran or the server restarted
\* (service.go:234-236, verify.go:74-104).
VerdictFollows ==
    \A m \in Migration:
        m \in autoVerify ~>
            \/ verification[m] \in {"passed", "failed"}
            \/ status[m] # "completed"
            \/ vjobs[m] = "absent" /\ \E w \in Watcher: vwatchPc[m][w] # "none"

-----------------------------------------------------------------------------
(* What README and user interface say of verification, and the code does   *)
(* not keep.                                                               *)

\* README "Backend polls job status and pod logs; the UI shows progress and
\* verification results": a running verification comes to an end.
RunningEnds ==
    \A m \in Migration: verification[m] = "running" ~> verification[m] # "running"

\* VerificationPanel "Re-run verification": while the Job of the run and its
\* pod are there, "passed" is what that pod found.
PassedIsCurrent ==
    \A m \in Migration:
        verification[m] = "passed" /\ vjobs[m] = "succeeded" => vpods[m] = "matched"
=============================================================================
