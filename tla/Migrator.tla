------------------------------ MODULE Migrator ------------------------------
(***************************************************************************)
(* The whole backend: service.go and verify.go over one store, one cancel  *)
(* map and one cluster.  The two components interleave; a crash takes both *)
(* down.  Each component's module stands for the other by a few            *)
(* environment actions; this module shows that the composition implements  *)
(* both, so what holds of a component alone holds here.                    *)
(***************************************************************************)
EXTENDS ServiceState

CONSTANTS CancelRequest, CleanupRequest, VerifyRequest, Automatic

ASSUME CallerAssumption == Automatic \notin VerifyRequest

VARIABLES
    createPc, cancelPc, cleanupPc, watchPc, ctxDone, seen,  \* service.go
    startPc, vwatchPc, vctxDone, vseen, overlapped          \* verify.go

\* The components, taken with what is proved of them.
Migrations == INSTANCE MigrationLifecycleProofs
Verifications == INSTANCE VerificationServiceProofs

migrationVars == <<createPc, cancelPc, cleanupPc, watchPc, ctxDone, seen>>
verificationVars == <<startPc, vwatchPc, vctxDone, vseen, overlapped>>
vars == <<serviceVars, kubeVars, migrationVars, verificationVars>>

Init ==
    /\ KubeInit
    /\ ServiceInit
    /\ Migrations!MigrationInit
    /\ Verifications!VerificationInit

MigrationStep(m) ==
    /\ \/ Migrations!RequestStep(m)
       \/ Migrations!WatchStepOf(m)
       \/ Migrations!JobStep(m)
       \/ Migrations!JobIsRemoved(m)
    /\ UNCHANGED verificationVars

VerificationStep(m) ==
    /\ \/ Verifications!VerifyStep(m)
       \/ Verifications!VJobStep(m)
       \/ Verifications!VJobIsRemoved(m)
       \/ \E w \in Watcher: Verifications!VWatchStepOf(m, w)
    /\ UNCHANGED migrationVars

ServerCrash ==
    /\ \E m \in Migration: createPc[m] # "idle"
    /\ Migrations!MigrationCrash
    /\ Verifications!VerificationCrash
    /\ ServiceCrash
    /\ UNCHANGED kubeVars

Next ==
    \/ \E m \in Migration: MigrationStep(m) \/ VerificationStep(m)
    \/ ServerCrash

Spec == Init /\ [][Next]_vars

\* Fairness as in the components.
FairSpec ==
    /\ Spec
    /\ \A m \in Migration: Migrations!Fairness(m) /\ Verifications!Fairness(m)

-----------------------------------------------------------------------------
\* The backend implements service.go's specification: verify.go does nothing
\* to the status, the cancel map's own entries or the migration Job.
ImplementsMigrations == Migrations!Spec

\* And verify.go's: a status that reached "completed" is not taken back while
\* its verification runs, and no id starts with a verification Job around.
ImplementsVerifications == Verifications!Spec

\* While only the automatic verification runs, a verdict that shows as running
\* is worked on, although polls, Cancel, Cleanup, lost answers and restarts go on
\* around it (verify.go:49-104).
AutoIsTended == Verifications!RunningIsTended

\* What the poller of service.go completed gets a verdict from verify.go, in
\* the presence of whatever Cancel, Cleanup and crashes do to either
\* (service.go:234-236; verify.go:74-104).
VerdictFollows == Verifications!VerdictFollows

\* No verification, automatic or requested, runs against a target that was
\* never restored, whatever Cancel, late polls, stale logs and restarts do to
\* the status in between (verify.go:32, 76; service.go:223-235).
VerifiesOnlyRestored ==
    \A m \in Migration:
        vjobs[m] # "absent" \/ verification[m] # "none" =>
            "succeeded" \in history[m]
=============================================================================
