----------------------------- MODULE Kubernetes -----------------------------
(***************************************************************************)
(* The cluster as package k8s uses it: the API calls of client.go and      *)
(* verify.go, and the life of the Jobs and pods those calls create.        *)
(*                                                                         *)
(* An API call may fail without an effect, or take effect and lose its     *)
(* answer (timeout, client gone: handlers pass r.Context()).  Names are    *)
(* built from the first eight characters of the id, which are assumed to   *)
(* identify it, so objects are indexed by the migration they belong to.    *)
(***************************************************************************)
CONSTANT Migration      \* ids handed out by uuid.New(); an id is never used twice

VARIABLES
    pvcs,       \* migrations whose PersistentVolumeClaim exists
    jobs,       \* the migration Job object: "absent" or its recorded status
    pods,       \* the pod of the migration Job, "none" before and after its life
    history,    \* every state the migration pod has been in (a history variable)
    vjobs,      \* the verification Job object
    vpods,      \* the pod of that Job
    leftover,   \* pods of deleted verification Jobs that are not collected yet
    everMatched \* migrations one of whose verification pods found a match (history)

migrationKubeVars == <<pvcs, jobs, pods, history>>
verificationKubeVars == <<vjobs, vpods, leftover, everMatched>>
kubeVars == <<migrationKubeVars, verificationKubeVars>>

JobState == {"absent", "active", "succeeded", "failed"}
PodState == {"none", "dump", "restore", "succeeded", "failed"}
\* "matched" and "mismatched": the script ended with SUMMARY|...|true or false.
VPodState == {"none", "running", "matched", "mismatched", "failed"}

MigrationKubeTypeOK ==
    /\ pvcs \subseteq Migration
    /\ jobs \in [Migration -> JobState]
    /\ pods \in [Migration -> PodState]
    /\ history \in [Migration -> SUBSET PodState]

VerificationKubeTypeOK ==
    /\ vjobs \in [Migration -> JobState]
    /\ vpods \in [Migration -> VPodState]
    /\ leftover \in [Migration -> SUBSET VPodState]
    /\ everMatched \subseteq Migration

KubeInit ==
    /\ pvcs = {}
    /\ jobs = [m \in Migration |-> "absent"]
    /\ pods = [m \in Migration |-> "none"]
    /\ history = [m \in Migration |-> {}]
    /\ vjobs = [m \in Migration |-> "absent"]
    /\ vpods = [m \in Migration |-> "none"]
    /\ leftover = [m \in Migration |-> {}]
    /\ everMatched = {}

-----------------------------------------------------------------------------
(* API calls.  ok says whether the caller sees a nil error.                *)

CreatePVC(m, ok) ==
    /\ pvcs' \in {pvcs, pvcs \cup {m}}
    /\ ok => m \in pvcs'

CreateMigrationJob(m, ok) ==
    /\ jobs' \in {jobs, [jobs EXCEPT ![m] = "active"]}
    /\ ok => jobs'[m] = "active"

\* Every caller drops the error, so only the effect matters.  Background
\* propagation removes the Job at once and leaves its pod to the collector.
DeleteJob(m) == jobs' \in {jobs, [jobs EXCEPT ![m] = "absent"]}

DeletePVC(m) == pvcs' \in {pvcs, pvcs \ {m}}

\* A Job of the same name makes the call fail with AlreadyExists.
CreateVerificationJob(m, ok) ==
    \/ /\ vjobs[m] = "absent"
       /\ vjobs' = [vjobs EXCEPT ![m] = "active"]
    \/ /\ ~ok
       /\ UNCHANGED vjobs

\* The pod of the removed Job stays behind until it is collected.
RemoveVerificationJob(m) ==
    /\ vjobs[m] # "absent"
    /\ vjobs' = [vjobs EXCEPT ![m] = "absent"]
    /\ vpods' = [vpods EXCEPT ![m] = "none"]
    /\ leftover' = [leftover EXCEPT ![m] = @ \cup ({vpods[m]} \ {"none"})]

DeleteVerificationJob(m) ==
    \/ RemoveVerificationJob(m)
    \/ UNCHANGED <<vjobs, vpods, leftover>>

\* What inferPhase can find in the answer of GetPodLogs: the marker of a
\* container that has started, or nothing, because a log stream that fails is
\* skipped and a failed pod list is dropped by the caller.
LoggedPhases(m) ==
    {"pending"} \cup
    (IF pods[m] = "none" THEN {} ELSE history[m] \cap {"dump", "restore"})

\* The pods GetPodLogs may take as pods.Items[0] of a verification Job: all
\* that carry its job-name label.  "none" is an empty answer.
LoggedPods(m) == leftover[m] \cup {vpods[m], "none"}

-----------------------------------------------------------------------------
(* The migration Job: one pod (BackoffLimit 0, RestartPolicy Never) whose  *)
(* init container dumps and whose main container restores.                 *)

\* The pod mounts the PVC and stays unscheduled without it.
PodStarts(m) ==
    /\ jobs[m] = "active" /\ pods[m] = "none" /\ m \in pvcs
    /\ pods' = [pods EXCEPT ![m] = "dump"]
    /\ history' = [history EXCEPT ![m] = @ \cup {"dump"}]
    /\ UNCHANGED <<pvcs, jobs>>

PodSuccessors == [dump |-> {"restore", "failed"},
                  restore |-> {"succeeded", "failed"}]

\* A pod goes on after its Job was deleted, until the collector kills it.
PodProgresses(m) ==
    /\ pods[m] \in DOMAIN PodSuccessors
    /\ \E next \in PodSuccessors[pods[m]]:
        /\ pods' = [pods EXCEPT ![m] = next]
        /\ history' = [history EXCEPT ![m] = @ \cup {next}]
    /\ UNCHANGED <<pvcs, jobs>>

\* The Job controller records the end of the pod in Job.Status.
JobEnds(m) ==
    /\ jobs[m] = "active" /\ pods[m] \in {"succeeded", "failed"}
    /\ jobs' = [jobs EXCEPT ![m] = pods[m]]
    /\ UNCHANGED <<pvcs, pods, history>>

\* TTLSecondsAfterFinished has passed.  When, the properties do not rely on:
\* the steps of the cluster that are bound to come are in MigrationKubeStep.
JobExpires(m) ==
    /\ jobs[m] \in {"succeeded", "failed"}
    /\ jobs' = [jobs EXCEPT ![m] = "absent"]
    /\ UNCHANGED <<pvcs, pods, history>>

PodCollected(m) ==
    /\ jobs[m] = "absent" /\ pods[m] # "none"
    /\ pods' = [pods EXCEPT ![m] = "none"]
    /\ UNCHANGED <<pvcs, jobs, history>>

MigrationKubeStep(m) ==
    PodStarts(m) \/ PodProgresses(m) \/ JobEnds(m) \/ PodCollected(m)

-----------------------------------------------------------------------------
(* The verification Job: one container that compares and prints.           *)

VPodStarts(m) ==
    /\ vjobs[m] = "active" /\ vpods[m] = "none"
    /\ vpods' = [vpods EXCEPT ![m] = "running"]
    /\ UNCHANGED <<vjobs, leftover, everMatched>>

VPodResult == {"matched", "mismatched", "failed"}

NotesResult(m, result) ==
    everMatched' = IF result = "matched" THEN everMatched \cup {m} ELSE everMatched

VPodEnds(m) ==
    /\ vpods[m] = "running"
    /\ \E result \in VPodResult:
        /\ vpods' = [vpods EXCEPT ![m] = result]
        /\ NotesResult(m, result)
    /\ UNCHANGED <<vjobs, leftover>>

\* The script exits 0 whether the databases match or not.
VJobEnds(m) ==
    /\ vjobs[m] = "active" /\ vpods[m] \in VPodResult
    /\ vjobs' = [vjobs EXCEPT ![m] =
                    IF vpods[m] = "failed" THEN "failed" ELSE "succeeded"]
    /\ UNCHANGED <<vpods, leftover, everMatched>>

VJobExpires(m) ==
    /\ vjobs[m] \in {"succeeded", "failed"}
    /\ RemoveVerificationJob(m)
    /\ UNCHANGED everMatched

\* A pod whose Job is gone has its grace period to end in.
LeftoverEnds(m) ==
    /\ "running" \in leftover[m]
    /\ \E result \in VPodResult:
        /\ leftover' = [leftover EXCEPT ![m] = (@ \ {"running"}) \cup {result}]
        /\ NotesResult(m, result)
    /\ UNCHANGED <<vjobs, vpods>>

LeftoverCollected(m) ==
    /\ \E p \in leftover[m]: leftover' = [leftover EXCEPT ![m] = @ \ {p}]
    /\ UNCHANGED <<vjobs, vpods, everMatched>>

VerificationKubeStep(m) ==
    \/ VPodStarts(m) \/ VPodEnds(m) \/ VJobEnds(m)
    \/ LeftoverEnds(m) \/ LeftoverCollected(m)
=============================================================================
