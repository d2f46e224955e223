---------------------------- MODULE ServiceState ----------------------------
(***************************************************************************)
(* What the two halves of package migration (service.go, verify.go) share: *)
(* the in-memory store of store.go and the fields of the Service struct.   *)
(*                                                                         *)
(* Store.Get hands out the pointer that is in the map, so every goroutine  *)
(* reads and writes the SAME record, outside the store's lock; Update puts *)
(* back a pointer that is already there.  The record is therefore one      *)
(* shared variable per migration, and an assignment to one of its fields   *)
(* is one step.  Of the record's fields the model keeps the two that steer *)
(* the control flow: Status and Verification.                              *)
(***************************************************************************)
EXTENDS Kubernetes

CONSTANTS
    Watcher,        \* goroutines that may run watchVerification for one id
    NoWatcher,      \* no entry in the cancel map
    TTLOutlastsPolling  \* no poller is kept from an ended Job until its TTL is over

ASSUME WatcherAssumption == NoWatcher \notin Watcher
ASSUME TTLAssumption == TTLOutlastsPolling \in BOOLEAN

VARIABLES
    status,         \* Migration.Status; "absent": the id is not in the store
    verification,   \* Migration.Verification.Status; "none": the pointer is nil
    cancelFn,       \* ids with an entry s.cancel[id]
    verifyCancelFn, \* the goroutine that s.cancel["verify:"+id] cancels
    autoVerify      \* ids whose `go triggerVerificationIfNeeded` has not run yet

serviceVars == <<status, verification, cancelFn, verifyCancelFn, autoVerify>>

Active == {"pending", "dumping", "restoring"}
Terminal == {"completed", "failed", "cancelled"}
VerificationStatus == {"running", "passed", "failed"}

\* What both halves use; each adds the types of the fields it owns.
ServiceTypeOK ==
    /\ status \in [Migration -> Active \cup Terminal \cup {"absent"}]
    /\ autoVerify \subseteq Migration

\* NewService and store.New: every map is empty.  A restarted process is in
\* the same state: nothing of it is persisted.
ServiceInit ==
    /\ status = [m \in Migration |-> "absent"]
    /\ verification = [m \in Migration |-> "none"]
    /\ cancelFn = {}
    /\ verifyCancelFn = [m \in Migration |-> NoWatcher]
    /\ autoVerify = {}

\* The process dies: an OOM kill, a rollout, or the runtime's fatal error on
\* concurrent writes of the unguarded map s.cancel.  What the store held and
\* every goroutine are gone; the cluster stays as it is.
ServiceCrash ==
    /\ status' = [m \in Migration |-> "absent"]
    /\ verification' = [m \in Migration |-> "none"]
    /\ cancelFn' = {}
    /\ verifyCancelFn' = [m \in Migration |-> NoWatcher]
    /\ autoVerify' = {}

\* Store.Get finds the id.
Stored(m) == status[m] # "absent"

\* m.Status = s followed by store.Update(m), which cannot fail: records are
\* never removed from the store.
SetStatus(m, s) == status' = [status EXCEPT ![m] = s]

\* The same for the Verification field.
SetVerification(m, v) == verification' = [verification EXCEPT ![m] = v]
=============================================================================
