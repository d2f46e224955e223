------------------------- MODULE MigrationLifecycle -------------------------
(***************************************************************************)
(* What the API promises of a migration, without goroutines, API calls or  *)
(* locals: which statuses may follow which, and on what grounds.           *)
(* MigrationService implements this specification (Implements there).      *)
(***************************************************************************)
CONSTANT Migration

VARIABLES
    shown,      \* the status a client reads; "absent": 404
    did,        \* what the migration pod has been through
    stage,      \* who looks after the migration
    asked,      \* migrations with a Cancel that was accepted and not yet marked
    told        \* migrations whose watcher a Cancel told to stop

vars == <<shown, did, stage, asked, told>>

Underway == {"pending", "dumping", "restoring"}
Over == {"completed", "failed", "cancelled"}

\* "new": not asked for yet; "creating": Create is at work; "launched": its Job
\* is there and its watcher is not; "left": nobody will look at it again.
Stage == {"new", "creating", "launched", "watched", "left"}

Init ==
    /\ shown = [m \in Migration |-> "absent"]
    /\ did = [m \in Migration |-> {}]
    /\ stage = [m \in Migration |-> "new"]
    /\ asked = {}
    /\ told = {}

-----------------------------------------------------------------------------
(* Create, from the request to the watcher.                                *)

MovesOn(m, from, to) == stage[m] = from /\ stage' = [stage EXCEPT ![m] = to]

Shows(m, s) == shown' = [shown EXCEPT ![m] = s]

Accepts(m) ==
    /\ MovesOn(m, "new", "creating") /\ Shows(m, "pending")
    /\ UNCHANGED <<did, asked, told>>

GivesUp(m) ==
    /\ MovesOn(m, "creating", "left") /\ Shows(m, "failed")
    /\ UNCHANGED <<did, asked, told>>

Launches(m) ==
    /\ MovesOn(m, "creating", "launched") /\ Shows(m, "dumping")
    /\ UNCHANGED <<did, asked, told>>

IsWatched(m) ==
    /\ MovesOn(m, "launched", "watched")
    /\ UNCHANGED <<shown, did, asked, told>>

-----------------------------------------------------------------------------
(* The work itself: one life of one pod, with one outcome.                 *)

Follows == [dump |-> {}, restore |-> {"dump"},
            succeeded |-> {"dump", "restore"}, failed |-> {"dump"}]

Works(m) ==
    /\ \E next \in DOMAIN Follows:
        /\ Follows[next] \subseteq did[m]
        /\ did[m] \cap {next, "succeeded", "failed"} = {}
        /\ did' = [did EXCEPT ![m] = @ \cup {next}]
    /\ UNCHANGED <<shown, stage, asked, told>>

\* What a report needs to have happened.  "dumping" may be late news.
Grounds == [dumping |-> {}, restoring |-> {"restore"},
            completed |-> {"succeeded"}, failed |-> {"failed"}]

\* The watcher reports what happened, never of a migration that is completed.
Reports(m) ==
    /\ stage[m] = "watched" /\ shown[m] # "completed"
    /\ \E s \in DOMAIN Grounds: Grounds[s] \subseteq did[m] /\ Shows(m, s)
    /\ UNCHANGED <<did, stage, asked, told>>

Leaves(m) ==
    /\ shown[m] \in Over \/ m \in told
    /\ MovesOn(m, "watched", "left")
    /\ UNCHANGED <<shown, did, asked, told>>

-----------------------------------------------------------------------------
(* Cancel: only what is under way can be cancelled, but the mark may come  *)
(* late.                                                                   *)

IsAsked(m) ==
    /\ shown[m] \in Underway
    /\ asked' = asked \cup {m}
    /\ UNCHANGED <<shown, did, stage, told>>

Tells(m) ==
    /\ m \in asked
    /\ told' = told \cup {m}
    /\ UNCHANGED <<shown, did, stage, asked>>

\* Another Cancel of the same migration may still be pending.
IsCancelled(m) ==
    /\ m \in asked
    /\ Shows(m, "cancelled")
    /\ asked' \in {asked, asked \ {m}}
    /\ UNCHANGED <<did, stage, told>>

-----------------------------------------------------------------------------
\* Nothing is persisted.
Restarts ==
    /\ shown' = [m \in Migration |-> "absent"]
    /\ stage' = [m \in Migration |-> IF stage[m] = "new" THEN "new" ELSE "left"]
    /\ asked' = {}
    /\ told' = {}
    /\ UNCHANGED did

Step(m) ==
    \/ Accepts(m) \/ GivesUp(m) \/ Launches(m) \/ IsWatched(m)
    \/ Works(m) \/ Reports(m) \/ Leaves(m)
    \/ IsAsked(m) \/ Tells(m) \/ IsCancelled(m)

Next == Restarts \/ \E m \in Migration: Step(m)

Spec == Init /\ [][Next]_vars
=============================================================================
