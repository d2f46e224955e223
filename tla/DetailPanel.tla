----------------------------- MODULE DetailPanel -----------------------------
(***************************************************************************)
(* The web interface around one migration: the tab and the selection of    *)
(* App.tsx, and MigrationDetail.tsx, which keeps its state when the        *)
(* selection moves and applies whatever answer arrives, whoever asked.     *)
(*                                                                         *)
(* JavaScript runs one callback at a time, so a step is what happens       *)
(* between two awaits.  Requests and their answers are on their way        *)
(* meanwhile, and nothing aborts them or keeps them in order.              *)
(***************************************************************************)
EXTENDS Naturals

CONSTANTS
    Migration,      \* ids handed out by the server
    Poll,           \* fetches of the effect and its interval unanswered together
    NoId            \* nothing selected (null)

ASSUME NoIdAssumption == NoId \notin Migration

VARIABLES
    record,     \* what the server knows of a migration
    open,       \* tab === 'migrations'
    selected,   \* selectedId, the id the panel is given
    shown,      \* the panel's state `migration`
    fetches,    \* calls of fetchData under way
    action      \* the handler behind actionLoading

panelVars == <<shown, fetches, action>>
appVars == <<open, selected>>
vars == <<record, appVars, panelVars>>

Own == "own"                        \* the fetchData a handler awaits
ASSUME OwnAssumption == Own \notin Poll
Fetcher == Poll \cup {Own}
Displayable == {"active", "ended"}
RecordState == {"new", "gone"} \cup Displayable

Nothing == [id |-> NoId, status |-> "none"]
NoFetch == [id |-> NoId, got |-> "none"]
NoAction == [kind |-> "none", id |-> NoId, pc |-> "idle"]

\* A panel is mounted while its tab is open and something is selected.
Mounted == open /\ selected # NoId

Id == Migration \cup {NoId}
Shown == [id : Migration, status : Displayable] \cup {Nothing}
Fetch == [id : Migration, got : Displayable \cup {"sent"}] \cup {NoFetch}
Action == [kind : {"cancel", "cleanup", "verify"}, id : Migration,
           pc : {"sent", "done", "refused", "fetching"}] \cup {NoAction}

TypeOK ==
    /\ record \in [Migration -> RecordState]
    /\ open \in BOOLEAN
    /\ selected \in Id
    /\ shown \in Shown
    /\ fetches \in [Fetcher -> Fetch]
    /\ action \in Action

Init ==
    /\ record = [i \in Migration |-> "new"]
    /\ open = FALSE
    /\ selected = NoId
    /\ shown = Nothing
    /\ fetches = [f \in Fetcher |-> NoFetch]
    /\ action = NoAction

-----------------------------------------------------------------------------
(* The server, as the panel meets it.                                      *)

Known(i) == record[i] \in Displayable

\* POST /migrations, by this page or by anyone else.
IsCreated(i) ==
    /\ record[i] = "new"
    /\ record' = [record EXCEPT ![i] = "active"]
    /\ UNCHANGED <<appVars, panelVars>>

\* The life cycle in the two words the panel's buttons depend on.  A late
\* write can make an ended migration active again (see MigrationLifecycle).
Moves(i) ==
    /\ Known(i)
    /\ \E s \in Displayable \ {record[i]}: record' = [record EXCEPT ![i] = s]
    /\ UNCHANGED <<appVars, panelVars>>

\* Nothing is persisted.
Restarts ==
    /\ \E i \in Migration: Known(i)
    /\ record' = [i \in Migration |-> IF Known(i) THEN "gone" ELSE record[i]]
    /\ UNCHANGED <<appVars, panelVars>>

-----------------------------------------------------------------------------
(* App: tab, selection, and when a panel is mounted, changed or unmounted. *)

\* The effect of the panel: fetchData at once for the id it is given.  A panel
\* that was there keeps what it shows and the calls it has made.
StartsFetching(i) ==
    /\ \E p \in Poll:
        /\ fetches[p] = NoFetch
        /\ fetches' = [fetches EXCEPT ![p] = [id |-> i, got |-> "sent"]]
    /\ UNCHANGED <<shown, action>>

\* onSelect of the list, whose entries may be those of a server since restarted.
Selects(i) ==
    /\ open
    /\ record[i] # "new" /\ i # selected
    /\ selected' = i
    /\ StartsFetching(i)
    /\ UNCHANGED <<record, open>>

\* The answer of this page's POST: handleCreated, on whichever tab.
Jumps(i) ==
    /\ record[i] # "new" /\ i # selected
    /\ selected' = i
    /\ open' = TRUE
    /\ StartsFetching(i)
    /\ UNCHANGED record

\* Mutation: the panel is mounted without a selection.
OpensAnyway ==
    /\ ~open
    /\ open' = TRUE
    /\ StartsFetching(selected)
    /\ UNCHANGED <<record, selected>>

OpensTab ==
    /\ ~open
    /\ open' = TRUE
    /\ IF selected = NoId THEN UNCHANGED panelVars ELSE StartsFetching(selected)
    /\ UNCHANGED <<record, selected>>

\* The panel is unmounted: setState of a late answer is to no effect.
LeavesTab ==
    /\ open
    /\ open' = FALSE
    /\ shown' = Nothing
    /\ fetches' = [f \in Fetcher |-> NoFetch]
    /\ action' = NoAction
    /\ UNCHANGED <<record, selected>>

-----------------------------------------------------------------------------
(* fetchData: getMigration and getLogs, together or not at all.            *)

\* Mutation: what has ended is not polled any more.
TicksWhileActive ==
    /\ Mounted /\ shown.status # "ended"
    /\ StartsFetching(selected)
    /\ UNCHANGED <<record, appVars>>

\* setInterval; the bound is the number of Poll.
Ticks ==
    /\ Mounted
    /\ StartsFetching(selected)
    /\ UNCHANGED <<record, appVars>>

\* The record as it is when the server reads it.
IsAnswered(f) ==
    /\ fetches[f].got = "sent" /\ Known(fetches[f].id)
    /\ fetches' = [fetches EXCEPT ![f].got = record[fetches[f].id]]
    /\ UNCHANGED <<record, appVars, shown, action>>

\* The await of a handler is over with its fetch.
FetchEnds(f) ==
    /\ fetches' = [fetches EXCEPT ![f] = NoFetch]
    /\ action' = IF f = Own THEN NoAction ELSE action

\* setMigration(m), without a look at the id.
Applies(f) ==
    /\ fetches[f].got \in Displayable
    /\ shown' = [id |-> fetches[f].id, status |-> fetches[f].got]
    /\ FetchEnds(f)
    /\ UNCHANGED <<record, appVars>>

\* A 404 or an outage: "ignore polling errors".
FetchFails(f) ==
    /\ fetches[f].got = "sent"
    /\ FetchEnds(f)
    /\ UNCHANGED <<record, appVars, shown>>

-----------------------------------------------------------------------------
(* The buttons.  Which there are depends on what is shown, what they act   *)
(* on is the id the panel was given at its last rendering.                 *)

Buttons == [none |-> {}, active |-> {"cancel"}, ended |-> {"cleanup", "verify"}]

\* Mutation: the buttons are not disabled by actionLoading.
ClicksAgain ==
    /\ Mounted
    /\ \E kind \in Buttons[shown.status]:
            action' = [kind |-> kind, id |-> selected, pc |-> "sent"]
    /\ UNCHANGED <<record, appVars, shown, fetches>>

Clicks ==
    /\ Mounted /\ action = NoAction
    /\ \E kind \in Buttons[shown.status]:
            action' = [kind |-> kind, id |-> selected, pc |-> "sent"]
    /\ UNCHANGED <<record, appVars, shown, fetches>>

\* What the handlers of the API answer with a 200: a Cancel and a Cleanup of
\* anything they know, a verification of what is completed if its Job could be
\* created or one is running.
Accepted(kind, status) ==
    IF kind = "verify" THEN {FALSE, status = "ended"} ELSE {TRUE}

\* A Cancel of what has ended is answered all the same and changes nothing.
IsHandled ==
    /\ action.pc = "sent"
    /\ \E ok \in IF Known(action.id) THEN Accepted(action.kind, record[action.id])
                                      ELSE {FALSE}:
        /\ action' = [action EXCEPT !.pc = IF ok THEN "done" ELSE "refused"]
        /\ record' = IF ok /\ action.kind = "cancel"
                     THEN [record EXCEPT ![action.id] = "ended"] ELSE record
    /\ UNCHANGED <<appVars, shown, fetches>>

\* The answer, or the request, is lost.
IsLost ==
    /\ action.pc = "sent"
    /\ action' = [action EXCEPT !.pc = "refused"]
    /\ UNCHANGED <<record, appVars, shown, fetches>>

\* await fetchData(), of the rendering in which the button was clicked: the
\* panel may have another id by now.
Refreshes ==
    /\ action.pc = "done"
    /\ action' = [action EXCEPT !.pc = "fetching"]
    /\ fetches' = [fetches EXCEPT ![Own] = [id |-> action.id, got |-> "sent"]]
    /\ UNCHANGED <<record, appVars, shown>>

\* Mutation: setActionLoading(false) is not in a finally.
StaysDisabled ==
    /\ action.pc = "refused"
    /\ UNCHANGED vars

\* finally: the error is nobody's, the buttons are enabled again.
Releases ==
    /\ action.pc = "refused"
    /\ action' = NoAction
    /\ UNCHANGED <<record, appVars, shown, fetches>>

HandlerGoesOn == IsHandled \/ IsLost \/ Refreshes \/ Releases

-----------------------------------------------------------------------------
FetchGoesOn(f) == IsAnswered(f) \/ Applies(f) \/ FetchFails(f)

Next ==
    \/ \E i \in Migration: IsCreated(i) \/ Moves(i) \/ Selects(i) \/ Jumps(i)
    \/ Restarts \/ OpensTab \/ LeavesTab \/ Ticks
    \/ \E f \in Fetcher: FetchGoesOn(f)
    \/ Clicks \/ HandlerGoesOn

Spec == Init /\ [][Next]_vars

\* The browser runs what can run: the interval, and each call to its end.  The
\* server answers some of the fetches that keep being made (an answer that is
\* lost is FetchFails).  Users, creations and restarts may stop at any time.
Fairness ==
    /\ WF_vars(Ticks)
    /\ \A f \in Fetcher: WF_vars(FetchGoesOn(f))
    /\ \A p \in Poll: SF_vars(IsAnswered(p))
    /\ WF_vars(HandlerGoesOn)

FairSpec == Spec /\ Fairness

-----------------------------------------------------------------------------
\* Handlers take turns, though they share one flag: what a handler awaits is its
\* own refresh, of the migration it acted on, and none is left over that would
\* enable the buttons in the middle of the next one, whatever selections, tabs
\* and lost answers come in between (MigrationDetail.tsx:57-86).
HandlersTakeTurns ==
    /\ action.pc = "fetching" <=> fetches[Own] # NoFetch
    /\ action.pc = "fetching" => fetches[Own].id = action.id

\* While a migration stays selected and as it is, its panel comes to show it
\* and stays with it: what earlier selections, a handler of an earlier one or an
\* overtaken poll left under way may appear for a while and is replaced
\* (MigrationDetail.tsx:36-55).  A migration the server forgot is no such one:
\* the last answer stays.
PanelConverges ==
    \A i \in Migration, s \in Displayable:
        <>[](Mounted /\ selected = i /\ record[i] = s)
            => <>[](shown = [id |-> i, status |-> s])

\* A click does not disable the buttons for good, whether its request is
\* carried out, refused or lost (MigrationDetail.tsx:57-86).
ButtonsReturn == action # NoAction ~> action = NoAction
=============================================================================
