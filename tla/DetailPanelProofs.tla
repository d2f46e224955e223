-------------------------- MODULE DetailPanelProofs --------------------------
(***************************************************************************)
(* Safety of the panel, for any number of migrations and of calls that are *)
(* under way together.  What it comes to show is liveness and left to TLC. *)
(***************************************************************************)
EXTENDS DetailPanel, TLAPS

Inv == TypeOK /\ HandlersTakeTurns

USE DEF Own, Fetcher, Displayable, RecordState, Nothing, NoFetch, NoAction, Id, Shown,
        Fetch, Action, panelVars, appVars

\* The first rendering (App.tsx:8-11).
LEMMA InitInv == Init => Inv
<1> SUFFICES ASSUME Init PROVE Inv
  OBVIOUS
<1>1. TypeOK
  BY DEF Init, TypeOK
<1>2. HandlersTakeTurns
  BY DEF Init, HandlersTakeTurns
<1> QED
  BY <1>1, <1>2 DEF Inv

\* A poll of the panel is none of a handler's.
LEMMA StartsKeeps ==
    ASSUME Inv, NEW i \in Migration, StartsFetching(i)
    PROVE  /\ fetches' \in [Fetcher -> Fetch]
           /\ shown' = shown /\ action' = action
           /\ fetches'[Own] = fetches[Own]
  BY OwnAssumption DEF Inv, TypeOK, StartsFetching

\* What users, other clients and the server do around the panel.
LEMMA SurroundingsKeep ==
    ASSUME Inv,
           \/ \E i \in Migration: IsCreated(i) \/ Moves(i) \/ Selects(i) \/ Jumps(i)
           \/ Restarts \/ OpensTab \/ LeavesTab \/ Ticks
    PROVE  Inv'
<1> USE DEF Inv, TypeOK, HandlersTakeTurns
<1>1. ASSUME NEW i \in Migration, IsCreated(i) \/ Moves(i)
      PROVE  Inv'
  BY <1>1 DEF IsCreated, Moves, Known
<1>2. ASSUME NEW i \in Migration, Selects(i) \/ Jumps(i)
      PROVE  Inv'
  <2>1. StartsFetching(i) /\ record' = record /\ selected' = i /\ open' \in BOOLEAN
    BY <1>2 DEF Selects, Jumps
  <2> QED
    BY <2>1, StartsKeeps
<1>3. CASE Restarts
  BY <1>3 DEF Restarts
<1>4. CASE OpensTab \/ Ticks
  <2>1. /\ record' = record /\ selected' = selected /\ open' \in BOOLEAN
        /\ \/ StartsFetching(selected) /\ selected \in Migration
           \/ UNCHANGED panelVars
    BY <1>4 DEF OpensTab, Ticks, Mounted
  <2> QED
    BY <2>1, StartsKeeps
<1>5. CASE LeavesTab
  BY <1>5 DEF LeavesTab
<1> QED
  BY <1>1, <1>2, <1>3, <1>4, <1>5

\* Calls of fetchData: the one of a handler ends together with it
\* (MigrationDetail.tsx:36-49).
LEMMA FetchKeeps ==
    ASSUME Inv, NEW f \in Fetcher, FetchGoesOn(f)
    PROVE  Inv'
<1> USE DEF Inv, TypeOK, HandlersTakeTurns
<1>1. CASE IsAnswered(f)
  BY <1>1 DEF IsAnswered, Known
<1>2. CASE Applies(f)
  BY <1>2 DEF Applies, FetchEnds
<1>3. CASE FetchFails(f)
  BY <1>3 DEF FetchFails, FetchEnds
<1> QED
  BY <1>1, <1>2, <1>3 DEF FetchGoesOn

\* Buttons and their handlers (MigrationDetail.tsx:57-86, 158-186).
LEMMA HandlerKeeps ==
    ASSUME Inv, Clicks \/ HandlerGoesOn
    PROVE  Inv'
<1> USE DEF Inv, TypeOK, HandlersTakeTurns
<1>1. CASE Clicks
  BY <1>1 DEF Clicks, Mounted, Buttons
<1>2. CASE IsHandled
  BY <1>2 DEF IsHandled
<1>3. CASE IsLost
  BY <1>3 DEF IsLost
<1>4. CASE Refreshes
  BY <1>4 DEF Refreshes
<1>5. CASE Releases
  BY <1>5 DEF Releases
<1> QED
  BY <1>1, <1>2, <1>3, <1>4, <1>5 DEF HandlerGoesOn

\* Types and turns survive every interleaving of answers, clicks and restarts.
THEOREM Invariance == Spec => []Inv
<1>1. Inv /\ [Next]_vars => Inv'
  <2>1. ASSUME Inv, UNCHANGED vars PROVE Inv'
    BY <2>1 DEF vars, Inv, TypeOK, HandlersTakeTurns
  <2> QED
    BY <2>1, SurroundingsKeep, FetchKeeps, HandlerKeeps DEF Next
<1> QED
  BY InitInv, <1>1, PTL DEF Spec

\* Every variable of App and panel keeps its type.
THEOREM TypeCorrectness == Spec => []TypeOK
<1>1. Inv => TypeOK
  BY DEF Inv
<1> QED
  BY <1>1, Invariance, PTL

\* No refresh of an earlier handler ends a later one (MigrationDetail.tsx:57-86).
THEOREM Turns == Spec => []HandlersTakeTurns
<1>1. Inv => HandlersTakeTurns
  BY DEF Inv
<1> QED
  BY <1>1, Invariance, PTL
=============================================================================
