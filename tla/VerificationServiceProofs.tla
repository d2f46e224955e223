---------------------- MODULE VerificationServiceProofs ----------------------
(***************************************************************************)
(* The safety properties of VerificationService, for every set of          *)
(* migrations, requests and goroutine names; what only holds of the        *)
(* automatic verification alone; and what is kept while no two starts      *)
(* overlap.                                                                *)
(***************************************************************************)
EXTENDS VerificationService, TLAPS

-----------------------------------------------------------------------------
(* The inductive invariant.                                                *)

\* Wherever a match may be read from, and whoever has read one, it was printed.
MatchesAreReal ==
    \A m \in Migration:
        /\ vpods[m] = "matched" \/ "matched" \in leftover[m] => m \in everMatched
        /\ \A w \in Watcher: vseen[m][w].logs = "matched" => m \in everMatched

\* A watcher that was told to stop is there and its entry is not: so a name that
\* is given to a new goroutine is nobody's.
CancelledAreAlive ==
    \A m \in Migration: \A w \in vctxDone[m]:
        vwatchPc[m][w] # "none" /\ verifyCancelFn[m] # w

Rest ==
    /\ MatchesAreReal
    /\ CancelledAreAlive
    /\ PassedHasEvidence
    /\ EntryIsAlive

Inv == TypeOK /\ Rest

-----------------------------------------------------------------------------
USE DEF JobState, VPodState, StartStep, VWatchStep, VerificationStatus, startVars
USE WatcherAssumption, AutoAssumption

\* The maps a new Service starts with satisfy the invariant (NewService).
LEMMA InitInv == Init => Inv
<1> SUFFICES ASSUME Init PROVE Inv
  OBVIOUS
<1> USE DEF Init, KubeInit, ServiceInit, VerificationInit, NothingSeen
<1>1. TypeOK
  BY DEF TypeOK, VerificationKubeTypeOK, ServiceTypeOK, Active, Terminal
<1>2. MatchesAreReal /\ CancelledAreAlive
  BY DEF MatchesAreReal, CancelledAreAlive
<1>3. PassedHasEvidence /\ EntryIsAlive
  BY DEF PassedHasEvidence, EntryIsAlive
<1> QED
  BY <1>1, <1>2, <1>3 DEF Inv, Rest

-----------------------------------------------------------------------------
(* Types.                                                                  *)

LEMMA AutomaticIsCaller == Automatic \in Caller
  BY DEF Caller

\* What a deletion does to Job and pods, if it does anything.
LEMMA DeletionTypes ==
    ASSUME VerificationKubeTypeOK, NEW m \in Migration,
           DeleteVerificationJob(m), UNCHANGED everMatched
    PROVE  VerificationKubeTypeOK'
  BY DEF VerificationKubeTypeOK, DeleteVerificationJob, RemoveVerificationJob

\* Nor does a creation, whatever its caller gets to hear.
LEMMA CreationTypes ==
    ASSUME VerificationKubeTypeOK, NEW m \in Migration, NEW ok,
           CreateVerificationJob(m, ok), UNCHANGED <<vpods, leftover, everMatched>>
    PROVE  VerificationKubeTypeOK'
  BY DEF VerificationKubeTypeOK, CreateVerificationJob

\* One caller or goroutine of one migration moves on.
LEMMA OneMoves ==
    ASSUME NEW A, NEW B, NEW T, NEW f \in [A -> [B -> T]],
           NEW a \in A, NEW b \in B, NEW t \in T
    PROVE  [f EXCEPT ![a][b] = t] \in [A -> [B -> T]]
  OBVIOUS

\* The steps of StartVerification and of its trigger (verify.go:26-83).
LEMMA StartTypes ==
    ASSUME TypeOK, NEW m \in Migration, VerifyStep(m)
    PROVE  TypeOK'
<1> USE DEF TypeOK, VerificationKubeTypeOK, ServiceTypeOK, serviceVars, kubeVars,
            migrationKubeVars, verificationKubeVars, watcherVars, StartGoes,
            SetVerification
<1>1. CASE Triggers(m)
  BY <1>1, AutomaticIsCaller DEF Triggers
<1> SUFFICES ASSUME NEW v \in Caller, StartChecks(m, v) \/ StartProceeds(m, v)
             PROVE  TypeOK'
  BY <1>1 DEF VerifyStep
<1>2. CASE StartChecks(m, v)
  BY <1>2 DEF StartChecks
<1>3. CASE StartDeletesJob(m, v)
  <2>1. VerificationKubeTypeOK'
    BY <1>3, DeletionTypes DEF StartDeletesJob
  <2>2. startPc' \in [Migration -> [Caller -> StartStep]]
    BY <1>3 DEF StartDeletesJob
  <2> QED
    BY <1>3, <2>1, <2>2 DEF StartDeletesJob
<1>4. CASE StartMarks(m, v)
  BY <1>4 DEF StartMarks
<1>5. CASE StartCreatesJob(m, v)
  <2>1. VerificationKubeTypeOK'
    BY <1>5, CreationTypes DEF StartCreatesJob
  <2>2. startPc' \in [Migration -> [Caller -> StartStep]]
    BY <1>5 DEF StartCreatesJob
  <2> QED
    BY <1>5, <2>1, <2>2 DEF StartCreatesJob
<1>6. CASE StartFails(m, v)
  BY <1>6 DEF StartFails
<1>7. CASE StartRegisters(m, v)
  BY <1>7 DEF StartRegisters
<1> QED
  BY <1>2, <1>3, <1>4, <1>5, <1>6, <1>7 DEF StartProceeds

\* What a log read may find is what a pod may be (client.go:199-251).
LEMMA LogsAreStates ==
    ASSUME VerificationKubeTypeOK, NEW m \in Migration
    PROVE  LoggedPods(m) \subseteq VPodState
  BY DEF VerificationKubeTypeOK, LoggedPods

\* The steps of watchVerification and pollVerification (verify.go:85-154).
LEMMA WatchTypes ==
    ASSUME TypeOK, NEW m \in Migration, NEW w \in Watcher, VWatchStepOf(m, w)
    PROVE  TypeOK'
<1> USE DEF TypeOK, VerificationKubeTypeOK, ServiceTypeOK, serviceVars, kubeVars,
            migrationKubeVars, verificationKubeVars, VWatchGoes, SetVerification
<1>1. CASE VWatchTicks(m, w)
  BY <1>1 DEF VWatchTicks
<1>2. CASE VWatchStops(m, w)
  BY <1>2 DEF VWatchStops
<1>3. CASE PollGetsVJob(m, w)
  <2> DEFINE s == [vseen[m][w] EXCEPT !.job = vjobs[m]]
  <2>1. vseen' = [vseen EXCEPT ![m][w] = s]
    BY <1>3 DEF PollGetsVJob
  <2>2. s \in [job : JobState, logs : VPodState]
    <3>1. vseen[m][w] \in [job : JobState, logs : VPodState] /\ vjobs[m] \in JobState
      OBVIOUS
    <3> QED
      BY ONLY <3>1
  <2> HIDE DEF s
  <2>3. vseen' \in [Migration -> [Watcher -> [job : JobState, logs : VPodState]]]
    BY <2>1, <2>2, OneMoves
  <2> QED
    BY <1>3, <2>3 DEF PollGetsVJob
<1>4. CASE PollFindsNoVJob(m, w)
  BY <1>4 DEF PollFindsNoVJob
<1>5. CASE PollReadsVLogs(m, w)
  <2>1. PICK logs \in VPodState:
            vseen' = [vseen EXCEPT ![m][w] =
                        IF @.job = "active" THEN NothingSeen ELSE [@ EXCEPT !.logs = logs]]
    BY <1>5, LogsAreStates DEF PollReadsVLogs
  <2> DEFINE s == IF vseen[m][w].job = "active" THEN NothingSeen
                  ELSE [vseen[m][w] EXCEPT !.logs = logs]
  <2>2. vseen' = [vseen EXCEPT ![m][w] = s]
    BY <2>1
  <2>3. s \in [job : JobState, logs : VPodState]
    <3>1. vseen[m][w] \in [job : JobState, logs : VPodState]
      OBVIOUS
    <3> QED
      BY ONLY <3>1, <2>1, "none" \in VPodState, "absent" \in JobState DEF NothingSeen
  <2> HIDE DEF s
  <2>4. vseen' \in [Migration -> [Watcher -> [job : JobState, logs : VPodState]]]
    BY <2>2, <2>3, OneMoves
  <2> QED
    BY <1>5, <2>4 DEF PollReadsVLogs
<1>6. CASE PollWritesVerdict(m, w)
  BY <1>6 DEF PollWritesVerdict, PolledVerdict, NothingSeen
<1>7. CASE VWatchReleases(m, w)
  BY <1>7 DEF VWatchReleases
<1> QED
  BY <1>1, <1>2, <1>3, <1>4, <1>5, <1>6, <1>7 DEF VWatchStepOf, VWatchProceeds

\* The life of verification Jobs and pods (k8s/verify.go:16-85).
LEMMA JobTypes ==
    ASSUME TypeOK, NEW m \in Migration, VJobStep(m) \/ VJobIsRemoved(m)
    PROVE  TypeOK'
<1> USE DEF TypeOK, VerificationKubeTypeOK, ServiceTypeOK, serviceVars,
            verificationVars, VJobStep, VJobIsRemoved, VPodResult, NotesResult
<1>1. CASE VPodStarts(m)
  BY <1>1 DEF VPodStarts
<1>2. CASE VPodEnds(m)
  BY <1>2 DEF VPodEnds
<1>3. CASE VJobEnds(m)
  BY <1>3 DEF VJobEnds
<1>4. CASE VJobExpires(m)
  BY <1>4 DEF VJobExpires, RemoveVerificationJob
<1>5. CASE LeftoverEnds(m)
  BY <1>5 DEF LeftoverEnds
<1>6. CASE LeftoverCollected(m)
  BY <1>6 DEF LeftoverCollected
<1> QED
  BY <1>1, <1>2, <1>3, <1>4, <1>5, <1>6 DEF VerificationKubeStep

\* Every step keeps the types, those of service.go and the crash included.
LEMMA TypesStep == TypeOK /\ [Next]_vars => TypeOK'
<1> SUFFICES ASSUME TypeOK, [Next]_vars PROVE TypeOK'
  OBVIOUS
<1> USE DEF TypeOK, VerificationKubeTypeOK, ServiceTypeOK, verificationKubeVars,
            verificationVars, Active, Terminal
<1>1. ASSUME NEW m \in Migration, StatusMoves(m) PROVE TypeOK'
  BY <1>1 DEF StatusMoves, SetStatus, kubeVars
<1>2. ASSUME NEW m \in Migration, CleanupRemovesVJob(m) PROVE TypeOK'
  BY <1>2 DEF CleanupRemovesVJob, RemoveVerificationJob, serviceVars
<1>3. CASE ServerCrash
  BY <1>3 DEF ServerCrash, VerificationCrash, ServiceCrash, NothingSeen, kubeVars
<1>4. CASE UNCHANGED vars
  BY <1>4 DEF vars
<1> QED
  BY <1>1, <1>2, <1>3, <1>4, StartTypes, WatchTypes, JobTypes DEF Next, ServiceStep

-----------------------------------------------------------------------------
(* The rest of the invariant.                                              *)

\* A start reads no result and takes a name that is nobody's (verify.go:26-83).
LEMMA StartKeeps ==
    ASSUME Inv, NEW m \in Migration, VerifyStep(m)
    PROVE  Rest'
<1> USE DEF Inv, Rest, MatchesAreReal, CancelledAreAlive, PassedHasEvidence,
            EntryIsAlive, TypeOK, VerificationKubeTypeOK, serviceVars, kubeVars,
            verificationKubeVars, watcherVars, StartGoes, SetVerification
<1>1. CASE Triggers(m)
  BY <1>1 DEF Triggers
<1> SUFFICES ASSUME NEW v \in Caller, StartChecks(m, v) \/ StartProceeds(m, v)
             PROVE  Rest'
  BY <1>1 DEF VerifyStep
<1>2. CASE StartChecks(m, v)
  BY <1>2 DEF StartChecks
<1>3. CASE StartDeletesJob(m, v)
  BY <1>3 DEF StartDeletesJob, DeleteVerificationJob, RemoveVerificationJob
<1>4. CASE StartMarks(m, v)
  BY <1>4 DEF StartMarks
<1>5. CASE StartCreatesJob(m, v)
  BY <1>5 DEF StartCreatesJob
<1>6. CASE StartFails(m, v)
  BY <1>6 DEF StartFails
<1>7. CASE StartRegisters(m, v)
  BY <1>7 DEF StartRegisters
<1> QED
  BY <1>2, <1>3, <1>4, <1>5, <1>6, <1>7 DEF StartProceeds

\* A watcher passes what it read, what it read was printed, and it calls an entry
\* that is alive (verify.go:85-154).
LEMMA WatchKeeps ==
    ASSUME Inv, NEW m \in Migration, NEW w \in Watcher, VWatchStepOf(m, w)
    PROVE  Rest'
<1> USE DEF Inv, Rest, MatchesAreReal, CancelledAreAlive, PassedHasEvidence,
            EntryIsAlive, TypeOK, VerificationKubeTypeOK, serviceVars, kubeVars,
            verificationKubeVars, VWatchGoes, SetVerification
<1>1. CASE VWatchTicks(m, w)
  BY <1>1 DEF VWatchTicks
<1>2. CASE VWatchStops(m, w)
  BY <1>2 DEF VWatchStops
<1>3. CASE PollGetsVJob(m, w)
  BY <1>3 DEF PollGetsVJob
<1>4. CASE PollFindsNoVJob(m, w)
  BY <1>4 DEF PollFindsNoVJob
<1>5. CASE PollReadsVLogs(m, w)
  BY <1>5 DEF PollReadsVLogs, LoggedPods, NothingSeen
<1>6. CASE PollWritesVerdict(m, w)
  BY <1>6 DEF PollWritesVerdict, PolledVerdict, NothingSeen
<1>7. CASE VWatchReleases(m, w)
  BY <1>7 DEF VWatchReleases
<1> QED
  BY <1>1, <1>2, <1>3, <1>4, <1>5, <1>6, <1>7 DEF VWatchStepOf, VWatchProceeds

\* A pod that finds a match prints it, and deletion moves pods without changing
\* what they printed (k8s/verify.go:16-85).
LEMMA JobKeeps ==
    ASSUME Inv, NEW m \in Migration, VJobStep(m) \/ VJobIsRemoved(m)
    PROVE  Rest'
<1> USE DEF Inv, Rest, MatchesAreReal, CancelledAreAlive, PassedHasEvidence,
            EntryIsAlive, TypeOK, VerificationKubeTypeOK, serviceVars,
            verificationVars, VJobStep, VJobIsRemoved, VPodResult, NotesResult
<1>1. CASE VPodStarts(m)
  BY <1>1 DEF VPodStarts
<1>2. CASE VPodEnds(m)
  BY <1>2 DEF VPodEnds
<1>3. CASE VJobEnds(m)
  BY <1>3 DEF VJobEnds
<1>4. CASE VJobExpires(m)
  BY <1>4 DEF VJobExpires, RemoveVerificationJob
<1>5. CASE LeftoverEnds(m)
  BY <1>5 DEF LeftoverEnds
<1>6. CASE LeftoverCollected(m)
  BY <1>6 DEF LeftoverCollected
<1> QED
  BY <1>1, <1>2, <1>3, <1>4, <1>5, <1>6 DEF VerificationKubeStep

\* So the rest of the invariant survives every step, those of service.go and the
\* crash included.
LEMMA RestStep == Inv /\ [Next]_vars => Rest'
<1> SUFFICES ASSUME Inv, [Next]_vars PROVE Rest'
  OBVIOUS
<1> USE DEF Inv, Rest, MatchesAreReal, CancelledAreAlive, PassedHasEvidence,
            EntryIsAlive, TypeOK, VerificationKubeTypeOK, verificationKubeVars,
            verificationVars
<1>1. ASSUME NEW m \in Migration, StatusMoves(m) PROVE Rest'
  BY <1>1 DEF StatusMoves, kubeVars
<1>2. ASSUME NEW m \in Migration, CleanupRemovesVJob(m) PROVE Rest'
  BY <1>2 DEF CleanupRemovesVJob, RemoveVerificationJob, serviceVars
<1>3. CASE ServerCrash
  BY <1>3 DEF ServerCrash, VerificationCrash, ServiceCrash, NothingSeen, kubeVars
<1>4. CASE UNCHANGED vars
  BY <1>4 DEF vars
<1> QED
  BY <1>1, <1>2, <1>3, <1>4, StartKeeps, WatchKeeps, JobKeeps DEF Next, ServiceStep

-----------------------------------------------------------------------------
(* The theorems.                                                           *)

\* The inductive invariant holds throughout: any number of callers, watchers,
\* Jobs and left-over pods, a Cleanup at any time and crashes all keep it.
THEOREM Invariance == Spec => []Inv
<1>1. Inv /\ [Next]_vars => Inv'
  BY TypesStep, RestStep DEF Inv
<1> QED
  BY InitInv, <1>1, PTL DEF Spec

\* Every variable of verify.go's component keeps its type.
THEOREM TypeCorrectness == Spec => []TypeOK
<1>1. Inv => TypeOK
  BY DEF Inv
<1> QED
  BY <1>1, Invariance, PTL

\* No verification passes without a pod that printed so, however many callers
\* and watchers meet (verify.go:125-134, k8s/verify.go:235-286).
THEOREM Evidence == Spec => []PassedHasEvidence
<1>1. Inv => PassedHasEvidence
  BY DEF Inv, Rest
<1> QED
  BY <1>1, Invariance, PTL

\* The entry of the cancel map is a goroutine that is still there
\* (verify.go:67-69, 95-101).
THEOREM Liveliness == Spec => []EntryIsAlive
<1>1. Inv => EntryIsAlive
  BY DEF Inv, Rest
<1> QED
  BY <1>1, Invariance, PTL

-----------------------------------------------------------------------------
(* The automatic verification alone: no request is ever made.              *)

\* There is one run: first its start, then its only watcher, which owns the
\* entry, and what shows fits to where it stands.
OneRun ==
    \A m \in Migration:
        /\ m \in autoVerify => verification[m] = "none" /\ startPc[m][Automatic] = "idle"
        /\ startPc[m][Automatic] \in {"triggered", "delete", "mark"} =>
                verification[m] = "none"
        /\ startPc[m][Automatic] \in {"create", "failing", "register"} =>
                verification[m] = "running"
        /\ vctxDone[m] = {}
        /\ verification[m] = "running" =>
            \/ startPc[m][Automatic] \in {"create", "failing", "register"}
            \/ \E w \in Watcher: vwatchPc[m][w] # "none"
        /\ \A w \in Watcher: vwatchPc[m][w] # "none" =>
            /\ startPc[m][Automatic] = "idle"
            /\ verifyCancelFn[m] = w
            /\ vwatchPc[m][w] = "release" => verification[m] \in {"passed", "failed"}
            /\ vwatchPc[m][w] # "release" => verification[m] = "running"

Alone == TypeOK /\ OneRun

\* Nothing runs in a new Service.
LEMMA InitAlone == Init => Alone
<1> SUFFICES ASSUME Init PROVE Alone
  OBVIOUS
<1>1. TypeOK
  BY InitInv DEF Inv
<1>2. OneRun
  BY AutomaticIsCaller DEF Init, ServiceInit, VerificationInit, OneRun
<1> QED
  BY <1>1, <1>2 DEF Alone

\* The trigger and its start come first and hand over to the watcher
\* (verify.go:26-83).
LEMMA StartsAlone ==
    ASSUME VerifyRequest = {}, Alone, NEW m \in Migration, VerifyStep(m)
    PROVE  OneRun'
<1> USE AutomaticIsCaller
<1> USE DEF Alone, OneRun, TypeOK, ServiceTypeOK, serviceVars,
            watcherVars, StartGoes, SetVerification
<1>1. CASE Triggers(m)
  BY <1>1 DEF Triggers
<1> SUFFICES ASSUME StartChecks(m, Automatic) \/ StartProceeds(m, Automatic)
             PROVE  OneRun'
  BY <1>1 DEF VerifyStep, Caller
<1>2. CASE StartChecks(m, Automatic)
  BY <1>2 DEF StartChecks
<1>3. CASE StartDeletesJob(m, Automatic)
  BY <1>3 DEF StartDeletesJob
<1>4. CASE StartMarks(m, Automatic)
  BY <1>4 DEF StartMarks
<1>5. CASE StartCreatesJob(m, Automatic)
  BY <1>5 DEF StartCreatesJob
<1>6. CASE StartFails(m, Automatic)
  BY <1>6 DEF StartFails
<1>7. CASE StartRegisters(m, Automatic)
  BY <1>7 DEF StartRegisters
<1> QED
  BY <1>2, <1>3, <1>4, <1>5, <1>6, <1>7 DEF StartProceeds

\* The watcher runs until its verdict is written and cancels nobody else
\* (verify.go:85-154).
LEMMA WatchesAlone ==
    ASSUME Alone, NEW m \in Migration, NEW w \in Watcher, VWatchStepOf(m, w)
    PROVE  OneRun'
<1> USE AutomaticIsCaller
<1> USE DEF Alone, OneRun, TypeOK, serviceVars, VWatchGoes,
            SetVerification
<1>1. CASE VWatchTicks(m, w)
  BY <1>1 DEF VWatchTicks
<1>2. CASE VWatchStops(m, w)
  BY <1>2 DEF VWatchStops
<1>3. CASE PollGetsVJob(m, w)
  BY <1>3 DEF PollGetsVJob
<1>4. CASE PollFindsNoVJob(m, w)
  BY <1>4 DEF PollFindsNoVJob
<1>5. CASE PollReadsVLogs(m, w)
  BY <1>5 DEF PollReadsVLogs
<1>6. CASE PollWritesVerdict(m, w)
  BY <1>6 DEF PollWritesVerdict, PolledVerdict
<1>7. CASE VWatchReleases(m, w)
  BY <1>7 DEF VWatchReleases
<1> QED
  BY <1>1, <1>2, <1>3, <1>4, <1>5, <1>6, <1>7 DEF VWatchStepOf, VWatchProceeds

\* A completed migration is triggered once, since service.go does not complete
\* what has begun (service.go:223-235).
LEMMA StepAlone ==
    ASSUME VerifyRequest = {}, Alone, [Next]_vars
    PROVE  Alone'
<1> USE AutomaticIsCaller
<1> USE DEF OneRun, verificationVars
<1>1. TypeOK'
  BY TypesStep DEF Alone
<1>2. ASSUME NEW m \in Migration, StatusMoves(m) PROVE OneRun'
  BY <1>2 DEF Alone, StatusMoves, Begun, TypeOK, ServiceTypeOK
<1>3. ASSUME NEW m \in Migration,
             CleanupRemovesVJob(m) \/ VJobStep(m) \/ VJobIsRemoved(m)
      PROVE  OneRun'
  BY <1>3 DEF Alone, CleanupRemovesVJob, VJobStep, VJobIsRemoved, serviceVars
<1>4. CASE ServerCrash
  BY <1>1, <1>4 DEF Alone, ServerCrash, VerificationCrash, ServiceCrash
<1>5. CASE UNCHANGED vars
  BY <1>1, <1>5 DEF Alone, vars
<1> QED
  BY <1>1, <1>2, <1>3, <1>4, <1>5, StartsAlone, WatchesAlone
  DEF Next, ServiceStep, Alone

\* Without a request there is one run at a time.
LEMMA RunsAlone ==
    ASSUME VerifyRequest = {}
    PROVE  Spec => []Alone
<1>1. Alone /\ [Next]_vars => Alone'
  BY StepAlone
<1> QED
  BY InitAlone, <1>1, PTL DEF Spec

\* While only the automatic verification runs, a verdict that shows as running is
\* being worked on (verify.go:49-104).
THEOREM Tending ==
    ASSUME VerifyRequest = {}
    PROVE  Spec => []RunningIsTended
<1>1. Alone => RunningIsTended
  BY AutomaticIsCaller DEF Alone, OneRun, RunningIsTended
<1> QED
  BY <1>1, RunsAlone, PTL

-----------------------------------------------------------------------------
(* Any number of requests: one start after the other, each beside watchers *)
(* of earlier ones that are on their way out.                              *)

\* The goroutine can still come to write a verdict.
Armed(m, w) == vwatchPc[m][w] \notin {"none", "release"}

OneStart(m) == \A u, v \in Caller: Starting(m, u) /\ Starting(m, v) => u = v

\* What a start finds is a verdict or none, until it has marked it.
StartShows(m) ==
    \A v \in Caller:
        /\ startPc[m][v] \in {"delete", "mark"} => verification[m] # "running"
        /\ startPc[m][v] \in {"create", "failing", "register"} =>
                verification[m] = "running"

\* Who may write the verdict of an id is one: the start that is under way, which
\* finds no armed watcher, or the armed watcher, which finds no start; and until
\* it has written, what shows is "running".
OneWriter(m) ==
    \A w \in Watcher: Armed(m, w) =>
        /\ verification[m] = "running"
        /\ \A v \in Caller: ~Starting(m, v)
        /\ \A x \in Watcher: Armed(m, x) => x = w

Turn(m) == OneStart(m) /\ StartShows(m) /\ OneWriter(m)

Turns == \A m \in Migration \ overlapped: Turn(m)

InTurn == TypeOK /\ Turns

\* Nobody starts or watches in a new Service.
LEMMA InitInTurn == Init => InTurn
<1> SUFFICES ASSUME Init PROVE InTurn
  OBVIOUS
<1>1. TypeOK
  BY InitInv DEF Inv
<1>2. Turns
  BY DEF Init, VerificationInit, Turns, Turn, OneStart, StartShows, OneWriter,
         Starting, Armed
<1> QED
  BY <1>1, <1>2 DEF InTurn

\* A handler of one id leaves the others alone.
LEMMA OneInTurn ==
    ASSUME Turns, NEW m \in Migration, m \notin overlapped' => Turn(m)',
           overlapped \subseteq overlapped',
           \A n \in Migration \ {m}:
                /\ verification'[n] = verification[n]
                /\ startPc'[n] = startPc[n]
                /\ vwatchPc'[n] = vwatchPc[n]
    PROVE  Turns'
<1> SUFFICES ASSUME NEW n \in Migration \ overlapped, n # m
             PROVE  Turn(n)'
  BY DEF Turns
<1> QED
  BY DEF Turns, Turn, OneStart, StartShows, OneWriter, Starting, Armed

\* The steps of a start note whether another one is past the check.
LEMMA StartsAreNoted ==
    ASSUME TypeOK, NEW m \in Migration, NEW v \in Caller, NEW from, NEW to,
           StartGoes(m, v, from, to)
    PROVE  /\ startPc[m][v] = from
           /\ overlapped \subseteq overlapped'
           /\ \A n \in Migration \ {m}: startPc'[n] = startPc[n]
           /\ \A u \in Caller: startPc'[m][u] = IF u = v THEN to ELSE startPc[m][u]
           /\ m \notin overlapped' /\ OneStart(m) => OneStart(m)'
<1>1. /\ startPc[m][v] = from
      /\ overlapped \subseteq overlapped'
      /\ startPc' = [startPc EXCEPT ![m][v] = to]
      /\ m \notin overlapped' =>
            ~Starting(m, v)' \/ \A u \in Caller \ {v}: ~Starting(m, u)
  BY DEF StartGoes
<1>2. /\ \A n \in Migration \ {m}: startPc'[n] = startPc[n]
      /\ \A u \in Caller: startPc'[m][u] = IF u = v THEN to ELSE startPc[m][u]
  BY <1>1 DEF TypeOK
<1>3. \A u \in Caller \ {v}: Starting(m, u)' <=> Starting(m, u)
  BY <1>2 DEF Starting
<1> QED
  BY <1>1, <1>2, <1>3 DEF OneStart

\* Once it is past the check, a start has the id to itself: neither another one
\* nor an armed watcher is there.
LEMMA StarterIsAlone ==
    ASSUME NEW m \in Migration, Turn(m), NEW v \in Caller, Starting(m, v)
    PROVE  /\ \A u \in Caller: Starting(m, u) => u = v
           /\ \A w \in Watcher: ~Armed(m, w)
  BY DEF Turn, OneStart, OneWriter

\* A start passes the check only when no watcher is armed; it marks, and then
\* gives up or arms the one it leaves behind (verify.go:26-71).
LEMMA StartsInTurn ==
    ASSUME InTurn, NEW m \in Migration, NEW v \in Caller,
           StartChecks(m, v) \/ StartProceeds(m, v)
    PROVE  Turns'
<1> USE DEF TypeOK, serviceVars, watcherVars, SetVerification
<1> DEFINE Elsewhere ==
        /\ overlapped \subseteq overlapped'
        /\ \A n \in Migration \ {m}:
            /\ verification'[n] = verification[n]
            /\ startPc'[n] = startPc[n]
            /\ vwatchPc'[n] = vwatchPc[n]
<1> SUFFICES Elsewhere /\ (m \notin overlapped' => Turn(m)')
  BY OneInTurn DEF InTurn
<1>1. CASE StartChecks(m, v)
  <2> DEFINE from == IF v = Automatic THEN "triggered" ELSE "idle"
             to == IF status[m] = "completed" /\ verification[m] # "running"
                   THEN "delete" ELSE "idle"
  <2>1. StartGoes(m, v, from, to) /\ UNCHANGED <<verification, vwatchPc>>
    BY <1>1 DEF StartChecks
  <2>2. to = "idle" \/ (to = "delete" /\ verification[m] # "running")
    OBVIOUS
  <2> HIDE DEF from, to
  <2>3. /\ Elsewhere
        /\ m \notin overlapped' /\ OneStart(m) => OneStart(m)'
        /\ \A u \in Caller: u # v => startPc'[m][u] = startPc[m][u]
        /\ \/ startPc'[m][v] = "idle"
           \/ startPc'[m][v] = "delete" /\ verification[m] # "running"
        /\ UNCHANGED <<verification, vwatchPc>>
    BY <2>1, <2>2, StartsAreNoted DEF InTurn
  <2>4. ASSUME m \notin overlapped' PROVE Turn(m)'
    <3>1. Turn(m)
      BY <2>3, <2>4 DEF InTurn, Turns
    <3>2. OneStart(m)' /\ StartShows(m)'
      BY <2>3, <2>4, <3>1 DEF Turn, StartShows
    <3>3. OneWriter(m)'
      BY <2>3, <3>1 DEF Turn, OneWriter, Starting, Armed
    <3> QED
      BY <3>2, <3>3 DEF Turn
  <2> QED
    BY <2>3, <2>4
<1>2. CASE StartDeletesJob(m, v) \/ StartCreatesJob(m, v)
  <2>1. PICK from \in {"delete", "create"}, to \in {"mark", "register", "failing"}:
            /\ StartGoes(m, v, from, to)
            /\ from = "delete" <=> to = "mark"
    BY <1>2 DEF StartDeletesJob, StartCreatesJob
  <2>2. UNCHANGED <<verification, vwatchPc>>
    BY <1>2 DEF StartDeletesJob, StartCreatesJob
  <2>3. /\ Elsewhere
        /\ m \notin overlapped' /\ OneStart(m) => OneStart(m)'
        /\ \A u \in Caller: u # v => startPc'[m][u] = startPc[m][u]
        /\ \/ startPc[m][v] = "delete" /\ startPc'[m][v] = "mark"
           \/ startPc[m][v] = "create" /\ startPc'[m][v] \in {"register", "failing"}
        /\ UNCHANGED <<verification, vwatchPc>>
    BY <2>1, <2>2, StartsAreNoted DEF InTurn
  <2>4. ASSUME m \notin overlapped' PROVE Turn(m)'
    <3>1. Turn(m)
      BY <2>3, <2>4 DEF InTurn, Turns
    <3>2. OneStart(m)' /\ StartShows(m)'
      BY <2>3, <2>4, <3>1 DEF Turn, StartShows
    <3>3. OneWriter(m)'
      BY <2>3, <3>1 DEF Turn, OneWriter, Starting, Armed
    <3> QED
      BY <3>2, <3>3 DEF Turn
  <2> QED
    BY <2>3, <2>4
<1>3. CASE StartMarks(m, v) \/ StartFails(m, v)
  <2>1. PICK from \in {"mark", "failing"}, to \in {"create", "idle"}:
            /\ StartGoes(m, v, from, to)
            /\ SetVerification(m, IF to = "create" THEN "running" ELSE "failed")
    BY <1>3 DEF StartMarks, StartFails
  <2>2. UNCHANGED vwatchPc
    BY <1>3 DEF StartMarks, StartFails
  <2>3. /\ Elsewhere
        /\ m \notin overlapped' /\ OneStart(m) => OneStart(m)'
        /\ \A u \in Caller: u # v => startPc'[m][u] = startPc[m][u]
        /\ startPc[m][v] \in {"mark", "failing"}
        /\ \/ startPc'[m][v] = "create" /\ verification'[m] = "running"
           \/ startPc'[m][v] = "idle" /\ verification'[m] = "failed"
        /\ UNCHANGED vwatchPc
    BY <2>1, <2>2, StartsAreNoted DEF InTurn
  <2>4. ASSUME m \notin overlapped' PROVE Turn(m)'
    <3>1. Turn(m)
      BY <2>3, <2>4 DEF InTurn, Turns
    <3>2. /\ \A u \in Caller: Starting(m, u) => u = v
          /\ \A w \in Watcher: ~Armed(m, w)
      BY <2>3, <3>1, StarterIsAlone DEF Starting
    <3>3. StartShows(m)'
      BY <2>3, <3>2 DEF StartShows, Starting
    <3>4. OneWriter(m)'
      BY <2>3, <3>2 DEF OneWriter, Armed
    <3> QED
      BY <2>3, <2>4, <3>1, <3>3, <3>4 DEF Turn
  <2> QED
    BY <2>3, <2>4
<1>4. CASE StartRegisters(m, v)
  <2>1. PICK w \in Watcher: vwatchPc' = [vwatchPc EXCEPT ![m][w] = "select"]
    BY <1>4 DEF StartRegisters
  <2>2. StartGoes(m, v, "register", "idle") /\ UNCHANGED verification
    BY <1>4 DEF StartRegisters
  <2>3. /\ Elsewhere
        /\ m \notin overlapped' /\ OneStart(m) => OneStart(m)'
        /\ \A u \in Caller: u # v => startPc'[m][u] = startPc[m][u]
        /\ startPc[m][v] = "register" /\ startPc'[m][v] = "idle"
        /\ \A x \in Watcher: x # w => vwatchPc'[m][x] = vwatchPc[m][x]
        /\ UNCHANGED verification
    BY <2>1, <2>2, StartsAreNoted DEF InTurn
  <2>4. ASSUME m \notin overlapped' PROVE Turn(m)'
    <3>1. Turn(m)
      BY <2>3, <2>4 DEF InTurn, Turns
    <3>2. /\ \A u \in Caller: Starting(m, u) => u = v
          /\ \A x \in Watcher: ~Armed(m, x)
          /\ verification[m] = "running"
      BY <2>3, <3>1, StarterIsAlone DEF Starting, Turn, StartShows
    <3>3. /\ \A u \in Caller: ~Starting(m, u)'
          /\ \A x \in Watcher: Armed(m, x)' => x = w
      BY <2>3, <3>2 DEF Starting, Armed
    <3>4. StartShows(m)' /\ OneWriter(m)'
      BY <2>3, <3>2, <3>3 DEF StartShows, OneWriter, Starting
    <3> QED
      BY <2>3, <2>4, <3>1, <3>4 DEF Turn
  <2> QED
    BY <2>3, <2>4
<1> QED
  BY <1>1, <1>2, <1>3, <1>4 DEF StartProceeds

\* The trigger only takes over what StartVerification will check (verify.go:74-83).
LEMMA TriggerInTurn ==
    ASSUME InTurn, NEW m \in Migration, Triggers(m)
    PROVE  Turns'
<1>1. /\ overlapped \subseteq overlapped'
      /\ \A n \in Migration \ {m}: startPc'[n] = startPc[n]
      /\ m \notin overlapped' /\ OneStart(m) => OneStart(m)'
      /\ \A u \in Caller: startPc'[m][u] \in {startPc[m][u], "idle", "triggered"}
      /\ UNCHANGED <<verification, vwatchPc>>
  BY AutomaticIsCaller, StartsAreNoted DEF InTurn, Triggers, watcherVars
<1>2. ASSUME m \notin overlapped' PROVE Turn(m)'
  <2>1. Turn(m)
    BY <1>1, <1>2 DEF InTurn, Turns
  <2>2. OneStart(m)' /\ StartShows(m)'
    BY <1>1, <1>2, <2>1 DEF Turn, StartShows
  <2>3. OneWriter(m)'
    BY <1>1, <2>1 DEF Turn, OneWriter, Starting, Armed
  <2> QED
    BY <2>2, <2>3 DEF Turn
<1> QED
  BY <1>1, <1>2, OneInTurn DEF InTurn

\* A watcher that has written is armed no more, whomever its late return cancels
\* (verify.go:85-154).
LEMMA WatchesInTurn ==
    ASSUME InTurn, NEW m \in Migration, NEW w \in Watcher, VWatchStepOf(m, w)
    PROVE  Turns'
<1> USE DEF TypeOK, serviceVars, VWatchGoes, SetVerification
<1>1. CASE PollWritesVerdict(m, w)
  <2> DEFINE verdict == PolledVerdict(vseen[m][w].job, vseen[m][w].logs)
  <2>1. /\ vwatchPc[m][w] = "write"
        /\ vwatchPc' = [vwatchPc EXCEPT ![m][w] = "release"]
        /\ verification' = [verification EXCEPT ![m] = verdict]
        /\ UNCHANGED <<startPc, overlapped>>
    BY <1>1 DEF PollWritesVerdict
  <2> HIDE DEF verdict
  <2>2. ASSUME m \notin overlapped PROVE Turn(m)'
    <3>1. /\ \A u \in Caller: ~Starting(m, u)
          /\ \A x \in Watcher: Armed(m, x) => x = w
      BY <2>1, <2>2 DEF InTurn, Turns, Turn, OneWriter, Armed
    <3>2. OneStart(m)' /\ StartShows(m)'
      BY <2>1, <3>1 DEF OneStart, StartShows, Starting
    <3>3. OneWriter(m)'
      BY <2>1, <3>1 DEF InTurn, OneWriter, Armed
    <3> QED
      BY <3>2, <3>3 DEF Turn
  <2> QED
    BY <2>1, <2>2, OneInTurn DEF InTurn
<1>2. ASSUME UNCHANGED <<startPc, overlapped, verification>>,
             \A n \in Migration: \A x \in Watcher: Armed(n, x)' => Armed(n, x)
      PROVE  Turns'
  BY <1>2 DEF InTurn, Turns, Turn, OneStart, StartShows, OneWriter, Starting
<1>3. CASE VWatchTicks(m, w)
  BY <1>2, <1>3 DEF VWatchTicks, InTurn, Armed
<1>4. CASE VWatchStops(m, w)
  BY <1>2, <1>4 DEF VWatchStops, InTurn, Armed
<1>5. CASE PollGetsVJob(m, w)
  BY <1>2, <1>5 DEF PollGetsVJob, InTurn, Armed
<1>6. CASE PollFindsNoVJob(m, w)
  BY <1>2, <1>6 DEF PollFindsNoVJob, InTurn, Armed
<1>7. CASE PollReadsVLogs(m, w)
  BY <1>2, <1>7 DEF PollReadsVLogs, InTurn, Armed
<1>8. CASE VWatchReleases(m, w)
  BY <1>2, <1>8 DEF VWatchReleases, InTurn, Armed
<1> QED
  BY <1>1, <1>3, <1>4, <1>5, <1>6, <1>7, <1>8 DEF VWatchStepOf, VWatchProceeds

LEMMA StepInTurn ==
    ASSUME InTurn, [Next]_vars
    PROVE  InTurn'
<1> USE DEF verificationVars
<1>1. TypeOK'
  BY TypesStep DEF InTurn
<1>2. ASSUME UNCHANGED <<startPc, overlapped, verification, vwatchPc>> PROVE Turns'
  BY <1>2 DEF InTurn, Turns, Turn, OneStart, StartShows, OneWriter, Starting, Armed
<1>3. ASSUME NEW m \in Migration,
             StatusMoves(m) \/ CleanupRemovesVJob(m) \/ VJobStep(m) \/ VJobIsRemoved(m)
      PROVE  Turns'
  BY <1>2, <1>3 DEF StatusMoves, CleanupRemovesVJob, VJobStep, VJobIsRemoved, serviceVars
<1>4. CASE ServerCrash
  <2>1. Turns'
    BY <1>4 DEF ServerCrash, VerificationCrash, Turns, Turn, OneStart, StartShows,
                OneWriter, Starting, Armed
  <2> QED
    BY <1>1, <2>1 DEF InTurn
<1>5. CASE UNCHANGED vars
  BY <1>1, <1>2, <1>5 DEF vars, InTurn
<1> QED
  BY <1>1, <1>3, <1>4, <1>5, StartsInTurn, TriggerInTurn, WatchesInTurn
  DEF Next, ServiceStep, VerifyStep, InTurn

\* However many requests there are, an id whose starts have not overlapped has one
\* writer at a time.
LEMMA RunsInTurn == Spec => []InTurn
<1>1. InTurn /\ [Next]_vars => InTurn'
  BY StepInTurn
<1> QED
  BY InitInTurn, <1>1, PTL DEF Spec

\* No start and no watcher writes a second verdict (verify.go:49-71, 125-151).
LEMMA WritersInTurn ==
    ASSUME InTurn, [Next]_vars, NEW m \in Migration \ overlapped,
           verification[m] \in {"passed", "failed"}
    PROVE  verification'[m] \in {verification[m], "running", "none"}
<1> USE DEF TypeOK, serviceVars, verificationVars, watcherVars, SetVerification,
            StartGoes, VWatchGoes
<1>1. ASSUME NEW n \in Migration, Triggers(n)
      PROVE  verification'[m] = verification[m]
  BY <1>1 DEF Triggers
<1>2. ASSUME NEW n \in Migration, NEW v \in Caller, StartChecks(n, v) \/ StartProceeds(n, v)
      PROVE  verification'[m] \in {verification[m], "running"}
  <2>1. CASE StartFails(n, v)
    <3>1. n \notin overlapped => verification[n] = "running"
      BY <2>1 DEF InTurn, Turns, Turn, StartShows, StartFails
    <3> QED
      BY <2>1, <3>1 DEF InTurn, StartFails
  <2>2. CASE StartMarks(n, v)
    BY <2>2 DEF InTurn, StartMarks
  <2> QED
    BY <1>2, <2>1, <2>2 DEF StartProceeds, StartChecks, StartDeletesJob, StartCreatesJob,
                            StartRegisters
<1>3. ASSUME NEW n \in Migration, NEW w \in Watcher, VWatchStepOf(n, w)
      PROVE  verification'[m] = verification[m]
  <2>1. CASE PollWritesVerdict(n, w)
    <3>1. n \notin overlapped => verification[n] = "running"
      BY <2>1 DEF InTurn, Turns, Turn, OneWriter, Armed, PollWritesVerdict
    <3> DEFINE verdict == PolledVerdict(vseen[n][w].job, vseen[n][w].logs)
    <3>2. verification' = [verification EXCEPT ![n] = verdict]
      BY <2>1 DEF PollWritesVerdict
    <3> HIDE DEF verdict
    <3> QED
      BY <3>1, <3>2 DEF InTurn
  <2> QED
    BY <1>3, <2>1 DEF VWatchStepOf, VWatchProceeds, VWatchTicks, VWatchStops, PollGetsVJob,
                      PollFindsNoVJob, PollReadsVLogs, VWatchReleases
<1>4. ASSUME NEW n \in Migration,
             VJobStep(n) \/ VJobIsRemoved(n) \/ StatusMoves(n) \/ CleanupRemovesVJob(n)
      PROVE  verification'[m] = verification[m]
  BY <1>4 DEF VJobStep, VJobIsRemoved, StatusMoves, CleanupRemovesVJob
<1>5. CASE ServerCrash
  BY <1>5 DEF ServerCrash, ServiceCrash
<1>6. CASE UNCHANGED vars
  BY <1>6 DEF vars
<1> QED
  BY <1>1, <1>2, <1>3, <1>4, <1>5, <1>6 DEF Next, ServiceStep, VerifyStep

\* A verdict stays until the next start marks it or the server restarts, for every
\* number of requests and re-runs and whatever they leave behind, unless two
\* starts of the id were past the check at once (verify.go:32-71, 85-154).
THEOREM Staying == Spec => VerdictStays
<1>1. InTurn /\ [Next]_vars =>
        [\A m \in Migration \ overlapped:
            verification[m] \in {"passed", "failed"} =>
                \/ verification'[m] = verification[m]
                \/ verification'[m] \in {"running", "none"}]_vars
  BY WritersInTurn
<1> QED
  BY <1>1, RunsInTurn, PTL DEF VerdictStays, Spec
=============================================================================
