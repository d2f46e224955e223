# Verification of the CNPG migrator

TLA+ models of the program that moves PostgreSQL databases into CloudNativePG
clusters: what its goroutines do to one shared record, one cancel map and one
cluster, what the scripts it generates do to two database servers, how a
migration gets its PostgreSQL versions, what its page shows of a migration, the
properties that make all this correct, the TLC runs that check them on small
instances and the TLAPS proofs that hold for every instance.

Paths like `service.go:114` are short for files under `src/backend/internal/`
(`migration/service.go`, `migration/verify.go`, `k8s/client.go`,
`k8s/verify.go`, `config/config.go`, `api/handler.go`) and, for `.tsx`, under
`src/frontend/src/`; `README.md:208` is the repository's own README.

## 1. The system

| Part | State | Operations | Model |
|---|---|---|---|
| Migration service, `migration/service.go` | the record of each migration (`Status`), `s.cancel[id]`, one `watch` goroutine per migration | `Create`, `Cancel`, `Cleanup`, `watch`/`poll` | `MigrationService`, abstractly `MigrationLifecycle`; what precedes the id in `Create`: `VersionPolicy` |
| Verification service, `migration/verify.go` | `Migration.Verification`, `s.cancel["verify:"+id]`, `watchVerification` goroutines | `StartVerification`, `triggerVerificationIfNeeded`, `watchVerification`/`pollVerification` | `VerificationService` |
| Store, `store/store.go` | a map of pointers and a map of log lines, in memory only | `Create`, `Get`, `Update`, `List`, logs | `ServiceState` (not the logs) |
| Kubernetes client, `k8s/client.go`, `k8s/verify.go`, and the cluster behind it | PVC, migration Job and pod, verification Job and pods | create, get, delete, read logs; scheduling, ends, TTL, garbage collection | `Kubernetes` |
| Dump and restore scripts, `k8s/client.go` | databases of two servers, dumps on the PVC | the init container and the main container of the Job | `JobPipeline` |
| Verification script and parser, `k8s/verify.go` | listings, counters, output lines | the comparison loop, `ParseVerificationLogs` | `SizeVerification` |
| HTTP handlers, `api/handler.go` | none | one call of the service each, in a goroutine per request | as concurrent requests of the service modules; their answers in `CreateForm` and `DetailPanel` |
| Configuration, `config/config.go` | constants of a process | parsing of versions, images, tolerations; image lookup | `VersionPolicy` (versions and images) |
| Server start, `cmd/server/main.go` | none | wiring; no shutdown handling | `ServerCrash` |
| Web interface, `MigrationForm.tsx` | the configuration it got, its options | `getConfig` with a fallback, two selects, the POST | `CreateForm` |
| Web interface, `App.tsx`, `MigrationDetail.tsx` | tab, selection, the migration on display, calls under way | polls the API every 3 seconds, Cancel, Cleanup, Re-run | `DetailPanel` |
| Helm charts, Dockerfile, Makefile | none | deployment of one replica | not modelled: static configuration |

### How they interact

A handler calls the service in the goroutine of its request. `Create` puts a
record into the store, creates the PVC and the Job, writes `dumping` and starts
`watch`. `watch` polls the Job at every tick and writes what it saw to the
record; the poll that finds success starts `triggerVerificationIfNeeded`, which
starts the verification Job and `watchVerification`. `Cancel` and `Cleanup` act
on the same objects at any time. The store's lock protects the map and not the
records: `Get` hands out the pointer that is in the map, so all goroutines read
and write the same record. `s.cancel` has no lock at all.

The page asks for the configuration when its form opens and posts what the form
holds; the server fills in what is missing, checks the versions against its own
list and picks the images. The answer's id becomes the selection, whose panel
polls the record and offers the requests that fit the status it shows. Nothing
ties an answer to the selection it was asked for.

### What is hard about it

- **Interleaving.** `Create`, `Cancel`, `Cleanup`, `StartVerification` and two
  kinds of watchers for one id, each a sequence of reads, API calls and writes.
- **Stale reads.** A poll reads Job and logs in two calls and writes after both;
  `GetPodLogs` takes the first pod with the Job's label, which after a re-run
  may be the pod of the deleted Job.
- **Lost answers and dropped errors.** A call may take effect and fail (handlers
  pass the request's context); every deletion's error is dropped.
- **Restarts.** Nothing is persisted. Jobs, pods and claims outlive the process
  that knows their ids.
- **Liveness.** One goroutine settles a migration; it must survive outages, stop
  when cancelled, and not be left waiting.
- **A page behind its server.** Answers arrive late, out of order or not at all,
  the selection moves meanwhile, and the configuration the form goes by may be
  that of a server that has been replaced.
- **Shell scripts.** `set -e`, loops with `continue`, truncating division, and
  `psql`'s exit status decide whether "success" means anything.

`PROJECT.json` lists each hazard at its line, with the properties that cover it
or the reason why none does.

### What makes each part correct

- Migration service: a status is backed by what the pod really did; an active
  migration is watched; a live watcher can be cancelled; what is completed is not
  reopened; a migration settles; a cancelled watcher ends.
- Verification service: a pass has evidence; a running verification is tended;
  a verdict stays until the next run; the automatic verification gets to a verdict; nothing is
  verified that was not restored.
- Versions: what is created is what the form showed; what it offers is accepted;
  the restore client is not older than either server; dump, restore and
  verification use images of the list.
- Page: it comes to show the migration that is selected, and buttons come back.
- Scripts: a successful Job restored everything that was wanted; the target is
  not touched before the dump is complete; the verdict of the comparison is
  exactly the intended predicate on the two servers.

## 2. Modules

```
Kubernetes            the API calls and the life of Jobs and pods
  ServiceState        the shared record, the cancel map, the crash
    MigrationService       service.go        -> MCMigrationService
      MigrationLifecycle     what it implements (INSTANCEd)
      MigrationServiceProofs
        MigrationLifecycleProofs
    VerificationService    verify.go         -> MCVerificationService
      VerificationServiceProofs
    Migrator               both, INSTANCEd   -> MCMigrator
      MigratorProofs
JobPipeline           the Job's two scripts  -> MCJobPipeline
  JobPipelineProofs
SizeVerification      the comparison script  -> MCSizeVerification
  SizeVerificationProofs
VersionPolicy         versions and images, as operators
  CreateForm          the form and the POST  -> MCCreateForm
    CreateFormProofs
DetailPanel           the panel of a migration -> MCDetailPanel
  DetailPanelProofs
```

**Kubernetes.** Objects are indexed by migration, since names are built from the
id (`service.go:79-80`, `verify.go:84`; the eight characters used are assumed to
identify it). `CreatePVC`, `CreateMigrationJob`, `CreateVerificationJob` take the
result the caller sees and allow failure before and after the effect; deletions
return nothing because every caller drops the error. A deleted Job disappears at
once and leaves its pod behind (`DeletePropagationBackground`): the migration
pod in `pods`, verification pods in `leftover`. `LoggedPhases` and `LoggedPods`
say what a log read may find. `history` and `everMatched` are history variables:
no action reads them, properties do.

**ServiceState.** `status`, `verification`, `cancelFn` (ids in `s.cancel`),
`verifyCancelFn` (the goroutine behind `s.cancel["verify:"+id]`) and
`autoVerify` (spawned triggers that have not run). An assignment to a field of
the shared record is one step; `Update` puts back a pointer that is there.
`ServiceCrash` empties all of it. It is also what the runtime does at a
concurrent write of `s.cancel`, so that hazard needs no action of its own.

**MigrationService.** One pc per request and per watcher; each access to the
record, the cancel map or the cluster is a step, in the order of the code:

| Code | Actions |
|---|---|
| `Create` 65-123 | `CreateStores`, `CreatesPVC`, `CreatesJob`, `CreateFails`, `CreateStarts`, `CreateSpawnsWatch` |
| `Cancel` 138-165 | `CancelChecks`, `CancelSignals`, `CancelDeletesJob`, `CancelMarks` |
| `Cleanup` 167-182 | `CleanupChecks`, `CleanupDeletesJob`, `CleanupDeletesVerificationJob`, `CleanupDeletesPVC` |
| `watch`, `poll` 184-265 | `WatchTicks`, `WatchStops`, `PollGetsJob`, `PollFindsNoJob`, `PollReadsLogs`, `PollWrites`, `WatchChecks` |

A read of a field and the assignment that directly follows it (`wasCompleted`,
223-225) are one step. What `Create` does before it has an id is `VersionPolicy`'s;
a request refused there leaves no trace here. `JobStep` is the Job's life,
`JobIsRemoved` its TTL; `AutoVerifyRuns` stands for the other component.

**MigrationLifecycle.** What a client may rely on, without goroutines, API calls
or locals: five variables per migration, among them who looks after it (`stage`)
and what its pod has been through (`did`). `Reports` needs `Grounds`, and dumping
may be late news; only what is under way can be cancelled, but the mark may come
late; the watcher leaves what is over or cancelled, and nothing else.
`MigrationService!Implements` is the refinement: `stage` is read off the pcs of
`Create` and `watch` (`StageOf`), `asked` off those of `Cancel`. A Cleanup is a
stutter: it shows in no status.

**VerificationService.** The same for `verify.go`. A caller is a request or
`Automatic`, the goroutine of `triggerVerificationIfNeeded`. Several watchers of one id
may live at once (`Watcher` bounds how many; a registration waits for a free
name). `StatusMoves` and `CleanupRemovesVJob` stand for `service.go`: they are
what the environment may do, and `Migrator` checks that it does no more. `overlapped`
is a history variable, for `VerdictStays` alone: the ids for which two calls have been
past the check at once (`Starting`) since the server started.

**Migrator.** Both components over the same variables. Its steps are the
components' actions; the environment actions above disappear. Each component's
own specification is the abstract one here: `ImplementsMigrations` and
`ImplementsVerifications` check that the composition refines both, so that what
holds of a component with its assumed environment holds of the real backend. It
INSTANCEs the components through their proof modules, `MigrationLifecycleProofs`
and `VerificationServiceProofs`, which adds no definition the runs use but lets
`MigratorProofs` cite the components' theorems.

**JobPipeline.** `Lists`, `DumpSkips`, `Dumps`, `DumpBreaks`, `DumpEnds` are the
init container; `CreatesDatabase`, `Restores`, `RestoresWithErrors`,
`RestoreBreaks`, `RestoreEnds` the main container, in both modes (`options.all`).
A command that fails ends the Job (`set -euo pipefail`, `BackoffLimit` 0,
`RestartPolicyNever`). `SourceChanges` lets databases come and go meanwhile. The
commands for roles, owners, and the extension filter only matter by failing,
which `Killed` and `RestoreBreaks` include.

**SizeVerification.** A server is a function from names to sizes. One `Compares`
per line of the loop updates the output rows and the counters; `Parses` is
`ParseVerificationLogs`. Properties compare this with a reference definition
(`Examined`, `Tolerated`) that has no loop.

**VersionPolicy.** `Load` builds the list of versions from either variable, with
its defaults; `Completed`, `Valid` and `JobOf` are `Create` up to the id;
`ScriptClient` and `VerifyImage` are the two other places that choose a client. A
version is a value, `Major` what `Atoi` makes of it (0 for `16-bookworm`),
`Release` what it stands for; an image is a pair of a prefix and a version.

**CreateForm.** `Opens`, `ConfigArrives`/`ConfigFails`, `Chooses`, `Submits`,
`Answered` and `Closes` are the form; `IsScripted` any other client, with or
without versions; `Creates` is the server, whose configuration `Redeploys` may
replace at any time. A select shows its first option for a value that is not among
them and still posts the value: `Seen` and `choice` differ then. `post` remembers
what was seen when it was sent, for the properties alone.

**DetailPanel.** Steps are what JavaScript does between two awaits. `fetches` are
the calls of `fetchData` under way: those of the effect and its interval (`Poll`)
and the one a handler awaits. `Applies` sets what arrived without a look at the
id. A change of the selection keeps what is shown and all calls; leaving the tab
unmounts the panel and drops them. The server is `IsCreated`, `Moves`, `Restarts`
and the answers `IsAnswered`, `IsHandled`; a Cancel of what has ended is answered
like any other (`service.go:144-146`) and followed by its refresh; `FetchFails` and `IsLost` are errors and
lost messages. Of a status only active or ended is kept, which is what the
buttons depend on.

## 3. Runs

| Run | Specification | Shows |
|---|---|---|
| `migration` | `MigrationService!FairSpec` | `TypeOK`, `StatusHonest`, `ActiveIsWatched`, `WatcherIsReachable`, `CompletedNeverReopens`, `Implements`, `Settles`, `WatcherEnds` |
| `verify_concurrent` | `VerificationService!Spec` | `TypeOK`, `PassedHasEvidence`, `EntryIsAlive`, `VerdictStays` with a request beside `Automatic` |
| `migrator` | `Migrator!FairSpec` | `VerifiesOnlyRestored`, `AutoIsTended`, `VerdictFollows`, both refinements |
| `sizes` | `SizeVerification!Spec` | `TypeOK`, `VerdictIsExact`, `SummaryMatchesRows` |
| `job` | `JobPipeline!Spec` | `ArchiveIsComplete`, `TargetIsSafe` |
| `create` | `CreateForm!Spec` | `TypeOK`, `ShownIsUsed`, `OfferedIsAccepted`, `ClientServesBoth` |
| `panel` | `DetailPanel!FairSpec` | `TypeOK`, `HandlersTakeTurns`, `PanelConverges`, `ButtonsReturn` |
| `cancel_final` | `MigrationService!Spec` | refutes `CancelIsFinal` |
| `verify_ends` | `VerificationService!FairSpec` | refutes `RunningEnds` |
| `verify_current` | `VerificationService!Spec` | refutes `PassedIsCurrent` |
| `sizes_tolerance` | `SizeVerification!Spec` | refutes `UpToTenPercent` |
| `job_plain` | `JobPipeline!Spec` | refutes `SuccessIsComplete` |

### What the refuted properties show

- **A Cancel is not final** (`README.md:208`, and `service.go:144, 197`, which count
  cancelled among the ended statuses). A poll that has read the Job before the
  Cancel writes `dumping` after it (`service.go:252`), without a second look at the
  status. The property asks this only once `Create` has returned; `Create`'s own
  writes (90, 105, 113) can fall after a Cancel in the same way.
- **A verification may run for ever** (`README.md:87`). Cleanup removes its Job;
  the watcher polls a missing Job for ever, and no new verification can start
  while the old one shows as running.
- **A repeated verification may show the result of the one before**
  (`VerificationPanel.tsx:125`): `pods.Items[0]` of the label's list is the old
  pod.
- **Eleven percent are "up to 10%"** (`VerificationPanel.tsx:119`): the shell's
  division drops the fraction, 17 of 19 bytes pass. `VerdictIsExact` is about the
  predicate the script computes and holds; `UpToTenPercent` is what the page says.
- **A plain restore succeeds in spite of errors** (`client.go:501, 542`): `psql -f`
  goes on after an SQL error and exits 0.

### Bounds

- *One migration.* Migrations share only the process; every property is about
  one of them at a time and no action reads another's state. A crash that takes
  several down adds nothing for each. The proofs need no such bound.
- *Requests.* Two Cancels and one Cleanup (`migration`), one each in the
  composition; each may be sent again when it is through, so the number bounds how
  many overlap, not how many there are. Two overlapping Cancels are the smallest
  number where one removes an entry another one relies on. No run with a liveness
  property uses symmetry.
- *Verification.* `Automatic` and one request, two watchers (`verify_concurrent`): the
  smallest instance in which one watcher's release can hit another's entry; names
  of goroutines are symmetric there, and the properties are invariants and one step
  property. `VerdictStays` exempts an id from the moment two of its starts are past the
  check of `verify.go:36` together (`overlapped`): both then write, and one can write over
  the other's verdict. `migrator` has `Automatic` alone, because with a second caller a
  running verification may lose its watcher (section 5), and the product of all
  requests of both components is beyond TLC.
- *Versions.* `14`, `16` and `16a`, which is no integer; fourteen configurations:
  lists that are unset, complete, reversed, blank, or lack what a default names,
  pairs that are malformed, doubled or without a version. One POST is under way
  at a time: `Create` up to the id keeps no state two of them could share.
- *Panel.* Two migrations, so that the selection can move away and back; two
  unanswered polls besides a handler's own fetch, so that one can overtake the
  other and both can be of an earlier selection. `actionLoading` admits one
  handler.
- *Databases.* Three: two that are wanted, so that one can fail after the other,
  and an excluded one. Sizes 0, 9, 10, 17, 19: zero, exactly ten percent, the
  truncation (17 of 19 bytes is a difference of 10.5 percent), and far apart.

`CHECK_DEADLOCK FALSE` in every run: the system may really stop. A migration
whose Job is gone and whose requests are through has nothing left to do, a
script that has ended makes no step, and a page nobody uses waits.

### Fairness

Weak fairness of each goroutine's next step: the Go scheduler runs what can run.
Strong fairness of `WatchStops`/`VWatchStops`: a `select` picks among ready cases at
random, so a done context is chosen at some tick. Strong fairness of `PollGetsJob`
and `PollGetsVJob`: the API server answers some of the calls that keep being made,
outages end. Weak fairness of the cluster's steps: a pod that can be scheduled is,
and ends. None for requests, none for the TTL and none for the crash.

In the page: weak fairness of the interval, of every call's next step and of a
handler's next step, since the browser runs what can run and a lost answer ends
in an error; strong fairness of the answers to polls, since the server answers
some of the calls that keep being made. None for users, creations and restarts.

`TTLOutlastsPolling` is the one assumption about time: an ended Job is kept for
3600 seconds (`config.go:61`), a poll is made every 5, so no watcher is kept from
the API server for a whole TTL, and no start takes that long between creating the
Job and registering its watcher. It is TRUE in `verify_ends` alone, whose
counterexample therefore does not rest on the TTL, and FALSE, no assumption at
all, in every other run; `Settles` and `VerdictFollows` name the Job that vanished
under its watcher as a way out. The proofs hold for both values.

## 4. Proofs

`MigrationServiceProofs` proves the safety that `migration` checks, for every set
of migrations and of requests, and either value of `TTLOutlastsPolling`:
`TypeCorrectness`, `Honesty`, `Watching`, `Reachability`, `Completion`.

None of these is inductive alone. `StatusHonest` needs that what a poll holds in
its locals was true once (`SeenWasReal`: a Job that says `succeeded` had a pod that
did, and `history` never shrinks). `CompletedNeverReopens` needs that `Create`, which
writes `dumping` blindly, is through before a watcher exists (`CreateComesFirst`), and
that a poll under way means no completion yet (`PollsBeforeCompletion`); this is
where "the watcher is Create's last act" carries the argument. `Inv` is the
conjunction of these with the types and the safety properties; `TypesStep` and
`RestStep` show that every step keeps it, from one lemma per request, one for the
watcher and one for the Job. `Completion` is an action property and follows from
`Inv` by a case split on who writes a status (`CompletedStep`).

`VerificationServiceProofs` proves the safety that `verify_concurrent` checks, for
every set of migrations, requests and goroutine names: `TypeCorrectness`, `Evidence`
(`PassedHasEvidence`), `Liveliness` (`EntryIsAlive`). The invariant adds to them that
a match which may still be read, in a pod, a pod left behind or a watcher's locals,
was printed (`MatchesAreReal`), and that a watcher told to stop is still there and
its entry is not (`CancelledAreAlive`), without which the name of a goroutine that
returned could be given to a new one that is already cancelled.

`Staying` (`VerdictStays`) is about any number of requests too; re-runs may begin while
older watchers have yet to return and cancel the wrong one. What the code does not
survive is two starts of one id past the check at the same time, and the property is
about the ids that never had them since the server started. The invariant `InTurn` says
of these who may write: a start that is under way finds no armed watcher (one that may
still come to write) and an armed watcher finds no start (`OneWriter`), and what a start
finds or leaves shows how far it is (`StartShows`). So whoever writes a verdict writes it
over "running" (`WritersInTurn`). `RunningIsTended` does not hold even so (section 5):
`Tending` proves it without requests, which is what `AutoIsTended` checks of the
composition. Its invariant `OneRun` says that start and watcher of a migration hand
over to each other: one start, then one watcher, which owns the entry and is never
cancelled.

`JobPipelineProofs` proves `Safety` (`TargetIsSafe`) and `Completeness`
(`ArchiveIsComplete`) for every set of databases, of exclusions and of formats. The
invariant says of each loop that what is wanted is done or still to do
(`DumpLoop`, `RestoreLoop`), that the single mode lists one fixed name
(`ListedIsSet`), and that the target waits for the dump (`TargetWaits`). Types are
part of it.

`MigrationLifecycleProofs` proves `Refinement` (`Implements`). The initial states
correspond, and each action of the service is a step of the life cycle or a stutter:
one lemma each for `Create`, `Cancel`, `Cleanup`, the watcher, the Job and the crash.
A report's `Grounds` come from `SeenWasReal` of the invariant above, that no report
follows a completion from `PollsBeforeCompletion`; that the pod's events come in an
order the life cycle allows and at most once each needs `OneLife`, an invariant of
its own that ties `history` to the state of pod and Job.

`CreateFormProofs` proves `Shown` (`ShownIsUsed`), `Offered` (`OfferedIsAccepted`) and
`Client` (`ClientServesBoth`) for every set of versions and of environments. Its
invariant says that the form holds and sends defaults or options of its page, and
that a POST remembers what its selects displayed. `UsedIsDisplayed` carries the first
theorem: a value the server supports is in the list of its own page, so it is what the
select displayed; the fallback's list contains its defaults. `ImageIsListed` says
that the first entry of a version exists and is an entry, which needs the least
element of a set of positions.
Its types (`TypeCorrectness`) need no more than that a form opens on texts.

`MigratorProofs` proves that the composition implements both components:
`MigrationsRefined` (`ImplementsMigrations`) and `VerificationsRefined`
(`ImplementsVerifications`), for every set of migrations, requests and goroutine
names. The first is a step simulation that needs no invariant: of what
service.go has, a verification only takes over the trigger. The second is not,
because verify.go's environment promises more: it takes back no "completed" under
a verification that runs, and creates no id whose verification Job is around.
`Link` is the invariant for that, beside those of both components. Its parts say
what each goroutine may assume of the other file: a verification that has begun
finds Create and the poller through (`BegunIsOver`); nobody works on an id that
is not stored (`OnlyStoredIsWorkedOn`); a new id has no objects (`NewIsUnknown`);
a verification Job, which may outlive the server, belongs to a restore that
succeeded (`JobsAreOfRestored`); and verification work shows in the record
(`WorkShows`), without which a second trigger could start beside the first. From
the refinements and the components' theorems follow `LifecycleRefined` (the
backend follows `MigrationLifecycle`), `Staying` (the backend keeps
`VerdictStays`, with any requests) and `AutoTending` (`AutoIsTended`, for
`VerifyRequest = {}` as in the run); `OnlyRestored` (`VerifiesOnlyRestored`) needs both files at once and holds
with any requests.

`SizeVerificationProofs` proves `TypeCorrectness`, `Summary` (`SummaryMatchesRows`)
and `Exactness` (`VerdictIsExact`) for every set of names, every set of sizes and
both modes. The invariant says that a row means what its status says
(`LinesAreRight`), that each counter is the number of its rows, and that the
verdict is the script's last test (`VerdictIsScripts`). The loop needs that a name
gets its row once (`OneMoreRow`), the verdict that a counter is zero exactly when
no row has its status, and the tolerance the lemma `Truncation`: a quotient cut by
the shell is above 10 from eleven times the divisor on, so "up to 10%" is less
than eleven.

`DetailPanelProofs` proves `TypeCorrectness` and `Turns` (`HandlersTakeTurns`): a
handler waits for a refresh of the migration it acted on exactly while that
refresh is under way, so none is left over that would enable the buttons under
the next handler. It needs that the handler's fetch is none of the interval's
(`OwnAssumption`).

The assumptions are those of the modules. Of the backend: `WatcherAssumption`
(no watcher is no watcher), `TTLAssumption` (a Boolean), `AutoAssumption` and
`CallerAssumption` (the trigger is no request). Of the scripts:
`OptionsAssumption`, `SizeAssumption` (a size is a natural number) and
`NameAssumption` (the name of the single mode is a name). Of versions:
`MajorAssumption` (`Atoi` gives a version's release or 0), `BlankAssumption`,
`BuiltInAssumption` (the built-in default is in the built-in list) and
`EnvironmentAssumption` (a parsed list is a list, a default is a text). Of the
panel: `NoIdAssumption`, `OwnAssumption`.

Only model-checked: the liveness properties `Settles`, `WatcherEnds`,
`VerdictFollows`, `PanelConverges` and `ButtonsReturn`, because fairness and ENABLED
are beyond the prover. Every other property of a passing run has a theorem.
`AutoIsTended` has it for the case the run checks, no verification requests, since
it fails with them. The properties of the violation runs are refuted, so there is
nothing to prove.

## 5. Not modelled

- Logs kept for the user, times, error texts, the JSON of requests and answers.
  That every poll appends the whole pod log (`service.go:260`) is a hazard without
  a property: nothing reads the log but the page.
- Node selectors, tolerations, addresses, storage sizes, the poll interval.
- Routing, static files, CORS; the list's own polling and the rendering of records.
- Passwords and their removal from answers.
- The contents of databases beyond present, partly restored and complete.
- Shell word splitting: a database name is a value without inner structure.
- Two ids with the same first eight characters.
- Two migrations into one target, and a POST that is sent again after its answer
  was lost: the code excludes neither and promises nothing about them.
- Time, except for the order that `TTLOutlastsPolling` assumes.
- Helm charts, Dockerfile and Makefile: static configuration. That the chart
  deploys one replica is why one process owns the store.

Two things the code does that no property is about, because there is nothing to
promise of them:

- A verification may run with nobody to poll it. A watcher that has its verdict
  cancels, when it returns, whatever entry `s.cancel` holds (`verify.go:95-98`); when a
  re-run has registered by then, that is the new watcher. `RunningIsTended` therefore
  fails with requests, and is checked (`AutoIsTended`) and proved (`Tending`) without.
- The single mode looks up the source's name on the target (`k8s/verify.go:182-185`),
  while the restore writes `target.database` (`client.go:484`). `Examined` says what the
  script compares; with two names it is not what was restored.

A panel whose selection has just changed offers the buttons of the migration it
still shows, and they act on the new one (`MigrationDetail.tsx:158-186`).
`PanelConverges` says that this ends; that a click in between is to the wrong
migration is what the code does, and a migration the server has forgotten stays on
display for good.

## 6. Plan

Done: migration service, its abstract life cycle and the refinement; verification
service and the composition; scripts; versions and the form; the panel; proofs of
every invariant and action property of the passing runs and of all three
refinements.

Next, by importance:

1. Proofs: the safety behind `Settles` and `ButtonsReturn` (what holds while a
   goroutine or a handler is still to move).
2. Two migrations into one target, should the code come to exclude them.
3. The logs of the store, should something come to depend on them.

## 7. How to run

```
tlc -config Migration.cfg MCMigrationService
tlapm MigrationServiceProofs.tla
```

`PROJECT.json` names module and configuration of every run, the definitions that
model code with their lines, and for every property a mutation of the model that
violates it. Mutated operators stand beside the definition they replace and are
used by nothing.
