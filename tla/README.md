# A TLA+ model of the OrbitLane agent router

OrbitLane routes the sub-agents of coding assistants to models. Its command
line installs *guidance*, a *report* and, for Claude Code, *hooks* into a project
or into the user's home; the hooks then judge every call of the Agent tool, may
write a model into it, and append evidence that an estimator reads. This
directory models the parts of it where the order of steps matters: the
installer's transaction, who owns which hook, the walk of the guard, the
evidence files and what is estimated from them. Paths below are relative to the
repository.

## 1. Inventory

| Part | Code | State it keeps | Operations |
| --- | --- | --- | --- |
| installer transaction | `src/installer/index.js` | the target's files, a transaction directory with stages, backups and a manifest (`phase`) | `installOne`, `uninstallOne` (both through `runTarget`), `recoverRouting`, `previewRouting` |
| hook merge, receipts | `src/installer/index.js`, `bin/orbitlane.js`, `src/adapters/claude/index.js` | hooks in `settings.json`, the receipt in the report | `mergeSettings`, `previousGuardTuples`, `claudeTransitionAction`, `receiptAdapters` |
| command line | `bin/orbitlane.js` | none of its own | `install`, `uninstall` with `reclaimDerivedState`, `recover`, `estimate`, `eval`, catalog |
| contract resolution | `src/guards/resolve-contract.js` | none; reads reports and snapshots | `resolveEffectiveContract` |
| spawn guard | `src/guards/claude-spawn.js`, `claude-spawn-hook.js` | appends decisions | `evaluateClaudeAgentSpawn`, `runClaudeSpawnGuard` |
| usage observer | `src/guards/claude-usage-hook.js` | appends usages | `observeClaudeUsage` |
| evidence storage | `src/telemetry/storage.js`, `event.js`, `identity.js` | two JSONL files, the HMAC key | `appendJsonl`, `readJsonl`, event identifiers |
| Claude estimate input | `src/estimate/claude.js` | none; reads the project's files | deduplication, the selected collector, the tie of usages to decisions |
| Codex estimate input | `src/estimate/codex.js` | none; reads Codex's rollouts | one rollout per child, allocation of a session's usage |
| estimate | `src/estimate/index.js`, `confidence.js`, `pricing.js` | none | baseline, difference of costs, score, adjusted amount, report |
| projection | `src/telemetry/projector.js`, `baseline.js` | none | `projectEvents`: join and election (no command calls it) |
| configuration, policy | `src/config`, `src/policy` | none | `resolveLaneModels`, the allowlist, the refusal of a projection |
| catalog, schema, eval | `src/catalog`, `src/schema`, `src/eval` | none | validation, a scorer of transcripts |

How they interact. The command line plans a run from what it reads and hands
adapters to the installer, which reads the same files again, in a transaction
of its own. The installer's only output to the rest is the disk: the report
names the snapshots by digest, the settings name the hook runtime. The guard is a
process for every call; it reads the report and the snapshots of whatever
install it finds, at any time. Guard and observer are processes that share two
append-only files, with each other and with the estimator. Nothing takes a
lock anywhere.

What is hard, and what makes each part correct:

* **Transaction.** Many files, no atomic rename over all of them; steps fail,
  processes are killed, the rollback can fail or be killed too; the user edits
  two of the files all the while; two runs may overlap. Correct: all or nothing
  after recovery; no user edit lost that the run could have seen; the report
  last; "committing" on disk before the first rename; a terminal phase stays;
  every commit settles.
* **Hook ownership.** Hooks are told apart by exact command lines, fresh for
  every run; reports of four generations are around; the plan is made from a
  first read that may be stale. Correct: hooks of the user are never removed, a
  removal always rests on a receipt, no owned hook is orphaned or stacked, an uninstall
  leaves none whose runtime it removes (it does leave a copy that the user made of one, see section 3).
* **Uninstall.** The stores are removed after the transaction, outside of it.
  Correct: a report keeps its store, hooks keep their runtime, nothing is left but the key
  and what could not be removed, and the key is.
* **Guard.** Reads up to one report per root and two snapshots, while writers
  change them; routes are worked out by the install and again by the guard, maybe by
  a later version. Correct: the nearest report decides, what decides was in force,
  installs that are not rolled back never deny a spawn, a deliberate choice of a model stands, and what the
  guard injects is what the report says.
* **Estimate.** Integer arithmetic with roundings, copies of a file, files that grow
  while they are read. Correct: nothing counted twice or made up, the same
  answer for every listing, no amount without priced evidence.
* **Evidence.** Appends may be short and are not checked; a reader may see an
  unfinished line; hooks of old installs live on in running sessions; both layers may
  record a call; two readers tie usages to decisions on their own. Correct: a call is
  counted once, losses show (all but those in an unfinished last line), totals do not shrink, the readers agree, one layer is
  elected, and "high" confidence is kept for what is tied.

Every component, modelled or not, is in `PROJECT.json`; so are the hazards,
each at its line with the properties that watch it.

## 2. Modules

| Module | What it models |
| --- | --- |
| `AtomicUpdate` | abstract: a run changes all of its files in one step, or is refused |
| `InstallTransaction` | `runTarget` and `recoverRouting`, one action per step on disk |
| `InstallProperties` | what a run guarantees; the refinement of `AtomicUpdate` |
| `UninstallReclaim` | the reclaim after an uninstall, composed with `InstallTransaction` |
| `HookOwnership` | which hooks a run takes out, and when it is refused |
| `SpawnGuard` | the guard's walk, with writers between its reads, and its verdict |
| `EvidenceLog` | hook processes of both layers appending, the estimator reading |
| `EvidenceReaders` | what the estimator and the projector make of the evidence |
| `Estimate` | baseline, cost difference, score and amount, for both runtimes |
| `CodexEstimate` | rollouts read while they are written, tokens per model; over `Estimate` |
| `InstallProofs`, `RefinementProofs` | theorems of `InstallTransaction` |
| `ReclaimProofs` | theorems of `UninstallReclaim` |
| `HookProofs`, `SpawnProofs` | theorems of `HookOwnership` and of `SpawnGuard` |
| `EvidenceProofs` | theorems of `EvidenceLog` and `EvidenceReaders` |
| `CodexProofs` | theorems of `CodexEstimate`, and what they need of `Estimate` |
| `FiniteSums` | lemmas about sums over finite sets, for the last two |
| `MC*` | constants for TLC |

**InstallTransaction.** A file is `[exists, user, owned]`: the number of the
user's last edit in it and the run that wrote the installer's part; bytes are
abstracted to whose they are. `owned` can also be `old` (an earlier install),
`fresh` (a new key), `torn` (a directory half copied), `garbled` (bytes that
went through UTF-8) and `foreign` (a stage somebody changed). Of each run there is
the phase of its manifest, where its process is (`pc`), what its loop has still to
visit (`todo`), and what the run read (`snap`), which stands for the snapshots in memory
and the backups on disk alike: they are made together, and no step changes
them later. `Start` to `Complete` follow `runTarget`; `Abort` is `terminalFailure`
before the commit, `RestoreFile`, `ClearDir`, `CopyDir` and `EndRollback` are
`rollback`, and `Recover` starts the same actions for the `recover` command. That command looks at
the persisted phase and at nothing else, so it may meet a run that is still at work, or another
`recover`: the processes that come beside one that is there are the `Rivals`, one that comes when the
process has gone takes its place in `pc`. `FailRename` is a rename that fails because another process
was there first. A directory that two processes fill at a time holds what the later of them puts there.
`FailBefore`, `FailCommit`, `FailRestore` and `FailPersist` are the `catch` clauses,
by how far the run has come. `validateStages` and `originalsMatch` run twice, before
and after "committing" is written; so do `ValidateStages` and `CheckOriginal`.
The loop orders are functions of the file (`CommitsBefore`, `BackupsBefore`),
since they differ between install and uninstall and between commit and restore.
The Codex target is a job with fewer files; the two targets of one command
run one after the other on disjoint files, so that one of them is enough.

**HookOwnership** takes a transaction as one step, which `InstallTransaction`
justifies for runs that do not overlap; between a run's first read (`Prepare`)
and its commit anything may happen. `ReceiptHooks` says which hooks a report
proves to be OrbitLane's, a user may add, drop, move and copy hooks, and the two refusals (`InstallRefused`,
`UninstallRefused`) are the conditions of `claudeTransitionAction` and
`receiptAdapters`. `slipped` records that a report was lost, or overwritten by a run
that had no reason to read it, and `HooksTracked` says nothing from then on.

**UninstallReclaim** runs `reclaimDerivedState` after the transaction of an uninstall:
one look at the report, then one removal after the other, each of which may fail.
`DirOf` says in which directory of `.orbitlane` an asset is, `Holds` what goes with each of the three that
are removed.

**SpawnGuard** reads one file per action. Writers are the commits of
`InstallTransaction` cut down to what a guard can see, in the same order:
snapshots, report; the rollback in the reverse sense; an uninstall's report, and then
its store, unless it fails and puts the report back. A snapshot is absent, good or forged, which is all that the
comparison of digests tells apart. A contract gives roles lanes (`LaneOf`) and lanes
models (`Bound`), the runtime defaults give the model of a lane it leaves open
(`Official`); `LaneModel` is `resolveLaneModels`, `Projects` the refusal of an install
whose guidance would miss a lane, `Routable` the guard's, `Fault` the reason it gives. Init allows reports of an
earlier version, whose contract bound only the lanes it used. A report carries
`routes`, the models its install requested, so that what the guard injects later can be
compared with it.

**EvidenceLog** keeps a file as the sequence of the writes that reached it, so
that lines are what a reader makes of them: a line begins after a write that
ended in a newline. A write leaves a whole line or is cut short of its newline; a hook
may die before it. What a reader shows of a loss are the corrupt lines; an unfinished last line it only adds to
the number of lines read, which nothing is made of. There are two files for each layer. The hooks a call runs are
those its session has loaded: several of one layer when they stacked, and those
of both layers. `ChangeReport` lets the project's report come and go, so that the guards
of one call may resolve different layers; `crossed` notes the calls it happened to.
An event that has references has an identifier made of them, and one without them an
identifier of its own. Usages have no invocation in this version (the
observer gets none), but the event format and both readers provide for one: the installs in
`Linking` are told it, and with `Linking` empty the model is this version. `ReadersAgree`, `OneLayerElected` and
`HighNeedsExact` say little of this version, whose observer leaves every usage untied, and much of one that is told; the
other properties of `Evidence` speak of both alike.
The collector an estimate selects is that of the latest event by the clock of the
hooks; since the clocks are not ordered with the appends, any collector that was
read may be the one.

**EvidenceReaders** has no steps of its own. `Tied`, `Models`, `Attribution` and
`Evidence` are `loadClaudeEvidence` and `normalizeClaudeEvents`; `JoinKey` and
`ElectWriter` are the projector's. Its properties hold the two against each other, and the score that
`Estimate` makes of the evidence against what the guards have recorded.

**Estimate** takes the evidence of a runtime as a record and works out the baseline (the first
of the three named models that has a price), the difference over the buckets with a price,
the points, the cap, the penalty, the score and the adjusted amount, with the roundings of
the code. Prices and aliases are constants, `Unit` the tokens a price is for.

**CodexEstimate** keeps of a rollout file what `parseRollout` makes of its complete
lines: the models of its turns, its last total, its newest timestamp, how many
lines there are and how many are corrupt. `Turn`, `CopyFile` and the spoiled lines
are the world's; `Begin`, `ReadFile` and `Estimate` the estimator's. The rest are
operators: `Chosen` (which copy of a child's rollout counts), `Parts` (the
allocation by largest remainder) and `Normalize` (the evidence handed to `Estimate`). Their
properties compare them with definitions of another kind: a quota, all listings
of the directory, what the children have really used.

## 3. Runs

| Run | Instance | Shows |
| --- | --- | --- |
| `InstallLife` | an install with hooks and all kinds of assets, an uninstall; two faults, a kill, a tampered stage, one edit per file | `TypeOK`, `ReportLandsLast`, `VerifiedContent`, `RollbackRestores`, `AllOrNothing` |
| `InstallEdits` | the two runs without the assets that are single files; one edit per file at any moment, a second `recover` beside the first run or beside its recovery; a fault | `EditsSurvive`, `TerminalIsFinal` |
| `InstallConcurrent` | the two runs overlap; fair | `WriteAhead`, `CommittingSettles`, `RunsEnd` |
| `Reclaim` | two installs and an uninstall, not overlapping the reclaim | `RTypeOK`, `StoreServesReport`, `HooksHaveRuntime`, `NothingLeft`, `KeyOutlives` |
| `Hooks` | two guard installs, a guidance install, an uninstall; every receipt generation; two acts of the user | `TypeOK`, `UserHooksKept`, `HooksTracked`, `NeverLockedOut`, `DeleteAuthority`, `UninstallClean` |
| `Spawn` | a project and the global layer, two contracts (one of them also as of an earlier version), one set of defaults, two roles, three lanes, two writes or damages | `TypeOK`, `NearestReportDecides`, `DecidedWasInForce`, `InstallsNeverDeny`, `ChoiceStands`, `InjectionTakesEffect`, `GuardFollowsReport` |
| `Evidence` | two calls, two stacked installs of the project and one of the global layer, one short write, one change of the report, one estimate | `TypeOK`, `CallsCountedOnce`, `LossShows`, `TotalsOnlyGrow`, `ReadersAgree`, `OneLayerElected`, `HighNeedsExact` |
| `Codex` | two children and a copy, three records; or a session of eight turns and spawns; three models, one an alias and one without a price, four baselines | `TypeOK`, `ChildrenCountOnce`, `SameWhateverListing`, `SharesKeepQuota`, `AmountNeedsEvidence` |
| `KeyRollback` | as `InstallLife`, with a key that is not text | violated: `RollbackRestores` |
| `RecoverAborted` | as `InstallLife`, with edits before "committing" | violated: `EditsSurviveRecovery` |
| `RollbackReport` | as `InstallLife`, two faults | violated: `ReportProvesCommit` |
| `ReclaimRace` | as `Reclaim`, overlapping | violated: `StoreServesReport` |

The last four are disagreements between the code and what a test, a comment or
the changelog says of it; `PROJECT.json` quotes both sides under `findings`.

**What the passing runs assume, so that they are read for what they say.**
`Serial` lets a run start only when the others are settled: no lock enforces it,
and `InstallConcurrent` drops it. `AllOrNothing` and `RollbackRestores` need it,
since a run's snapshot of another's half-written files is what it restores.
`InstallLife` has no edit during a run (`EditPhases` is empty) because a
user's edit is not atomic with the refinement's step; edits during runs are the
subject of `InstallEdits`. `Rivals` is empty but in `InstallEdits`: a `recover` beside a run at work
restores files under its commit, which no promise of `AtomicUpdate` survives, and the code does nothing
to prevent it. So what `AllOrNothing`, `RollbackRestores`, `ReportLandsLast` and the run `Reclaim` show is
for an operator who recovers runs that are over. What holds without that is in `TerminalIsFinal`:
no phase goes back to "committing", recoveries of one run agree, and a phase is overwritten only where a `recover` met the run
itself (`Contested`; the run then writes "completed" over "recovered", or the other way round). `TextKey` makes the key text in all runs but
`KeyRollback`. `EditsSurvive` is silent once `recover` has been used, and
`RecoverAborted` shows why. `ReportLandsLast` is silent about a run whose rollback
had an error, or that `recover` is undoing, and `RollbackReport` shows why.
In `Reclaim`, `Alone` keeps any run from being under way while a reclaim is, one that was killed and waits
for its recovery included: `recover` would put a report back whose store the reclaim removes.
`ReclaimRace` drops it and shows what an install that overlaps a reclaim loses. `NothingLeft` is silent once a process
was killed, since nothing comes back for the reclaim it owed; of failures it allows one directory each. `KeyOutlives` allows the one step that takes
a key away, the rollback or recovery of a run that had found none, and does allow it when another install has found the key since.
`UninstallClean` is about an uninstall that finds the settings as they were when ownership was proved, and about what the report it
removes names. It excuses a *copy*: when the user has copied a hook under another matcher, `hasHookTuples`
(`bin/orbitlane.js:105-109`) finds the original, the merge takes the original out, and the copy stays while its runtime is reclaimed, which is what
the comment at `bin/orbitlane.js:219-222` wants to prevent. A hook that was *moved* makes the uninstall refuse.
`InstallsNeverDeny` is silent once a store was reclaimed or harmed, or an install, the first or a later one, was rolled back after its report had landed:
a guard may have read that report and then misses its snapshots. A rollback before that, and the rollback of an uninstall, are no excuse.
`LossShows` holds a report to corrupt lines or to the unfinished last line of the usages; of what is in that line the code shows
nothing (`src/estimate/claude.js:126` and `165-166`), so that a last usage which was cut short is missing without a word until the
next append to the file makes its line corrupt.

**Bounds.** Two runs against a target are enough for every relation the
properties speak of (a run and what was there before it, a run and one that
overlaps it or follows it), three where the reclaim stands between two installs.
There is one asset of each kind (`Dirs`, `Snapshots`, `Keys`), as files of a kind
are treated alike and only their order matters. `MaxFaults = 2` lets the
rollback of a failed commit fail as well, and `MaxCrashes = 1` kills a run, its rollback
or its recovery; with both, a recovery is needed after a recovery. In `InstallEdits` one edit per file puts one before a
run's last look at a file or after it, in either of the two shared files, with a rival for the first run. `MaxCrashes = 0` there: a run that fails to persist its phase leaves as much to recover as one that
is killed. The theorems `NoEditLost` and `SettledForGood` have any number of edits, kills and rivals. `MaxActs = 2` lets the user
break two things between two runs. In `Spawn` one role shares its lane in both contracts and
has another model in each, one lane is left to the defaults and one model may
not be injected, so that each verdict and each drift can occur. `MaxWrites = 2` is two changes during one walk, which
the property about stale contracts needs; a third only repeats them.
In `Evidence`, `MaxShort = 1` and two calls make one unfinished line and one that is glued
to it, and `MaxChanges = 1` lets the report vanish between two guards. `MaxOpen = 1` keeps
the hooks of different calls apart; those of one call, of both layers, still run in any order with
each other, with the estimator and with the change of the report. The theorems of
`EvidenceProofs` hold for any `MaxOpen`. One install of the project and the global one are
told invocations, the other is not.
`MaxSpawns = 8` passes the point where the share of the known models stops at three
fourths (seven spawns and a turn), with three models to deal remainders to; `Unit = 2` makes
costs that are rounded;
`MaxRecords = 3` is a turn, a copy and a change of either, before or while files are read.
The four token counts are one, as each is treated alike, and the root's file is
not written while it is read.
Every counter that is bounded is bounded in a guard, never in a cfg constraint.

**Fairness** is assumed in `InstallConcurrent` alone: weak fairness of a run's own
steps (a live process goes on; Node's scheduling owes it no more) and of the
recovery command (an operator runs it when a run was interrupted, as the
documentation asks). Failures and kills are never fair and are bounded, so
"settles" means: when steps stop failing, it settles. Deadlock is checked in every
run but `Evidence`, where the calls and the estimates are used up and nothing waits on
anything else.

## 4. Proofs

The theorems hold for every value of the constants that meets the named assumptions of the
modules, hence for any number of runs, roots, hooks or calls and without bounds on
faults, kills, edits or writes. Those of `RefinementProofs` and three of `ReclaimProofs` have a further
assumption, stated in the theorem.

**`InstallProofs`**, for overlapping runs as well as for runs in turn:

* `TypeCorrect`: `Spec => []TypeOK`. The lemmas `AfterType` and `ContentTypes` say
  that what a run stages, restores or reads is a content.
* `SettledForGood`: `Spec => TerminalIsFinal`. Inductive only with `PhaseFollows`:
  where a process is (`pc`) bounds what its manifest can say, for instance that a run in its commit or
  its rollback has a manifest that says "committing", or "recovered" if a rival has been there (`Contested`).
  Without it nothing keeps a completed run from being at a step that marks it. It holds for any number of overlapping
  runs and recoveries; the exception it leaves is the one of section 3.
* `CommittedBeforeWritten`: `Spec => []WriteAhead`. What is on disk is not
  inductive by itself, since a rollback puts back what a run once read. `AllVouched` claims it of
  every file and of everything a run has read, and strengthens "said committing" to `Begun`: the
  manifest says "committing" and the process is past its checks, or gone, so that an abort
  which finds "committing" on disk takes nothing back. `BegunStays` says that no step undoes `Begun`.
* `OnlyVerifiedContent`: `Spec => []VerifiedContent`. `Verified` ties the place of a process to
  the state of its stages, and `AllClean` extends the claim to what runs have read.
* `NoEditLost`: `Spec => []EditsSurvive`. `EditsKept` claims it of what a run that looks no more
  has read, too; `ExposedSteps` says that the check of the originals is the one way past the last look.

**`RefinementProofs`**, for runs in turn (`InTurn`: `Serial`, no edit during a run, no `Rivals`, and
a key that is text; section 3 says why for the first three, and the run `KeyRollback` shows it for the key):

* `RunsAreAtomic`: `Spec => AllOrNothing`, the refinement of `AtomicUpdate`. The invariant
  `TurnInv` says that one run at most is unsettled (`OneRun`) and how far its files are in
  step with what it read: as read before the commit, as staged where the commit has been, as read again where the
  rollback has been (`AllInStep`). `MoveMaps` maps each step of a run to `Apply`, `Refuse` or a stutter,
  `EditMaps` an edit to `Edit`. Faults, kills and recoveries are among the steps.
* `RollbackIsWhole`: `Spec => RollbackRestores`, from the same invariant.
* `ReportIsLast`: `Spec => []ReportLandsLast`, where every install has a version of its own
  (`OwnVersions`), so that a report tells whose it is. It is proved by way of the abstraction: what
  `AtomicUpdate` shows of a report is right (`ShownReport`), hence a run that is under way found no
  report of its own (`FoundOther`); and while it is under way the report appears when nothing is left to
  commit (`ReportLast`) and is the second file to be restored (`MidCommit`).

**`ReclaimProofs`**, for overlapping reclaims and rivals too: `ReclaimTyped` (`RSpec => []RTypeOK`) and `KeyIsKept`
(`RSpec => KeyOutlives`): by where the code puts its files (`DirOf`) no removed directory holds the key (`HoldsNoKey`), no commit
stages its absence (`RunsKeepKeys`), and a rollback restores it as the run it undoes had found it. The others assume `Apart`: runs in turn (`InTurn`), reclaims `Alone`,
a version per install (`OwnVersions`), and jobs that are whole (`WholeJobs`: each writes the settings, and one
with hooks is an install that brings their runtime); section 3 says why for the first three.

* `ReportKeepsStore`: `RSpec => []StoreServesReport`, and `HooksRun`: `RSpec => []HooksHaveRuntime`. The disk itself
  tells too little while a run is under way, so the invariant `RInv` speaks of what `AtomicUpdate` shows: a report has its
  assets (`Stocked`), hooks have their report and their runtime (`Hooked`), and a reclaim that removes finds every
  run settled and no report (`Quiet`). A run's step is `Apply`, `Refuse` or a stutter by `MoveMaps`; a removal disturbs
  `TurnInv` nowhere (`TurnReclaim`), since a removed store belongs to no run under way.
* `ReclaimIsComplete`: `RSpec => []NothingLeft`. `Clearing`: a reclaim follows a completed uninstall; of the directories it is done with, no more are
  left than steps have failed (`Few`); and once one is over and there is no report, another is owed or no more than that is left at all. The last is what makes it
  inductive, when a later install stocks the store again and a later uninstall takes its report.

**`HookProofs`**, for runs of any kind in any interleaving of first reads and commits, and any acts of the
user:

* `HooksTyped`: `Spec => []TypeOK`; it needs that the guard an old receipt names
  is a command (`ReportSound`).
* `HooksKept`: `Spec => []UserHooksKept`. The strengthening is that nothing a report or
  a plan names is the user's (`ReportSound`, `UserSound`): then no merge can take one.
* `RemovalsAreReceipted`: `Spec => DeleteAuthority`, with the invariant `PlansOwn`: what a run plans
  to take out has a receipt in the report it read first, and receipts name hooks under the
  Agent matcher only. `TakenOut` says what a merge removes.
* `HooksNamed`: `Spec => []HooksTracked`. A merge takes out all that the report it replaces
  proves, so the property is inductive with the types.
* `AlwaysAWayOut`: `Spec => NeverLockedOut`. `Orderly`: while the user did nothing, what the report
  proves is in the settings, which parse, and the store is there.
* `OnlyCopiesStay`: `Spec => UninstallClean`. `CleanInv`: a command of OrbitLane's in the settings, copied or not, was
  put there by a run that is done; so an uninstall which finds the settings as it
  saw them either holds the report it first read, whose hooks were all under Agent and are taken out, or the report of a run that
  came between and has nothing there.

**`SpawnProofs`**, for any number of roots, contracts, defaults, roles, lanes and models:

* `SpawnTyped`: `Spec => []TypeOK`.
* `NoFallback`: `Spec => []NearestReportDecides`, from `Passed`: a root the walk has left had no report
  when it was read, so it is not among those that had one all the time.
* `InstallsAreSafe`: `Spec => []InstallsNeverDeny`, from `Served`: a report on disk, one about to
  land or to be put back and the one the guard goes by have their snapshots, and keep them through a rollback that comes before
  the report lands, as long as nothing was taken back after that or harmed.
* `DeciderInForce`: `Spec => []DecidedWasInForce`, from `Behind`: with one change at most, the roots behind the walk
  were empty before the change or are empty after it.
* `InjectionWorks`, `ChoiceIsKept`: the verdict is the evaluation of the contract that was read
  (`GoesByReport`), and then a case for each order of the sources of a model.
* `NoDrift`: `Spec => []GuardFollowsReport`, from `AllRendered`: every report in reach was rendered from its
  contract and defaults.

**`EvidenceProofs`**, for any number of calls, installs, hooks at a time and estimates:

* `EvidenceTyped`: `Spec => []TypeOK`.
* `NothingUncounted`: `Spec => []TotalsOnlyGrow`: what an estimator has read is a beginning of the
  file (`Read`), and the records kept of a file are kept of every file that begins with it.
* `OncePerCall`: `Spec => []CallsCountedOnce`, from `FileInv`: events are in the file of their kind and
  layer, and a hook writes once for a call.
* `LossIsShown`: `Spec => []LossShows`, from `Honest` (a short write is in the unfinished last line, or the file has a
  corrupt one) and `FileInv`.
* `OneWriter`: `Spec => []OneLayerElected`, from `LayerInv`: the guards of a call which nothing crossed
  agree on the layer. It uses that a usage with an invocation joins decisions of its own install only.
* `TiesAgree`: `Spec => []ReadersAgree`, for any `Linking`.

* `HighIsTied`: `Spec => []HighNeedsExact`, for any catalog. What the estimator has read of decisions is among what
  was recorded (`Read`), so a usage whose call has no decision is tied to none (`EvidenceUntied`) and attribution is at best
  that of a child. Evidence of that kind scores 79 at most, whatever else is in it (`UntiedNotHigh`): the cap, less a
  penalty that is never negative.

**`CodexProofs`**, for any finite numbers of files, children and models, any catalog and any moments of reading. TLC
checked each invariant on the instance of the run `Codex` before it was proved:

* `CodexTypes`: `Spec => []TypeOK`, with every score in `0 .. 100` and no negative number of unknown tokens, and
  `AmountsHaveEvidence`: `Spec => []AmountNeedsEvidence`. `EstimateHolds` shows both of any evidence that is `WellFormed`,
  from bounds on each dimension, the coverage, the penalty and the rounding of the amount. `Typed` and `Made`
  are the invariant: what is read are rollouts, and once the estimator is done its evidence is `Normalize` of what it read and of
  some listing. `FromWellFormed` says that evidence so made is well formed, which needs that a session's parts
  never exceed what it used.
* `ListingDoesNotMatter`: `Spec => []SameWhateverListing`. Time and name put the files of a child in a strict total order, so one
  is `Newest`, and the stable sort puts it first from any listing (`ChosenIsNewest`).
* `SessionSpread`: `Spec => []SharesKeepQuota`, about `Parts` alone. The quotients fall short of the allocation by less than one
  token a model (`RemainingBound`); as the remainders, with the names, order the models strictly, the first r of
  them are r models (`RanksAreAll`), so that the parts add up to the allocation (`PartsAddUp`). `Strays` adds the two
  roundings, half a token of the allocation and less than one of the quotient; `Ranked` shows that a
  larger count never gets less.
* `EachChildOnce`: `Spec => []ChildrenCountOnce`. What is held of a child, on disk and as read, is not ordered by
  where it is but by when it was written: `Ordered` says that a newer count is no smaller, none is larger than what
  was used, for a child without a blank count. `Found` says that a count known when the estimator began is in a file
  that it has still to read, or in what it read. Copies and late writes disturb neither. The sums follow by an injection
  of the files that count into the children (`SumInto`).

**`FiniteSums`** has the sums. The library defines them as a fold, by a CHOOSE of a recursive function, and its induction
theorems take an operator, which no installed prover can instantiate. The lemmas do the induction in first-order terms: a set of
subsets of a finite set has a least element (`LeastSubset`, from the well-foundedness of strict subsets), so what holds of the
empty set and survives an added element holds of the set (`SetInduction`).

Two assumptions on constants are there for these proofs: `FiniteAssumption` (finitely many rollout files and
models) and `PricesAssumption` (an alias names a model of the catalog and 0 names none, what `normalizeModel` and the catalog's validation
ensure).

**Only model-checked** are `CommittingSettles` and `RunsEnd`, which are liveness under fairness: every invariant and every other
action property of a passing run has a theorem. The prover has no way to claims about ENABLED, and none to what a recursively
defined value is for every input.

## 5. Not modelled

Symbolic-link and path checks (no interleaving of theirs is claimed by the
code), parsing of arguments and hook envelopes, texts of guidance and output, the
catalog refresh and the schema validators (tables over one document, tested as
tables by the repository), the behavioural evaluation (a scorer of recorded transcripts). Of the projector, the
classification of one joined pair and `baseline.js`: functions of that pair, without order or state. Of the
Codex input, the choice of the root thread among several sessions and the walk to the contract that
gives roles their models: the model has one root, and `Routed` is what that walk found.
`previewRouting` and `recoverRouting`'s validation of a manifest only
read. The transaction directories left behind are not collected by the
code and not modelled. A user's save is one step: an editor that truncates and
writes is a save that the next look sees as an edit.

## 6. Plan

The modules were built in the order of the table in section 2: the transaction and its refinement first, as
everything else reads what it leaves; then ownership of hooks and the reclaim, which compose with it; then the
guard and the evidence, which run beside it; the estimates last. What is left:

1. **Codex sessions**: several root threads, the one that `latest` selects, and that children of another
   session are never counted.
2. **The refinement without `Serial`**: which weaker promise two overlapping runs keep.
