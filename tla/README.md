# Techtree in TLA+

Techtree measures what a skill is worth: it runs one evaluation without it (the
baseline) and one with it (the candidate), and compares the two.  A person
prepares a comparison as a draft and approves it; a detached worker process
executes it while other processes watch and cancel it; what the evaluations
leave is turned into receipts, a report and a signed bundle, which may be shown,
published, and revised into the next comparison.  An evaluation costs money
while it lasts, and what is published cannot be taken back.  These modules model
the parts of Techtree that must get this right: the run's durable state and the
processes that act on it, the supervised evaluations, the making ready of a
machine, the way from a directory of files to a run, and the way from raw
evidence to a published result.

Paths below are relative to `src/techtree/` unless they start with `docs/`.

## Inventory

| Component | State | Operations | Talks to | Hard behaviour | What makes it correct |
|---|---|---|---|---|---|
| Run state machine (`runs/machine.py`, `runs/events.py`, `models/run.py`) | none: pure functions of a journal | validate an event, apply it, reduce a journal | the store and every reader | long sequences of legal calls; cancellation against progress in flight | the reduction is defined on every journal the store writes |
| Run store (`runs/store.py`) | a run's `request.json`, `events.jsonl`, `state.json`, pid, heartbeat and report | `create`, `append`, `request_cancel`, `state`, `rebuild_state`, `write_pid`, `write_heartbeat`, `write_result` | everyone, through files and a `flock` | several processes, death between two file operations, readers without the lock | legal, append-only journal; cache and readers never ahead of it; nothing announced that is not there |
| Journal file (`runs/events.py`) | the bytes of `events.jsonl` | append and sync a line, read all lines | the store | short writes, a death or a power loss inside a line, readers meeting half a line | what a caller was told of stays; only the last line is ever damaged |
| Draft start record (`drafts/store.py`) | `start.json`: claimed, launched, launch_failed | claim, mark | run service | two starts of one draft | one draft, one run |
| Run service (`runs/service.py`) | none of its own | `start`, `cancel`, the readers | drafts, store, artifacts, launcher | retries and concurrent starts; a start that dies half-way | one approval, one worker, a failed launch is final |
| Launcher (`runs/launcher.py`) | none | launch, signal | the operating system | signals to a process that has ended | signals only the recorded worker |
| Run artifacts (`runs/artifacts.py`) | `inputs/` | stage, verify | run service, worker | two stagings racing on a rename; files that change between check and copy | inputs are complete or absent, and are what was approved |
| Worker (`worker/`) | a cancellation flag, a heartbeat thread | announce, execute, record the end | store, executor | signals at any moment, refused appends, errors while failing | every exit ends the run |
| Executors (`runs/executor.py`, `fake.py`, `real.py`) | the phase they are in | the phases of a run | store, scheduler, report completion | a cancellation between a look and an append | work stops when asked; a development run never claims more |
| Variant scheduler (`runs/variants.py`, `child_registry.py`) | the registry of children, collected outcomes | `execute_parallel`, `execute_sequential` | store, children | one side failing, cancellation, unhandled errors | a pair is compared whole or not at all; nothing is left running |
| Supervised evaluation (`verifiers/child.py`, `supervisor.py`) | a process pair and a pipe | start, poll, terminate; watch, stop, record | scheduler, the pinned engine | the worker's sudden death, two grace periods, exits racing signals | no evaluation outlives its supervisor |
| Evaluation planning and outputs (`verifiers/`) | the evaluation's output files | compile a configuration, dry run, check and read what is left | the pinned engine, executors | truncated or foreign output, records split where they are read | only a whole evaluation of this variant is accepted |
| Evaluation budget and limits (`verifiers/budget.py`, `verifiers/credentials.py`) | none | worst-case cost, where a credential may come from | doctor, executors | boundaries; terminal against worker environment | nothing is started that may exceed its ceiling |
| Tasksets (`tasksets/`) | the lock and the validation kept among the inputs | resolve, load, lock, validate, compare | the engine's validator | orders that differ between two loads, partial validations | both variants meet the same valid tasks |
| Manifests (`manifests/`) | none | build both, list and classify their differences | drafts, comparison | a difference nobody allowed | exactly the declared difference |
| Receipts and comparison (`receipts/`) | receipts of the run | build, compare, decide, seal, verify | report completion, publication, screens | files of another run, each valid by itself; evidence that is wrong in one place of many | a report is earned by its own run's evidence |
| Report completion (`uplift/service.py`) | the bundle, the report file | `complete` | store, receipts, identity | death, loss or cancellation between bundle, result and end | a completed run names its report, and its proof verifies |
| Publication (`publication/`) | a journal per run, receipts | plan, publish | the run log over HTTP | lost answers, retries, unlocked journal | converging retries; one sequence; what is public was shown |
| Withdrawal (`publication/withdraw.py`) | none | one signed request | the run log | - | - |
| Local identity (`identity/`) | a key and its public half | create, read, sign | receipts, publication | death between two files, two creators | never two keys |
| Engines (`engines/`) | installed engines, marker, lock, the active one | install, verify, activate | doctor, runs | an install that is killed or fails, removal piece by piece, the next install | a recorded engine is whole |
| Catalog and Climb models (`catalog/`, `models/climb.py`) | shipped documents | resolve, read, check agreement | preparation | an upgrade between preparation and start | the documents behind a reference agree |
| Skills (`skills/`) | a directory somebody edits; staged copies | scan, snapshot, verify | drafts | an edit between two file reads | the snapshot existed at one moment |
| Drafts (`drafts/`) | a directory of files per draft | build, place, load | preparation, run service | damage, upgrades, commands killed before the rename | a draft verifies from its own files alone |
| Uplift context and derivation (`uplift/`) | none | which tasks to show, derive a Campaign, open a source | runs, drafts | bounds that compete; a source changed after its check | what follows is about what was measured |
| Presentation (`presentation/`) | none | the payload of a result | receipts, command line | damaged proofs, partial usage | nothing shown beyond what the proof carries |
| Command line (`cli/`) | none | review and approve, prepare, set up, run, publish | every service | the order of effects; who can be asked | nobody's answer is assumed |
| Doctor (`doctor/`) | none | check a machine, advise repairs | engines, credentials, Docker | a check made here for a process that looks later, elsewhere | what it passes, the worker will meet |
| Release tooling (`tools/`), file, digest and signature helpers | none that a run depends on | building release documents; atomic replacement, hashing | - | - | - |

`PROJECT.json` lists every component with its status, and under `hazards` the
places in the code where these behaviours bite, each with the properties that
watch it or the reason why none does.

## Modules

State machines (left) and the operators they are built from (right); an arrow
reads "is extended by".

    RunMachine --> RunStore --> RunStoreProofs        JournalFile --> JournalFileProofs
         |            |
         |            +-- refines --> RunLifecycle    EvaluationPair --> EvaluationPairProofs
         |
         +--> RunControl --> RunControlProofs         Publication --> PublicationProofs

    Preflight --> Doctor --------------------> Setup --> SetupProofs
        |
        +--> Catalog, Approval --------------> Preparation --> PreparationProofs
        |    Manifests, Skills --> Drafts --> Improvement ----^
        |
        +--> Execution --> ProofBundle --> Presentation --> ReportStage --> ReportStageProofs
             ^    ^                        FakeExecutor -------^
             |    Tasksets
             Manifests, Evidence --> Comparison

The modules meet where their processes do.  `RunControl` takes a store operation
as one step, which `RunStore` justifies; `RunStore` takes an append as one step,
which `JournalFile` takes apart; the worker's "execute both variants" of
`ReportStage` is `EvaluationPair`; a start in `RunControl` works from a draft
that `Preparation` makes; an engine and an identity that `ReportStage` asks for
are what `Setup` leaves.

### The run's durable state and its processes

**`RunMachine`** is the state machine as operators: phases, `ALLOWED_TRANSITIONS`,
where each kind of event may occur, `apply_event` (`Applies` says whether it
accepts, `Project` what it returns) and `reduce_events` (a fold).  It keeps of a
payload only what a property tells apart: the pid, the report's digest, the
variant.

**`RunLifecycle`** is the abstract specification: a run is absent, then created,
then moves along allowed transitions; its report is recorded once and never
while the run is ended.  That is all a watcher may rely on.

**`RunStore`** is the store's directory for one run, with any number of processes
calling it.  An operation is cut at its durable effects: taking the lock and
preparing the event (one step, nothing durable happens in between), writing the
pid or report file, appending the event, reducing the journal, replacing
`state.json`.  `state()` is cut between its read of the cache and its read of
the journal, since neither is under the lock.  `Crash` may happen at every step;
the lock goes with the process.  A call that times out on the lock, or that is
refused, leaves no change and is therefore no step.

**`JournalFile`** is the bytes of `events.jsonl`.  A line is a number of pieces and
a separator; `os.write` puts any number of them into the file, and then the file
and, for its first line, the directory are synced.  An append may fail or its
process may die between two pieces, and the machine may lose its power, which
leaves any prefix of the file that holds what was synced, and no file at all if
its name was not.  Nothing is ever taken back: an interrupted append leaves what
it wrote.  Readers take no lock and read what is there (`ReadEvents`).
`acknowledged` is a history variable: the events whose callers went on.

**`RunControl`** is everything that happens around one draft: `run start`
commands, the workers they launch, `run cancel` commands and their signals.
Between two steps of one process any other process may act, so every value a
process has read may be stale when it uses it.  The executor follows the phases
of the fake, the sequential or the parallel executor, with a look for
cancellation exactly where the code has one.  Where a process uses the run's store,
the store may fail it (`StoreFails`: the lock held for ten seconds, a journal that
cannot be read or written); the worker's two ending handlers drop such an error,
and the worker is then gone with the run as it was (`LeavesUnrecorded`).

**`EvaluationPair`** is one comparison: the worker's scheduler, two supervisor
processes and two evaluations.  It is timed: a tick is ten seconds, so the
released grace periods (20 s for a supervisor, 30 s for the worker,
`verifiers/child.py`) are 2 and 3 ticks.  A supervisor polls every tenth of a
second and therefore reacts before the next tick (`Prompt`); the worker, which
may wait for a lock, and the evaluations, which may do anything, are not so
bound.  SIGKILL takes effect when the kernel gets to it (`killed`).

**`Publication`** is what happens to a completed run's proof: `publish` commands
that plan, ask a person, write a pending line to `publication.jsonl`, send the
proof, file the receipt and write how it went.  There is no lock, so a command is
cut wherever another one may come between: between counting the journal's lines
and appending one, and between creating the receipt file and writing it.  A line
has a form (whole, without its end, cut short, or run together with the next);
the journal is readable when every line parses and carries its own position, and
every look at an unreadable one ends the command.  The run log is outside the
repository; of it the module assumes what
`docs/decisions/0038-public-run-log.md` says, that a submission it has accepted
before is answered with the receipt it gave then.  `overlapped` is a history
variable: it is true from the moment two commands were at work at once, so that
what holds of commands run one after the other can be told from what holds of
all.

### Making a machine ready

**`Doctor`** is every check of the doctor as a function of a machine, which of them
block what, and the repairs they lead to; **`Preflight`** holds what doctor and
worker share: the worst-case cost, the credentials, the engine and the subject a
Campaign asks for.

**`Setup`** composes them with the commands that change a machine: `setup`,
`engine install`, `engine verify`, and a worker that signs.  An install holds its
lock, looks, discards what an interrupted one left, sets its marker, copies,
syncs, builds the environment, asks it a question, writes the record, removes the
marker, and makes itself active; a tree is removed piece by piece.  The
identity's private half is created exclusively, then written, then the public
half.  Every step may be the last of a killed command, and copies, syncs, writes
and queries may fail.  `torn` and `doubted` are history variables: a removal was
cut short, and a sound environment failed to answer.

### From a directory to a run

**`Manifests`** builds the two manifests of a Campaign, lists their differences and
says which are allowed.  **`Skills`** is the scan of a directory, the snapshot and
the checks of a staged copy.  **`Drafts`** is the files of a draft and everything
`load_snapshot` asks of them, and the same for a run's inputs.  **`Catalog`** is
how a reference is resolved and how the documents behind it must agree.
**`Approval`** is who may say yes to a start and what the request then records.
**`Improvement`** is which tasks a person is shown to revise a Skill, in which
order and under which bounds, and the Campaign derived for the revision.

**`Preparation`** composes them: commands that list a directory, check and copy it
file by file, build a draft beside the others and rename it into place; a start
that loads the draft, records its approval and stages the inputs; the run's end;
what may then be shown and derived from it.  Meanwhile the directory is edited
between any two reads, the build and its catalog are upgraded, files of a draft
or of inputs are damaged, and commands are killed.

### From raw evidence to a published result

**`Tasksets`** resolves, loads twice, locks the membership, and compares what the
engine's validator said with the publisher's receipt.  **`Evidence`** is what is
read of an executed variant: episode receipts, the observed configuration, the
operational record.  **`Comparison`** says whether the two variants were one
controlled experiment and what their rewards then decide.  **`Execution`** is what
the real executor compiles, dry-runs and accepts; **`FakeExecutor`** what the
development executor makes up and what it may claim for it.  **`ProofBundle`**
seals a report with its evidence into a directory, verifies such a directory
alone, and plans and checks a publication.  **`Presentation`** is the payload of a
result.

**`ReportStage`** composes them along one run: preflight, taskset, plan, the two
evaluations, their normalization, receipts, comparison, report, the bundle file
by file, its seal and verification, the recorded result, the end of the run;
then publication, derivation and the screens.  The worker may die and a
cancellation may be asked for at any step, and once the worker is gone the
bundle's files may be lost or found replaced by those of another run.  A
publication is a plan, a submission (the files are read again and sent as they
are) and the filing of a receipt that is compared with the plan only then; of
the log it is assumed only that it takes no directory whose files contradict
their manifest (`LogMayTake`).

In these modules a document stands for its own digest: a record that holds
another document in a field names it by content, so that a digest check is an
equality and a document cannot be changed without the documents that name it
noticing.  Where the code raises an error, the operator of that step is a
predicate and is false.

Correspondence of the main definitions (`PROJECT.json`, `map`, has all of them):

| Code | Definition |
|---|---|
| `RunStore._prepare_event` | `RunStore!Prepare` |
| `_commit_event`, `_write_projection` | `CommitEvent`, `ReduceJournal`, `StoreProjection` |
| `append_event`, `read_events` | `JournalFile!Write`, `Sync`, `SyncName`; `LineReads`, `ReadEvents` |
| `RunService._ensure_run_exists` | `FindRun`, `CreateRun`, `ApproveRun` |
| `RunService._ensure_launched` | `LookForWorker`, `Launch`, `LaunchFails`, `LookAgain`, `RecordPid`, `MarkLaunched` |
| `RunService._record_launch_failure` | `FailLook`, `FailRun`, `MarkLaunchFailed` |
| `_announce_worker`, `install_signal_handlers` | `Announce`, `AnnouncePid`, `InstallHandlers`, `Terminated` |
| `handle_worker_failure`, `handle_worker_cancelled` | `HandleFailure`, `AppendFailed`, `HandleCancelled`, `AskForCancel`, `AppendCancelled`, `LeavesUnrecorded` |
| `_watch_both`, `_watch_one` | `Watch`, `Poll`, `Report`, `AfterPoll` |
| `EvaluationChild.terminate` | `StopChild`, `ChildStopped`, `Escalate` |
| `EvaluationSupervisor._watch`, `_stop_if_running` | `SeeExit`, `SeeSignal`, `SeeEndOfFile`, `SeeDeadline`, `SeeStopped`, `KillEvaluation`, `Reap` |
| `PublicationService.plan`, `publish` | `Plan`, `Decline`, `Confirm`, `Fail` |
| `_record`, `PublicationJournal.append`, `entries` | `Count`, `AppendEntry`, `Written`, `Readable` |
| `HttpsPublicationTransport.submit`, `verify_publication_receipt`, `_write_receipt` | `Submit`, `NoReceipt`, `GoodReceipt`, `OpenReceipt`, `WriteReceipt`, `CompareReceipt` |
| `EngineInstaller.install`, `discard_interrupted`, `_install_fresh`, `_sync`, `_check_environment` | `Setup!AcquireLock`, `Look`, `DiscardInterrupted`, `CopyBundle`, `Sync`, `CheckEnvironment`, `Record`, `RemoveMarker`, `Undo`, `Clear` |
| `IdentityStore.create`, `verify_pair` and the service's `ensure` | `Ensure`, `OpenExclusive`, `WriteKey`, `WritePublic`, `VerifyPair` |
| `SkillPreparationService._scan`, `_snapshot_skill`, `_copy_one` | `Preparation!ListFiles`, `CheckFile`, `ReadFile`, `EndScan`, `CopyFile` |
| `DraftStore.create`, `load_snapshot` | `MakeDraft`, `Place`; `Drafts!VerifySnapshot`, `ClaimDraft` |
| `RunArtifactStore.stage_inputs`, `load_inputs` | `StageInputs`; `Drafts!VerifyInputs` |
| `compare_real_variants`, `build_uplift_report` | `Comparison!CompareRealVariants`, `ProofBundle!BuildUpliftReport` |
| `verify_local_bundle` | `ProofBundle!VerifyLocalBundle` |
| `submission_bytes`, `_submit`; `_receipt`, `verify_publication_receipt`, `_write_receipt` | `ReportStage!Submit`; `FileReceipt`, `ProofBundle!VerifyPublicationReceipt` |

Definitions whose comment starts with "Mutant of" are deliberate mistakes: each
property comes with one that it detects (`PROJECT.json`, `mutants`), so that a
property that could not fail would be noticed.

## Runs

| Run | Instance | Asks |
|---|---|---|
| `run_store` | 2 processes, 1 pid, 2 digests, journals of at most 8 events, repeatable events at most once in a phase (`MaxReports`), 1 crash; processes and digests symmetric | does the store keep a legal journal with cache and readers behind it, announced files present, no way back from a cancellation; does it implement `RunLifecycle` |
| `journal_file` | 2 writers, lines of 2 pieces and a separator, 3 events, 2 failures or deaths, 1 power loss | what of the journal survives an append that is cut short |
| `run_control` | 2 starts (symmetric), 2 workers, 1 cancellation, 3 executors, 1 fault | do draft record, journal, report and exits agree |
| `run_ending` | the same, parallel executor, no fault, fairness | does a worker that has taken on a run end it |
| `evaluation_pair` | both schedules, released graces, 1 fault | does anything outlive what bounds it; does a pair that was asked to stop end |
| `publication` | 2 processes (symmetric), 4 commands, 2 deaths | is a run said to be published backed by its receipt; do commands that do not overlap converge when retried, and stay published |
| `setup` | 3 commands of any kind (symmetric) on each of 9 machines, 3 Campaigns, 1 kill, 1 failing step | is an engine whole or announced, is an identity kept, does the doctor speak for the worker |
| `preparation` | either 1 command and 3 edits of 6 kinds, or 2 commands, 1 run, 1 damaged file, 1 edit and an upgrade | is what is measured what was prepared, and what follows about what was measured |
| `report_stage` | 2 tasks; insertion and replacement; every pair of rewards 0 and 1 under 3 scoring rules; each way a run may go wrong, one at a time; one disturbance of the bundle; bundles of 2 other runs | is a P1 report earned by its own run's evidence; do result, publication and screens stand on a whole proof |
| `cancel_before_announce`, `publishing_race`, `reply_separator` | small instances of the above | below |

*What the runs show.*  In `run_store` the journal is legal whatever two callers
do, and nobody reads a state it has not reached.  In `journal_file` an event
whose append returned keeps its place through torn lines and lost power
(`AcknowledgedIsKept`), damage is confined to the last line
(`DamageIsTheLastLine`: nothing follows a piece of a line that was cut before its
end; a line that lacks only its newline is the exception listed below), and a reader without the lock is turned away only while
a line is half written or after an append was interrupted.  In `run_control`
whatever is launched twice, refused or killed, the draft's record stays true
(`StartRecordHolds`), a completed run names the report on disk, and a worker that
took its run on leaves it ended unless it is killed or the store fails its
ending handler too (`WorkerExitEndsTheRun`).  In `evaluation_pair` no evaluation
outlives its supervisor, and all end once the worker is gone, however it went.  In
`setup` the lock, the marker and the order of removal together keep half an
engine from passing for one, with one exception that the property names (`torn`,
below); an identity is never replaced once a receipt was signed; and a doctor
that passes a Campaign is right about the worker, which runs without the
terminal's variables.  In `preparation` a snapshot is never a mixture of two
states of the edited directory, staged inputs are what the approved draft said,
a draft stays startable through upgrades, and a derived comparison has the
measured Skill as its baseline.  In `report_stage` no single wrong fact among
the dozen stages' inputs (another model, image or Skill, a tool more or less, a
task scored twice or not at all, foreign or partial validation, a cheap dry run, a
tampered file) leads to a P1 report or to a proof that verifies; the one that
does, other schemas or descriptions of the tools of a later task's rollout, is
listed below, and `OneToolSurface` says what is so of tools and no more.  What a
person is offered to publish may be public and what is filed as published is
what they were shown; what the log took may be another proof (`PlannedMayBeShown`).

*Bounds.* Eight events are enough for a cancellation after every phase of a
full run's first half and for the complete ending of every cancelled or failed
run; the machine looks at the last event only, so a longer journal repeats the
same local situations, and the proofs hold for every length.  One crash is
enough to leave any partial effect, and the second process then meets it.  Two
starts are the least that race; a third meets the same record.  The single fault
of `run_control` and `evaluation_pair` may fall on any step of any process.  In
`journal_file` two pieces before the separator let a line be cut before, inside
and after its content, and three events let one be acknowledged before the
damage, one be damaged and one come after; two failures allow a second
interruption upon the first.  Four publications are enough for a lost answer, a
death, a retry and one more look at what they left.  Three commands of `setup`
are an install that is interrupted, one that finds what it left and one that
waits for either, or two creators of a key and a signer.  A Skill of two files is
the least whose snapshot can be a mixture, and three edits allow one of either
file between two reads and one more; no edit puts back what was there before.
`preparation` takes its two kinds of bound apart because an edit
while a file is read and a run between two commands do not meet; `ExampleLimit`
3 and one success among the examples make both bounds bite with four and five
tasks.  Two tasks are the least that can be swapped, scored twice, left out, or
finish out of order; rewards of 0 and 1 give a gain, a loss and a tie per task,
and sums that meet and miss each threshold.

*Fairness.* `RunStore`, `JournalFile`, `Publication`, `Setup`, `Preparation` and
`ReportStage` assume none: nobody is obliged to call.  `RunControl` assumes weak
fairness of a live worker's own steps (the operating system schedules it; it
does not wait for any other process), and none of starts, retries or
cancellations, which people issue.  `EvaluationPair` assumes that worker and
supervisors are scheduled, that time passes and that SIGKILL kills; it assumes
nothing of the evaluations, which may ignore SIGTERM for ever, nor that the
deadline comes.

*Deadlock* is not checked: a run that has ended, with all its processes gone, is
where every behaviour is meant to stop, and so is a machine whose commands have
returned.

### Where the code departs from what it says

Three runs end in a violation of a sentence of the repository:

1. `cancel_before_announce`: a cancellation between launch and announcement
   leaves the run in `cancel_requested` for ever (`worker/execute.py:283`),
   although "every exit is terminal for the run".
2. `publishing_race`: two `publish` commands at once count the same lines and
   write one sequence number twice (`publication/service.py:462`).  From then on
   every reading of the journal refuses it, `publish` and the run's publication
   status included, although `publication/journal.py` promises numbers that
   "increase by exactly one".  `PublishedIsFiled` holds all the same.
3. `reply_separator`: a record is written as one line with the rollout's last
   reply in it, unescaped, and read with `splitlines()`, which also breaks at
   U+2028, U+2029 and U+0085 (`verifiers/outputs.py:212`).  One such character in
   one reply makes a complete, paid pair of evaluations be refused as truncated.

Others were met while modelling and are behaviours of the modules, with no run of
their own:

- Two concurrent starts launch two workers (`runs/service.py:415`), and a worker
  that finds a pid recorded goes on even if it is another's, until one of the
  two is refused a phase and fails the run.
- A start that dies between creating and approving leaves a run that a later
  start executes without an approval (`runs/service.py:381`).
- A worker whose last append the store refuses drops the error and exits with
  the run not ended (`worker/execute.py:428`, `:448`), although "every exit is
  terminal for the run".
- A start that cannot record the worker's pid because the lock is held marks the
  draft launched all the same (`runs/service.py:424`).
- A cancellation after the worker's last look is recorded as a failure
  (`worker/execute.py:401`; `docs/run-state-machine.md` would have it cancelled).
- A cancellation while the variants are announced is recorded with both
  evaluations still running (`runs/variants.py:289`); their supervisors end them
  once the worker is gone.
- An append whose newline alone is missing is read as a whole event
  (`runs/events.py:424`; `docs/spec/climb-v0.1-pr6-pr8.md:1818` lists "missing
  final newline" among what a reader rejects), and the next append joins its
  line, after which every reading of the run is refused.
- After a power loss `state.json`, which is synced by whoever rebuilds it, may be
  ahead of the journal (`runs/store.py:242`): a writer wrote but did not sync
  its line, and another command projected it.
- The removal of an engine whose environment did not answer
  (`engines/installer.py:226`) has no marker; cut short, it may leave the record
  beside missing files (`torn`).
- Without `--climb` the doctor's advice after a repair names a re-check
  (`doctor --for-evaluation`) that does not look at credentials
  (`verifiers/credentials.py:214`), and it checks the active engine only.
- The schemas and descriptions of tools are compared for the rollouts of the first
  task only; of the others the names are (`receipts/observed.py:211`), although
  `receipts/compare.py:280` says every rollout agrees with every other.  A run
  whose later rollouts were offered tools of another schema earns P1.  Tokens that only some rollouts
  reported are shown as a variant's total (`receipts/execution.py:515`).
- The bundle of a run whose worker was killed after sealing it can be published:
  that the run ever completed is not looked at (`publication/service.py:336`).
- A proof that was replaced between the plan and the submission is sent
  (`publication/service.py:367`); that it is not the planned one is noticed when
  the receipt comes back (`:407`), and refuses only the local record.  It may by
  then be public, whatever its DataPolicy says.
- The caveat about a damaged episode receipt quotes the failed check, whose text
  names `receipts/baseline/0000.json`; the payload may not name a path, so the
  result is refused instead of shown with its failure
  (`presentation/build.py:868`, `presentation/sanitize.py:61`).
  `NoHiddenTaskMaterial` is this refusal.

## Proofs

Each module `<Name>Proofs` proves what follows of every value of `<Name>`'s
constants, from the assumptions the modules declare about them.  None of the
properties is inductive as it stands; each proof module defines the invariant
`Inv` that is, as a conjunction of named parts, and proves `Init => Inv` and
`Inv /\ [Next]_vars => Inv'` with one step per action.  All proofs are checked
to the last leaf by SMT, Zenon and LS4; nothing is taken on trust.

| Module | Theorem | Property |
|---|---|---|
| `RunStoreProofs` | `JournalStaysLegal` | `JournalIsLegal` |
| | `AnnouncedFilesAlwaysExist` | `AnnouncedFilesExist` |
| | `CancelledRunsStop` | `CancelNeverRejoins` |
| | `ReadersAreNeverAhead` | `ReaderNeverAhead` |
| | `HistoriesOnlyGrow` | `HistoryOnlyGrows` (action property) |
| | `JournalsReplay` | a journal that was started is `Readable` |
| | `StoreImplementsLifecycle` | `LifecycleSpec` (refinement) |
| `JournalFileProofs` | `JournalFileTypes` | `TypeOK` |
| | `LinesStayWhole` | `DamageIsTheLastLine` |
| | `AnsweredAppendsStay` | `AcknowledgedIsKept` |
| | `RefusalsHaveACause` | `RefusedForACause` |
| `RunControlProofs` | `RunControlTypes` | `TypeOK` |
| | `CompletedRunsNameTheirReport` | `CompletedNamesItsReport` |
| | `StartRecordsHold` | `StartRecordHolds` |
| | `WorkersEndTheirRuns` | `WorkerExitEndsTheRun` |
| `EvaluationPairProofs` | `EvaluationPairTypes` | `TypeOK` |
| | `NoOrphanEvaluation` | `NoEvaluationOutlivesItsSupervisor` |
| | `FailureFollowsTheStop` | `FailedPairIsStopped` |
| `PublicationProofs` | `PublicationTypes` | `TypeOK` |
| | `PublishedRunsAreFiled` | `PublishedIsFiled` |
| | `LoneRetriesConverge` | `LoneRetryConverges` |
| | `LonePublicationsStay` | `LonePublishedIsFinal` (action property) |
| `SetupProofs` | `SetupTypes` | `TypeOK` |
| | `EnginesAreWholeOrAnnounced` | `EngineIsWholeOrAnnounced` |
| | `ReadyMachinesStayReady` | `ReadyStaysReady` |
| | `SignedReceiptsVerify` | `ReceiptsStayVerifiable` |
| | `DoctorsSpeakForTheWorker` | `DoctorSpeaksForTheWorker` |
| `PreparationProofs` | `SnapshotsWereThere` | `SnapshotWasThere` |
| | `RevisionsFollowTheRun` | `WhatFollowsIsMeasured` |
| | `RunsAreGivenWhatWasPrepared` | `StagedAsPrepared` (action property) |
| | `DraftsStayStartable` | `PreparedCanStart` |
| | `NothingWorseIsKeptBack` | `NothingWorseIsLeftOut` |
| `ReportStageProofs` | `VerifiedProofsAreWhole` | `VerifiedIsWhole` |
| | `WhatIsPublishedWasShown` | `PlannedMayBeShown` |
| | `ResultsAreProven` | `RecordedIsProven` (action property) |
| | `ReportsStand` | a report stands on what was staged (`StageInv`) |
| | `AcceptedReportsAreEarned` | `AcceptedIsEarned` |
| | `ScreensStandOnProof` | `ShownStandsOnProof` |

### Assumptions

That `None`, `Nothing` and `Absent` stand for no value of the kind beside which
they occur: `NoneIsNoValue`, `NoneIsNoPhase`, `NoneIsNoState` (`RunMachine`),
`NoneIsNoRun` (`RunControl`), `NoneIsNoName` (`EvaluationPair`, `Publication`),
and parts of `StoreBounds`, `FileBounds` and `SetupAssumption`.  That bounds are
numbers.  Beyond these:

- `EvaluationPair`: the worker is more patient than a supervisor
  (`SupervisorGrace < WorkerGrace`, the released 20 and 30 seconds);
- `JournalFile`: a line has content and there is an event to write (`FileBounds`);
- `RunControl`: as many pids as starts, finitely many (`ControlConstants`): a
  start launches one worker at most, and the pid it gets is nobody else's;
- `Setup`: a host is what the doctor looks at, and a plugin one of the five things
  it can read of one (`MachinesAssumption`);
- `Preparation`: the directory's files are at their first version to begin with
  (`VersionAssumption`), versions being what tells an edited file from itself; a
  build is in use, and the Campaigns of its catalog name their backend
  (`CatalogAssumption`), as a Campaign must to be read; the tasks of a report are a
  list whose rewards and changes are numbers (`EndingAssumption`);
- `ReportStage`: a Campaign's tasks are a list, it keeps to the contract its
  model checks when it is read, its thresholds are of their types, and the part its
  manifests share has the declared fields (`CampaignAssumption`); a Campaign that
  ships a valid receipt was validated, so its evidence names each task in its
  place with both checks passed (`PublisherAssumption`: the worker asks that its own
  validation gives the same receipt and evidence, not what the evidence says);
  evaluations and validators leave lists, with numbers for rewards and tokens
  (`EvidenceAssumption`), as their JSON is typed; another run's proof is of
  another run and its report has the publication status of its own policy
  (`OthersAssumption`), as every report that `BuildUpliftReport` makes.

### Arguments

*The store.*  Legality of the journal needs to know, at the append, that the
event prepared some steps ago still fits; so `Inv` adds `PreparedFollows`, and
that needs `LockIsHeld`: whoever is inside an operation holds the lock, hence
nobody else has appended since.  That announced files exist needs
`PreparedIsBacked` for the same reason.  That a cancelled run does not come back
needs `CancelSticks`: after the request the phase stays in a set that is closed
under the allowed transitions.  The refinement follows from `Inv`: an append is a
`Move` or a stutter by legality, and `WriteReport` is a `RecordReport` because
its prepared event shows that the run is open and has no report.

That readers are behind the journal is about the state a journal reduces to,
which is a fold over its events.  `SetInduction` is induction over the numbers
for a set in place of a predicate, from the well-foundedness of their order;
with it `FoldExists` shows that a fold of any length has a value, and
`ReductionShowsTheLast` and `ReductionType` that it is a `RunState` whose sequence
number and phase are the last event's.  `ProjectionFollows` then says what cache and
views hold at each step: less than the journal, and exactly the journal's end
in the hands of the process about to store it under the lock.  It gives both
`ReaderNeverAhead` and, because only that process replaces `state.json`,
`HistoryOnlyGrows`.  `JournalsReplay` joins legality and reduction: what
`JournalIsLegal` says of neighbours is what a replay from the first event asks for.

*The journal's bytes.*  The first lemmas say which line a piece belongs to, that a
line only depends on what stands between two separators, and what an appended
or removed piece changes of it.  `Appends` is what a process knows while it
appends: where the file ended when it began (`Base`), that all lines up to there
could be read, and that what it wrote since is the beginning of its line.
`OnlyTheLastIsDamaged` follows, since nobody begins a line after one it cannot read,
and `NothingBehindATornLine` says the same piece by piece;
`AcknowledgedIsDurable` puts what was answered below what was synced, so that a
loss of power takes only what comes after it; `Undisturbed` says that without an
interruption a file outside an append ends with a whole line.

*Starts and workers.*  `StartersKnow`, `WorkersKnow` and `CancellersKnow` say what
each process relies on at its step, whatever the others did since it looked: that
the run is there, named or ended, that the report is its own.  They are stable
because the facts are: a run is never forgotten, a name never taken back, an
ending final.  `WorkersFollowThePlan` says that a worker's plan ends in
`building_report`, which is why completing it can only be the last step.
`OneApproval` needs that at most one start is between creating and approving.  The
places where the store fails a worker's ending are named in the conclusions
(`unrecorded`), as are a start that could not record the pid (`done_unnamed`).

*A pair.*  `PatienceOutlastsGrace` is the invariant of time: from the moment the
worker tells a supervisor to stop, the worker's patience exceeds what is left of
the evaluation's grace, both counting down together, so the worker never has to
kill a supervisor whose evaluation still runs.  `RegistryIsComplete` says that the
unwinding, which stops what is registered, stops everything that was started;
`PhasesAreOrdered` and `UnwindingStops` what has been started and stopped at each
step.

*Publication.*  `FilingIsBacked` says what each step between filing the receipt
and writing the line knows: that the log accepted the proof, and, before a
published line, that the receipt is whole; it is stable because a whole receipt is
never touched again.  While no two commands overlap, `LoneInv` adds that one
command at most is at work, that conflicts come after a receipt, and that
nobody is at work on a published run.

*A machine.*  `InstallersKnow` says which half of an engine each step of an
installation finds; it can, because only the holder of the install lock takes
these steps (`InstallersHoldTheLock`).  The identity needs no lock:
`KeyHasOneWriter` says that whoever created the private half, which is exclusive,
is the only command that ever writes either half.

What a doctor says needs no invariant beyond the types: `DoctorIsRight` follows
its checks one by one to what the worker meets (`SameCredential`: a credential is
looked for without the terminal's variables).  That a failure has its repair
offered needs that the repairs offered are the first three by position: `ThreeLeast`
says that an element of a set of positions is preceded by three others or is
offered, from the existence of least elements (`LeastExists`).

*From a directory to a run.*  An edited directory never shows a file again as it
was, so a file that is still as it was scanned when it is copied has been so all
the while; `CopiesWereThere` carries the moment at which all those that were copied
and all that still can be were there together.  And a Skill that verifies is the one
its artifact describes (`VerifiedIsDescribed`), so wherever it is copied to it is
the same Skill or does not verify: `DraftsKeepTheirSkills` and
`InputsKeepTheirSkills`.

That a draft can be started needs what a start asks of it: that the snapshot
verifies and that its backend is one this release has.  The first was checked
when the draft was made and stays so while its files do.  The second is checked of
the Climb, so `StartInv` carries it from the Climb through the command that
copies it to the draft, and from a run to its revision; and because the files
may have been damaged and restored since, it speaks of each draft with its Skills
as they were prepared.

*What a person is shown of a run.*  `OrderIsStrict` says that no two tasks tie in the
order of the examples, so each has a place of its own (`RankedIsAnOrder`, by
counting those before it).  `TakingExists` gives the selection's fold a value after
each task, and `TakingStep` the step of an induction over the places: every task
met so far was taken, was a success too many, or came when the examples were full
of tasks that rank no later.

*From evidence to a result.*  A proof is written from what the worker computed and
sealed with a manifest that commits to every file of it.  `BundleOK` follows the
directory: a part of the proof while it is written, the sealed proof, or, once
somebody has changed it, a directory that contradicts its manifest (`OneFileLost`,
`OneFileReplaced`) or is another run's.  `OfferOK` says whose manifest is there: this
run's or another's, and once a plan was shown, the plan's or another's; so what the
log takes is one report or the other (`TakenIsWhole`).  `ProofOK` says that whoever is about to record
a result has just verified that the bundle is the sealed proof.

*An earned report.*  `StageInv` adds to `Inv` what each step of the worker leaves to
those after it: a lock validated here (`LockIsValidated`), results as they were
normalized, inputs that hold, receipts built from both.  Once a report was made
of them nothing assigns them any more (`ReportStands`), so what was so when it was made
is so for good, whatever interrupts the worker or changes its files.

What was so is then followed back to the raw evidence.  An evaluation leaves its
records in the order they finish; `PlacesAre` says that the tasks' places among
them are all of them, each once, and `EpisodesAre` and `ReceiptsAre` that the
worker's result and receipt of a task are of the record in that place.
`RolloutsPassed`, `ChecksPassed` and `OneConfiguration` collect what each gate let
through, from which `TasksWereScored`, `OneToolSurfaceOffered` and
`OnlyTheSkillsDiffered` follow.

The code adds rewards in the order of the tasks and tokens in the order of its
results; the properties add over the raw records, in no order.  `SumIs` gives
`SumFunction` over a finite set its values on all subsets, `AnyFirst` says that any
element may be the first to be added, and `SameSums` that sums of the same numbers in
other places are the same.  `DecisionsFollow` and `TokensAre` are applications of
it.  `TableAgrees` is why a screen's headline never contradicts its table: wins,
losses and ties are counted on the numbers the table shows.

### Only model-checked

- Liveness (`WorkerEndsTheRun`, `EvaluationsDieWithTheWorker`, `AskedToStopEnds`) is
  outside the prover's reach.
- The three runs that end in a violation refute a claim; there is nothing to prove.

## What is abstracted, and what is not modelled

- Event payloads other than pid, digest and variant; timestamps; progress
  counts; wording, rendering and layout, except where a payload may not name a
  path.
- Field formats (names, digests, semantic versions, prices beyond their product)
  are the models' own checks and are left to them.
- A document's digest is the document, a key's signature a record of who signed
  what: that hashing is injective and signing unforgeable is assumed.
- Atomic replacement, exclusive creation and removal are the steps they are in
  the modules that use them; the helpers of `fs.py`, `canonical.py` and
  `crypto.py` have no module.
- `create` writes the request and then the first event.  `RunStore` and
  `JournalFile` have both steps and a death in between; in `RunControl` it is one
  step.
- A loss of power is in `JournalFile` only.  Elsewhere a step's effect is there
  once it is taken, and only processes die.
- Which check a publication receipt fails is not told apart in `Publication`.
  Withdrawal is one signed request, keeps no local state and is not modelled.
- The heartbeat is a file that nothing reads to change state.
- An evaluation is one process.  A group whose leader ends before its members
  is not modelled, nor a supervisor killed by anyone but the worker.
- A time-out on the run's lock ends the call without effect.  In `RunControl` it is
  one of the ways in which the store fails; any other start or
  cancellation it ends is one that dies there or takes no further step.
- Two preparing commands do not run at once in `Preparation`: they share only the
  directory, which they read.
- An install and a run share no module; that a slow answer removes an engine a
  run is using is therefore not checked.  `uninstall` has no caller in this
  release.
- `status`, `watch` and the log readers of the run service change nothing.
- The pinned engine, Docker, the credential helper, the run log and the editor
  are outside the repository; the modules let them do whatever the code is
  prepared to meet.
- Release tooling (`tools/`, `release/`) runs on a developer's machine and
  changes nothing that a run reads.

## What would come next

Every invariant and every property of steps that a passing run checks is also a
theorem.  What remains is liveness, which the prover does not reach, and the parts
listed above that are modelled in part or not at all.  Of those the ones that would
say most are an evaluation as a group of processes whose leader may end first,
and an install that removes an engine while a run uses it.
