# Auernyx Mk2: TLA+ verification project

TLA+ models of the parts of Auernyx Mk2 that decide what may change a
repository and what is remembered about it, TLC configurations that check them
on small instances, and TLAPS proofs of the results that matter most. Source
paths below are relative to the repository.

## 1. Inventory

Auernyx is a local agent. A *request* (an intent, its input, approvals) enters
through the CLI, the VS Code extension or the HTTP daemon; all of them end in
`runLifecycle`, which plans it, checks who approved what, and executes the steps
through the router. Every process on the machine shares one repository
directory, and everything that must survive a process is a file in it. There is
no database and no cross-process lock except the lock files the code makes
itself; within a process the code between two `await`s is atomic.

| Component | State it keeps | Operations | What is hard | What makes it correct |
|---|---|---|---|---|
| Kintsugi record ledger (`core/kintsugi/memory.ts`) | record files, `chain-tip.json`, `.ledger.lock` | `recordLedger`, the integrity check | several processes, a lock without take-over, two files written one after the other | one hash chain; the caller's answer agrees with the disk |
| Kintsugi policy store (`memory.ts`, `core/kintsugi/knownGood.ts`, `proposeFixes`, `baselinePre/Post`, `rollbackKnownGood`) | `active.policy.json`, snapshots, change records, known-good entries | initialise, apply a fix, baseline, anchor, roll back, audit | activation precedes recording; crashes between; overlapping operations | what is in force can be restored; until operations overlap, the policy in force is the recorded one and loosening is confirmed; after that, only a decision on an overwritten policy loosens it |
| Governed run (`core/runLifecycle.ts`, `planner`, `router`, `policy`, `approvals`, `receipts`) | one run's position, its receipt | intake, screening, admission, gates, execution, receipt | two-step plans, partial approvals, throwing capabilities, death while executing, receipts that cannot be written | an approval reaches one step; the receipt tells what happened, unless an entry could not be written |
| Provenance and judgment (`core/provenance.ts`, `core/knownGood.ts`) | genesis record, judgment marker, configuration copies | seal, verify, activate, clear, restore | a marker rewritten in place, shared by runs that checked at different times; every failure swallowed; two-file restore | a run whose check failed executes nothing privileged, unless its marker was cleared, rewritten or never complete |
| Governance lock (`core/governanceLock.ts`, `governanceSelfTest`, `governanceUnlock`) | `logs/governance.lock.json` | self-test, unlock | inspect-then-write; a lock only the locked system can open | a locked system can be recovered |
| Telemetry ledger (`core/ledger.ts`, `core/integrity.ts`) | `logs/ledger.ndjson`, its lock file, a cached last hash | append, verify a window | retry after an exception, torn lines, truncation | one chain; an answer agrees with the disk; what an unlock verified still stands when the lock is opened |
| Daemon (`core/server.ts`) | single-instance lock, rate counters | start, stop, `/plan`, `/step`, `/run` | stale lock taken over by two starters, in a directory that users share | one daemon per repository unless starts overlap; no leftover lock of its own user keeps it down; the rate is bounded |
| Daemon client, CLI (`core/daemonClient.ts`, `clients/cli`) | none | plan, then step after step; fall back to a local run | a timeout is not a refusal: the daemon may still be executing; an answer may stop half-way | the write happens once unless its own answer was given up; success is complete; only a cut answer is waited for in vain |
| Feneris and Monday (`core/feneris.ts`, `core/monday.ts`) | `infractions.ndjson`, `dispositions.ndjson` | scan, review | a file read as a whole, torn lines, rules checked one after the other, two reviewers | what held throughout a scan is raised; one decision for each infraction from reviews that do not overlap; "System is clear." is not said over an undecided infraction that can be read |
| Monday onboarding (`mondayOnboarding`) | `sessions.ndjson` | three phases; a human applies the result | it replaces sealed files, and processes seal, verify, mark and clear between each other's steps; phase 3 reads and appends without a lock; torn lines | a recommendation comes after the seal; it is for the latest submission, unless another process submits meanwhile |
| Documents (`searchDocPreview/Apply`) | the target document | preview, apply | read, modify, write without a lock | applying twice changes nothing; no update is lost |
| Configuration (`core/config.ts`, `vscodePolicy.ts`, `moduleRegistry.ts`) | files, a cache keyed by modification time | load, merge with defaults | stale cache | the value read is the value on disk |
| Guarded files, protected paths, ghost verification | none | path predicates | normalisation | a protected path is never written |
| Skjoldr firewall, Wyerd trader, Kennr, Skadi, scans | none of the agent's | external programs and services | timeouts after the effect | the outcome told is the outcome |
| VS Code extension, worker, CI gate, tools, branches, consumers | their own | clients and scripts | - | - |

Components meet in files. The router reads the Kintsugi policy (risk tolerance),
the governance lock and the judgment marker; the self-test reads the integrity
of the Kintsugi ledger; rollback writes both a policy and configuration files,
and the configuration is what the genesis record seals. `PROJECT.json` lists
under `hazards` the places where this goes wrong in ways a test would hardly reach.

## 2. Modules

| Module | Models |
|---|---|
| `AppendLog` | what both ledgers promise: an append-only log whose appends are atomic |
| `KintsugiLedger` | `recordLedger` and its lock, chain tip and record files; implements `AppendLog` |
| `KintsugiLedgerProofs` | theorems about it |
| `KintsugiPolicy` | the policy store, its operations and its audit |
| `KintsugiPolicyProofs` | theorems about it |
| `GovernedRun` | `runLifecycle` with provenance, judgment, lock, gates and the capabilities that change them |
| `GovernedRunProofs` | theorems about it |
| `TelemetryLedger` | `append`, its lock and its cached hash, the windowed verification, and the unlock that rests on it; implements `AppendLog` |
| `TelemetryLedgerProofs` | theorems about it |
| `DaemonLock` | the lock file that keeps a repository to one daemon |
| `DaemonLockProofs` | theorems about it |
| `DaemonClient` | CLI and extension driving a plan through `/plan` and `/step`, the daemon's side of it, and the rate limit |
| `DaemonClientProofs` | theorems about it |
| `Onboarding` | the sealed files, seal and judgment, and the onboarding that recommends new files |
| `OnboardingProofs` | theorems about it |
| `Sentinel` | the sentinel scan and the infraction review, on top of `Onboarding` (EXTENDS: their runs, files and judgment are the same variables) |
| `SentinelProofs` | theorems about it |
| `MC...` | the small instances TLC checks |

Definitions named `Bug_...` are no part of a specification: each is a plausible
defect of one definition, put in its place to see the property it is paired
with in `PROJECT.json` fail.

### KintsugiLedger

A caller is one `recordRefusal` or `recordFailure` call of some process. `records`
is the sequence of readable record files in the order they were written, `torn`
the times of those left half written, `tip` the content of `chain-tip.json` and
`lockFile` who created `.ledger.lock`. A call is stamped (`Begin`), then goes
through `AcquireLock`, the reading of the previous hash (the tip or, when there is
none, the greatest file name), `WriteRecord` (exclusive create), the writing of
the tip, and the release; `GiveUp` is the five-second deadline and `SpinAgain` the
retry before it. An exception inside the lock is caught by the retry loop around
it, as in the code, and so reaches the caller as a lock timeout. The faults of an
instance are its constant `Faults`. The hash of a record is its position: a
collision of SHA-256 is not considered.

`AppendLog` is the promise: a log to which each call appends one entry linked to
the last, in one step, or nothing; a process that died may be started again. A call
is committed when its record file is complete, wherever the tip is.

### KintsugiPolicy

Three operations: a fix (`proposeFixes`), a baseline (`baselinePre`, which also
anchors a known-good entry) and a rollback. Each is the code's sequence: read the
policy, initialise if there is none, decide, write a snapshot, activate, record
the change. A policy is the set of departures from the default that
`proposeFixes` can make and stands for its own hash. Appending a record is one
step that may fail, which is what `KintsugiLedger` shows of it. Entries made in
one millisecond are taken to sort in the order they were made, and an integrity
check is one step. Any number of processes work on the store, after each other or
overlapping. Two history variables: `unrecorded`, a change was cut short between its
activation and its record; `overlap`, two processes have been in a capability at once.

### GovernedRun

Each process works on one request at a time; the variables of `store` are the
files all of them share. `Intake`, `EnsureGenesis`, `VerifyProvenance`, the
marking of a failed check or the clearing after a good one, screening (`RefuseRequest`, `PreviewOnly`,
`BeginSteps`), then for each step admission, receipt entries, the router's gates,
and the capability. Abstractions to know: the gates of the router, which have no
`await` between them, are one step; who may write (`Writer`), the allowlist
(`Allowed`) and whether the approver's identity matches are fixed for a behaviour;
what legitimacy and evidence checks conclude is one flag each of the request.
`judgment.json` is rewritten in place, and exceptions are swallowed. So the marker is
`"absent"`, `"empty"` (a run has just opened it to write), `"torn"` (half a write, or two
over each other) or `"active"`, and only the last stops anybody; `opened` are the runs
that write to the file the path names. A receipt may lack its directory (`receipt`) or
lose single entries (`lost`), and nothing stops for either. A capability that throws or
dies leaves its deed undone, done in part or done whole (`deed`).
A process is a daemon or a CLI; two overlapping requests of one daemon are two
processes of the model. Operators edit configuration files at any time, and the
evidence the integrity checks read may be damaged or repaired at any time.

### TelemetryLedger

A line is an entry or text that does not parse; hashes are numbered in the order
entries reach the file and 0 is `undefined`. A process is one `Ledger` object:
`Start` is its constructor, which caches the last hash; `Call`, `AcquireLock`,
`ReadTail`, `AppendLine`, `Return` are the five points of `append` between which
another process can run. As in the code, the catch block of the retry loop also
receives what the critical section throws (`Rethrow`), and past the deadline the
answer is `persisted: false` (`GiveUp`). A torn append leaves text that does not
parse, or a complete entry without its newline, on which the next line lands and with
which it becomes unreadable (`glued`: whose entry that was). `verified` is the last
hash, with its newline, of what an unlock has looked at.
`CheckBeforeUnlock` is `governanceUnlock`: `ok` and not `truncated`. Seen as an
`AppendLog`, an entry is committed when its line is in the file, and `governanceUnlock`
is a call from its verification on, since whatever it decides it appends.

### DaemonLock

A daemon is one process of `startDaemon`, named by its pid. The lock path names a
file, and a file outlives its name: `WritePid` writes to the file that was opened
even if another start has unlinked the path since. `Open` / `ReadPid` / `Judge` /
`Unlink` / `Reopen` are the steps of `acquireSingleInstanceLock`. A pid given away
again (`ReusePid`) is alive for `process.kill(pid, 0)` although its daemon is dead.
The lock is in `os.tmpdir()`, which daemons of several users share: a user's signal to
another's process fails with EPERM, which `isProcessAlive` takes for dead, and, the
directory being sticky, a user cannot unlink another's file (`Over`; `unlinkSync`'s error
is ignored, so the retry fails with EEXIST). `Root` may do both. A shared directory
without the sticky bit is not considered.

### DaemonClient

A client is one invocation, from the first `/plan` to its report. `request` is its
last request as the daemon sees it: `sent`, `running`, answered, or `lost`. The
daemon serves a request whether or not the client still waits (`RunStep`), which
is what makes the local execution after a null answer (`NoAnswer`, `RunHere`) a
second execution. An answer the daemon began and did not finish is `cut`: the client
listens to `data` and `end` of the response and to `error` of the request, so nothing
tells it (`daemonClient.ts:33-51`). All steps of a plan but its last only read, as in
the plans of the planner. The extension (`runWithRails`) is an invocation of the same
kind: it asks for an approval, repeats a refused request once with it, and executes
locally after no answer (`extension.ts:283-308`). All clients share one address, so one
window; `accepted` is a history variable, the times of the requests let through. The
clock never goes back.

### Onboarding and Sentinel

`Onboarding` has the two files that the genesis record seals, the record, the
judgment marker, and processes that check them as `createCore` and the head of
`runLifecycle` do. The code does this in separate file operations without a lock, and
so does the model: `Begin` (read the allowlist; a daemon keeps what it read), `Seal`,
`Verify`, `OpenMarker` and `WriteMarker`, or `Clear`, with any step of another process
between two of them; `SealFails`, `MarkerFails` and `ClearFails` are the exceptions the
code swallows, and a death (`Die`) leaves half of what was being written. Sealing is one
step: the files are read and the record created exclusively, and until it is complete
it verifies for nobody. A run past its check may be admitted by the router (`MayWrite`).
`judgment` is what the router reads: a marker that is missing, empty or torn is none.
Phase 1 keeps nothing (`Respond`); phase 2 appends a submission; phase 3 reads the
session (`ReadSession`), where the reader gives up at the first line that does not
parse (`Found`), and appends the completed one with the scope it read (`Complete`). The
human applies the recommendation in the order of its steps. History variables:
`unmarked`, a failed check has left no marker that the router could read; `overtaken`,
the sessions that were submitted between another process's reading and appending.

`Sentinel` adds the infraction and disposition files and what processes do in a
scan or a review; a run enters either from the router's gates. `Holds` is what each of
the six rules of `runSentinelScan` asks; the governance lock, the receipts and the
Kintsugi policy are state of other modules and change freely here (`Elsewhere`). A scan
may start while the lock is open (`router.ts:73` lets nothing but recovery through), so a
scan that raises the lock is one during which it closed. What a review holds of the open
infractions is a function from the lines of the file to their ids (`open`). `held`,
`alone`, `listed` and `again` are history: what has held since the scan began, whether a
review was overlapped, the ids that were in the file as it began, and which infractions
a review that was not overlapped decided twice.

## 3. Runs

Passing runs:

| Run | Instance | Shows |
|---|---|---|
| `kintsugi_ledger` | 3 processes, deaths, failing record writes, unremovable lock files | `ChainIntact`, `NothingOffChain`, `OutcomeHonest`, `DeadOwnerFreezesLedger`; the store implements `AppendLog` |
| `kintsugi_faults` | all faults | what survives them: a record extends the tip of its instant (`AppendExtendsTip`), the tip moves along links (`TipFollowsChain`), calls return (`EveryCallReturns`) |
| `kintsugi_policy` | 2 processes, after each other or overlapping, deaths, failing writes | `SnapshotFirst`, `ActiveIsRecorded`, `LooseningIsConfirmed`, and what is left of the last when operations overlap (`UnconfirmedIsStale`) |
| `governed` | 1 process, every incomplete approval of the two-step document write, of a fix, and the recovery requests; deaths, throwing capabilities, receipts and entries that cannot be written | `OneApprovalOneStep`, `VerdictMatchesDeeds`, `MutationIsReceipted` |
| `governed_shared` | 2 processes, 4 requests, edits and restores of the configuration, deaths, seals and markers that are torn or not written | `JudgmentHoldsUndisturbed` |
| `governed_recovery` | 1 process with fairness | `LockIsRecoverable` |
| `telemetry_ledger` | 2 processes, every fault, a window of 1 line | the file is linked from first to last unless visibly damaged (`ChainIntact`), answers agree with the disk (`OutcomeHonest`), what an unlock verified still stands when it opens the lock (`UnlockStillStands`), damage is not healed (`BrokenStaysBroken`), appends return (`AppendReturns`) |
| `daemon_lock` | 3 starts on 2 ports, of a user and root, every fault | one holder unless two starts overlap (`LockExcludes`), whose file the path names (`LockNamesServer`); no leftover lock of its own user refuses a lone start (`OnlyOthersKeepOut`) |
| `daemon_client` | 2 invocations of a two-step plan, every fault, a limit of 2 requests | `WrittenOnce`, `StepsInOrder`, `SuccessIsComplete`, `RateBounded`, `OnlyACutAnswerHangs` |
| `onboarding` | 2 processes, 1 session, 2 scopes, every fault | `AdviceComesAfterSeal`, `CompletesLatestScope` |
| `sentinel` | 2 processes that scan and review, the rules "judgment" and "lock", torn files, a seal and a marker that come and go | `ScanReports`, `OneDecisionEach`, `RemainingIsLeft`, `ClearMeansClear` |

The run that finds the program disagreeing with what it says of itself (the
quotation is in `PROJECT.json`):

| Run | Counterexample |
|---|---|
| `onboarding_reseal` | the recommended files are applied and the daemon is started with writing enabled, as the apply steps say: the genesis record of the old files is kept and the new ones are in judgment (`AppliedPasses`) |

The type invariants of all modules are theorems; `kintsugi_policy`, `daemon_client`
and `sentinel` also check one as an invariant, since more than a range is in it:
that a known-good entry names a record, that a client asks for steps of the plan
only, that a process is in a scan or review exactly while the router has it there.

**Bounds.** Each is a constant of the `.cfg`. Three appends are enough for two
to compete while a third finds their result; a fork needs two records with one
predecessor and a third to build on it. In the policy store `MaxHistory`, `MaxRecords`
and `MaxEntries` stop new operations, never one under way: an operation starts with fewer
than three policies snapshotted and fewer than three records, and a baseline with no
known-good entry yet. That is room for a baseline, a fix and a rollback, for instance, and
not for every order of them. Of the suggestions two are `Picked`, one that loosens and one
that tightens. With one known-good entry a rollback only takes fixes back, which never
loosens; that one which does needs a confirmation is proved, for every depth, order and
bound.
The plans
of the planner have at most two steps, so `GovernedRun` has no bound on them; a
process may make any number of requests. Two processes are what a race on the
marker needs: the store has one marker, and a third process can only repeat what
one of the two does. The telemetry ledger stops new calls after `MaxAppends` = 2 entries
and then lets the calls under way finish, so the file outgrows the window of one line (`MaxEntries`) and
can be rotated and grow again. `DaemonLock` has a start
that holds the lock while two others find it. `DaemonClient` bounds the clock
(`MaxTime` = 2, a window of 1 ms, a limit of 2): two windows and the edge between them,
with requests at 0, 1, 2 and 2, which is as many in as little time as `RateBounded`
allows. `DaemonLock` has one user beside root, who meets in root's processes and files what a user
meets in another's; the theorems are for any number of users. `Onboarding` bounds the session file
(`MaxLines` = 2: a submission and another one that overtakes it, is torn, or is
completed), and has one session, since a line of another one only lies in between.
`Sentinel` bounds the infraction file (`MaxRaised` = 2) and the clock (`MaxTime` = 1: two
scans in one millisecond, or in two). It has no onboarding session, no edits and no
deleted seals: what it reads of `Onboarding` is the marker, which comes and goes without
them (a process that may not write finds no seal and fails). The four rules left out are
checked by the same code.

`LegacyRecords` is a ledger written before the chain-tip file was introduced.
`CHECK_DEADLOCK FALSE` appears where the bounds, or the end of every process,
stop an instance; the governed run is checked for deadlock.

**Fairness.** `KintsugiLedger` has weak fairness on `RecordLedger`, which is
synchronous code with no `await`, and strong fairness on `GiveUp`, because the
retry loop compares with a deadline on each pass; it assumes nothing about who
gets the lock, since a spin on `openSync` is not queued. `TelemetryLedger` has the
same on `AppendStep` and its `GiveUp`, for the same reason.
`GovernedRun` has weak fairness on `Lifecycle`, for the same reason, and strong
fairness on an operator making an unlock request, which is an assumption about
the operator. `DaemonClient` has weak fairness on `Drive`: an answer that arrived
is handled by the event loop, and the timer of a request fires; nothing is assumed of the daemon.
No fairness is assumed of crashes, edits or the damage and repair of evidence.

**Observations.** What the models show of the code beyond the properties above;
each is a behaviour that some property excludes by name.

- A chain-tip write that fails after its record was written (`memory.ts:447`, fault
  `"tip"`) is reported as a lock timeout, and the next append forks the chain:
  `ChainIntact` of `KintsugiLedger` holds without that fault only.
- Kintsugi records are stamped before the lock is taken, so later links can carry
  earlier times.
- Rolling back to the policy in force writes a change record without a change, at
  which the audit warns ever after (`rollbackKnownGood.ts:158`, `memory.ts:606`); no
  property is about it.
- Two processes that work on the policy at once can leave in force one that is not
  the last recorded, and lose an update: `ActiveIsRecorded` and `LooseningIsConfirmed`
  are for operations that have not overlapped. A baseline or a fix decided on an older
  policy can then loosen a newer one unconfirmed; `UnconfirmedIsStale` says that
  nothing else can.
- A run whose check failed gets past the router when its judgment marker is not there
  to be read: another run that verified before an edit clears it, another one opens it
  to write it again, or it could not be written, or only half of it.
  `JudgmentHoldsUndisturbed` and `AdviceComesAfterSeal` name these cases.
- Nothing stops for a receipt that cannot be written, neither its directory (fault
  `"receipt"` of `GovernedRun`) nor an entry (`"entry"`; `receipts.ts:87-96` swallows the
  exception), although `runLifecycle.ts:58` calls receipts mandatory.
  `MutationIsReceipted` excepts those runs (`lost`).
- A self-test or an unlock inspects the evidence and writes the lock file later. So a
  lock closed for new damage is opened by an unlock that had looked before it; no property
  excludes this.
- A telemetry entry put on a last line without its newline is lost with that line, and
  its caller gets a plain answer (`glued`). An empty or missing ledger verifies.
- A `/plan` answer without a plan (a rate limit, an error) is driven as the one
  step `step-1`, which for a two-step plan only reads: the client then reports a
  success without the write (`SuccessIsComplete`).
- A client that gives up waiting for the write executes it again (`WrittenOnce`).
- A daemon that dies inside the body of its answer leaves its client waiting for ever
  (`OnlyACutAnswerHangs`): the extension stays RUNNING, and the CLI, which has nothing
  else to wait for, ends without a word.
- Two daemons that start at once over a stale lock can both run (`LockExcludes`). A
  stale lock of another user keeps even a lone start down for good, since the error of
  `unlinkSync` is ignored and the retry fails with EEXIST (`server.ts:88-93`,
  `OnlyOthersKeepOut`). In a container, where a daemon may get the pid its predecessor
  left in the lock, it refuses itself (`company`).
- A session submitted while another process is in phase 3 of it is completed, and
  recommended for, with the older scope (`mondayOnboarding.ts:467`, `498`; `overtaken`).
- A daemon keeps the allowlist it read when it was created, also after an applied one.
- An emptied allowlist and a closed governance lock also stop the capability that
  would report them; only what closes or is emptied after the gates is raised.
- One torn line in the infraction file makes every open infraction vanish from
  reviews, which then say "System is clear." (`ClearMeansClear`), and one in the
  disposition file reopens all of them.
- Two scans in one millisecond give an infraction the same id twice; a review then
  counts one decision against two open lines, and they share it (`IsInjective` in
  `RemainingIsLeft`).
- Reviews that overlap can both decide one infraction.
- `/health` counts an infraction with a disposition as open (`server.ts:946`),
  `monday_system_status` does not (`monday.ts:239`).

## 4. Proofs

Each holds for every value of the constants allowed by the module's `ASSUME`.

**KintsugiLedgerProofs.** `LockInv` is inductive under every fault: besides the
types it says that only the creator of the lock file is inside, that the hash it
read is still the tip, and that what it wrote extends what it read. It gives
`TypeCorrect`, and with it the action properties `AppendsExtendTip` and
`TipMovesAlongChain`, and `DeadOwnersFreeze` if no lock file is removed by hand. Without failing tip writes and hand-removed lock files
(`SafeEnvironment`, which still includes deaths, failing record writes and lock
files that cannot be removed, and at most one record older than the tip file, then
without failing record writes, so that the directory scan has no choice) `ChainInv` adds that record `i` links to `i - 1` and that the
tip names the last record unless the owner of the lock is in doubt; this is what
makes a death between the two files harmless: the lock stays. It gives
`ChainNeverForks` and, step by step, `LedgerImplementsLog`. `OutcomesAreHonest`
needs only that tip writes do not fail. The two environments excluded are the
ones in which a failing tip write, or a removed lock, forks the chain.

What `validateLedgerChain` says of a ledger is a fact about data, and its walk is
recursive. Both are proved by induction on the records: a set of naturals that is not
empty has a least element (`LeastNat`, from the well-foundedness of `<`), so one looks
at the first record that would be missed. All they need of the program is
`LinksLeadBack`, which holds under every fault: a record's link is to an older record.
`WalkReachesAll`: where no two records hang on the same one, the walk misses none.
`CleanIsInOrder`: where there is one genesis, too, each record links to the one
written before it. So, under every fault, the warning about unreachable records never
comes without the one about a fork (`UnreachedMeansForked`), and a ledger without
warnings is in the order of writing (`CleanMeansInOrder`); and in a safe environment,
which does not fork, every record is reached (`EveryRecordReached`).

**KintsugiPolicyProofs.** `StoreInv` (any number of processes, any fault) adds to
`SnapshotFirst` what each operation holds in its hands: what it is about to
activate has its snapshot already. `SoloInv` says that what an operation read is still
true, so the policy in force is the recorded one except inside the window before the
record, and that an unconfirmed operation does not loosen; `AloneInv`, that `SoloInv`
holds until two operations overlap. It gives `PolicyInForceIsRecorded` and
`LooseningNeedsConfirmation`. After an overlap both fail (Observations); what remains is
`Decided`, that what an operation decided is confirmed where it loosens the policy it
decided on, and from it `OnlyStaleDecisionsLoosen`: nothing but a policy replaced in
between lets an unconfirmed operation loosen the one in force.

**GovernedRunProofs.** `RunInv` is about one process, which is why it holds for
any number: past admission a step has its approval; a legacy approval is the
approval of the only step in question; nothing has been changed before the last
step of a plan; a closing run has executed its last step. It gives
`ApprovalsAreStepScoped` and `VerdictsAreTrue`. `Receipted` follows what is logged: until
an entry is lost, the steps that were started are in the receipt. It gives
`MutationsLeaveReceipts`, under every fault. `Restrained` follows the judgment marker
across processes: a run that failed its check and is not excused has its complete marker
on disk, and a run past the gates with a mutating step found none. It gives
`JudgmentRestrains`: to execute anything privileged, a run whose check failed must have
had its marker cleared or rewritten by another run since, or have failed to write it.

**TelemetryLedgerProofs.** `IInv` is `TypeOK`, `Sound`, `Counting`, `Distinct` and
`Recorded`. `Sound`, until a line is torn or a lock removed under its owner, says that
whoever is inside owns the lock file, that the file continues the archive entry by
entry up to the last hash made, and that what was read under the lock is still
the last line. It gives `ChainStaysIntact`. The others hold under every fault:
`Counting`, what a call wrote agrees with where the call is; `Distinct`, no hash is on two
lines, or on one and in the archive; `Recorded`, an entry that was put on a line of its own
stays on one, readable, or goes to the archive, and what an unlock verified stays
linked up to its last complete line. A line that has its newline is never touched
again, which is why rotation, torn lines and a second writer do not disturb this.
`Distinct` and `Recorded` give `OutcomesAreHonest`, and `UnlockIsInformed` for every
window size, whatever happens between the check and the opening of the lock.
`DamageIsNotHidden` is an action property: an append either adds a line or spoils
the last one, and neither repairs a link. `TelemetryImplementsLog` is for the faults
under which lines are kept (`LinesAreKept`: nothing tears, no lock is taken from a
process at work, nothing is archived; appends still fail, lock files stay behind, and
processes die anywhere and start again). `Kept` adds to `IInv` that line `i` links to
`i - 1`, the first included, so what a process read under the lock is the number of
entries before its own, and `AppendLine` is the abstract `Commit`. The run has all faults
and cannot show this one; TLC checked it on two processes, three entries and the four
faults that remain before it was proved.

**DaemonLockProofs.** `IInv` is `TypeOK`, `Met` and `Orderly`. `Met`, under every
fault: a start never reads its own pid, and one that found a living pid, or the path
taken after it unlinked, is recorded to have had company or could not unlink the
file; it gives `StaleLockYields`. `Orderly`,
while no two starts have overlapped: the path belongs to the one daemon that
holds the lock or is about to, and a start beside a holder has got no further
than reading the holder's pid, unless it may neither signal the holder nor unlink its
file. It gives `OneHolder` and `LockStays`.

**DaemonClientProofs.** `IInv` is `TypeOK` and, for each invocation, `Fits`, which
relates its stage, its request, and what the daemon and its own process have made
of the plan. While the daemon has the request for a step, the steps before it have
been made there and those after it have not (`Remotely`); what the invocation's own
process made is a prefix (`Locally`); and where both may make the last step, the
request for it is the one whose answer was given up (`Once`). One invocation
disturbs no other, so the number of them does not matter. It gives
`WritesHappenOnce`, `StepsComeInOrder` and `SuccessesAreComplete` under every fault.
`RateIsBounded` is for every limit and window length. `RateBounded` itself says nothing
of the window that is open, so it is not inductive; `RateInv` adds how the requests let
through lie around it (`Paced`): no more of them than the counter says, capped at the
limit, came in it; those before came no later than its start; and the one a limit
earlier came more than a window before that start, because a window opens only after
the one before it is over.

**OnboardingProofs.** `IInv` adds four facts to the type invariant. `Sealed`: where there
is no readable seal, nobody has passed the verification or been admitted, and those who
have been checked find a marker, or one that is being written -- unless a failed check
has left none. `FoundIsLatest`: the line that the reader finds carries the scope
submitted last, because a line that was cut short stays the end that the reader does not
get past (`CutIsTorn`). `ReadIsLatest`: so does what phase 3 has read, unless it is
stale. They give `SealedBeforeAdvice` and `LatestScopeCompletes`, for any number of
processes between whose steps others come.

**SentinelProofs.** `Sound` is about one process: at each stage it has in its hands
what that stage needs; what has held since its scan began still has its check
ahead, or has been found, or is in the file (`Covered`); and a review that nothing
overlapped knows every decision in a file that can be read (`Informed`). Others can
only add lines to the files, spoil them, or mark the review as overlapped. It
gives `ScansReport` and `ReviewsDecideOnce`, for every selection of the rules.
Whatever overlaps a review, the infractions it read are at least as many as the
decisions it has written (`IsReview`), so `remaining` is never negative (part of
`TypeCorrect`); and where ids differ, a review that nothing overlaps keeps its
`Accounts` (`Counted`): what it has written and what is left of the file add up to the lines it
held open. This gives `RemainingIsCounted`. `Listed`: what was in the file as a review
began is in what it read, unless a line of the file is torn; with the step that ends a
review without a decision, that gives `ClearIsClear`. The lemmas on lines (`LinesAndIds`,
`StillOpenIsLeft`) turn a filter of the file into a restriction of a function, and
lines into ids, on which the library counts.

Every safety invariant and action property of the passing runs is a theorem. Only
model-checked: the liveness properties (`EveryCallReturns`, `LockIsRecoverable`,
`AppendReturns`, `OnlyACutAnswerHangs`), since no prover here handles fairness. The
theorems keep the assumptions of the runs where a property needs one: `SafeEnvironment`,
`NoTipFault`, `LinesAreKept`.

## 5. Not modelled

- **Documents**: the text that `searchDocApply` splices. It takes no lock, so of two
  applies at once one is lost whatever the text; plan, approval and gates are in
  `GovernedRun`.
- **Configuration cache, protected paths, known-good window, legitimacy gate**: pure
  functions of strings, paths and time stamps. Where a verdict of theirs decides
  anything it is a flag of a request, or a constant.
- **Skjoldr firewall, Wyerd trader, Kennr, Skadi**: each operation is one call of an
  external program or service, which alone holds the state that could go wrong.
- **Edge worker**: whether two requests see one counter is decided by storage that
  is no part of the repository.
- **HTTP parsing, authentication, pages, prompts, argument parsing, the VS Code user
  interface, read-only reports and scans**: no state that survives a call.
- **CI and maintenance scripts, branches and consumers**: separate programs that run
  over the repository or consume its contracts.

`PROJECT.json` gives the status of each component and the reason for it.
