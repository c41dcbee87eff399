--------------------------- MODULE KintsugiPolicy ---------------------------
(***************************************************************************)
(* The Kintsugi policy store: the active policy file, the history of       *)
(* policy snapshots, the known-good entries and the records of policy      *)
(* changes, as the capabilities proposeFixes, rollbackKnownGood and        *)
(* baselinePre (through core/kintsugi/memory.ts and knownGood.ts) use them. *)
(*                                                                         *)
(* A process (daemon, CLI, VS Code extension) runs one capability at a     *)
(* time: capabilities use synchronous file calls, so they interleave only  *)
(* with those of other processes, which share the files, and a process may *)
(* die between any two file calls.  Records go through recordLedger, which *)
(* KintsugiLedger models; here an append is the one atomic step AppendLog  *)
(* promises.  A policy is the set of departures from DEFAULT_POLICY that   *)
(* proposeFixes can make, and stands for its own hash.                     *)
(***************************************************************************)
EXTENDS Naturals, Sequences, FiniteSets

CONSTANTS
  Process,       \* the processes that share the repository
  EnvWrite,      \* AUERNYX_WRITE_ENABLED is "1": integrity checks may write
  Faults,        \* which environment faults occur, see FaultKinds
  Picked,        \* bound: the suggestions that are ever picked, see Patch
  MaxDepth,      \* rollbackMaxDepth: the known-good entries in reach
  MaxHistory,    \* bound: no operation starts with this many policies snapshotted
  MaxRecords,    \* bound: nor with this many records
  MaxEntries     \* bound: known-good entries

FaultKinds ==
  {"crash",      \* the process dies
   "append",     \* recordLedger throws (lock timeout, disk error)
   "write"}      \* writing a snapshot, the active policy or an entry throws

\* The departures from DEFAULT_POLICY, one per suggestion of proposeFixes:
Patch ==
  {"controlled",    \* riskTolerance: CONTROLLED
   "noConfirm",     \* confirmArtifactWrites: false
   "strict",        \* strictPreflightForArtifactWrites: true
   "noIntegrity"}   \* rollbackRequiresIntegrityPass: false

ASSUME PolicyAssumption ==
  /\ EnvWrite \in BOOLEAN
  /\ Faults \subseteq FaultKinds
  /\ Picked \subseteq Patch
  /\ MaxDepth \in Nat /\ MaxHistory \in Nat /\ MaxRecords \in Nat /\ MaxEntries \in Nat

Policy   == SUBSET Patch
Default  == {}
NoPolicy == {"(no active.policy.json)"}

VARIABLES
  active,      \* active.policy.json
  history,     \* the policies with a snapshot in policy/history
  torn,        \* policy/history holds a snapshot file left half written
  records,     \* the Kintsugi records these operations append, oldest first
  entries,     \* the known-good entries, oldest first
  pc,          \* where each process is in its capability
  job,         \* what it is doing, and what it has read so far
  unrecorded,  \* history: an activation whose change record never came
  overlap      \* history: two processes have been in a capability at once

vars == <<active, history, torn, records, entries, pc, job, unrecorded, overlap>>
store == <<active, history, torn, records, entries>>

Steps == {"idle", "init", "initSnapshot", "initActivate", "decide",
          "snapshot", "activate", "record", "applied", "anchor", "entry"}

NoJob == [op |-> "none", patch |-> "strict", target |-> 0, confirm |-> FALSE,
          saw |-> Default, before |-> Default, after |-> Default, head |-> 0]

Init ==
  /\ active = NoPolicy
  /\ history = {}
  /\ torn = FALSE
  /\ records = <<>>
  /\ entries = <<>>
  /\ pc = [p \in Process |-> "idle"]
  /\ job = [p \in Process |-> NoJob]
  /\ unrecorded = FALSE
  /\ overlap = FALSE

At(p, from, to) == pc[p] = from /\ pc' = [pc EXCEPT ![p] = to]

\* getKintsugiPolicy: no file, or one that cannot be read, is the default.
ReadPolicy == IF active = NoPolicy THEN Default ELSE active

-----------------------------------------------------------------------------
(* verifyKintsugiIntegrity over the policy files (validatePolicySnapshots). *)

ChangeRecords == {i \in DOMAIN records : records[i].change}
RecordedAfter == {records[i].after : i \in ChangeRecords}

EveryChangeChanges == \A i \in ChangeRecords : records[i].before # records[i].after
EveryAfterSnapshot == RecordedAfter \subseteq history
ActiveIsKnown      == ChangeRecords # {} => ReadPolicy \in RecordedAfter

IntegrityOk == ~torn /\ EveryChangeChanges /\ EveryAfterSnapshot /\ ActiveIsKnown

-----------------------------------------------------------------------------
(* The start of a capability: the policy is read once before anything else. *)

Start(p, op, next) ==
  /\ Cardinality(history) < MaxHistory /\ Len(records) < MaxRecords
  /\ At(p, "idle", next)
  /\ UNCHANGED <<store, unrecorded>>
  /\ job' = [job EXCEPT ![p] = op]

StartFix(p) ==
  \E x \in Picked, ok \in BOOLEAN :
    Start(p, [NoJob EXCEPT !.op = "fix", !.patch = x, !.confirm = ok, !.saw = ReadPolicy],
          IF EnvWrite THEN "init" ELSE "decide")

\* The integrity check, and with it the initialisation, is skipped when the
\* policy does not require a pass.
StartRollback(p) ==
  \E k \in 1..Len(entries), ok \in BOOLEAN :
    Start(p, [NoJob EXCEPT !.op = "rollback", !.target = k, !.confirm = ok, !.saw = ReadPolicy],
          IF EnvWrite /\ "noIntegrity" \notin ReadPolicy THEN "init" ELSE "decide")

StartBaseline(p) ==
  /\ Len(entries) < MaxEntries
  /\ Start(p, [NoJob EXCEPT !.op = "baseline", !.saw = ReadPolicy], "init")

-----------------------------------------------------------------------------
(* ensurePolicyInitialized: nothing when the file exists, otherwise the     *)
(* default is snapshotted and activated; any exception is swallowed.        *)

PolicyExists(p) ==
  /\ active # NoPolicy
  /\ At(p, "init", "decide")
  /\ UNCHANGED <<store, job, unrecorded>>

PolicyMissing(p) ==
  /\ active = NoPolicy
  /\ At(p, "init", "initSnapshot")
  /\ UNCHANGED <<store, job, unrecorded>>

InitSnapshot(p) ==
  /\ At(p, "initSnapshot", "initActivate")
  /\ history' = history \cup {Default}
  /\ UNCHANGED <<torn, active, records, entries, job, unrecorded>>

InitActivate(p) ==
  /\ At(p, "initActivate", "decide")
  /\ active' = Default
  /\ UNCHANGED <<torn, history, records, entries, job, unrecorded>>

\* A snapshot is not written through a temporary file: a failure in the middle
\* of the write leaves one that cannot be parsed.
MayTear(p) ==
  \/ UNCHANGED torn
  \/ pc[p] \in {"initSnapshot", "snapshot"} /\ torn' = TRUE

InitFails(p) ==
  /\ "write" \in Faults
  /\ At(p, "initSnapshot", "decide") \/ At(p, "initActivate", "decide")
  /\ MayTear(p)
  /\ UNCHANGED <<active, history, records, entries, job, unrecorded>>

-----------------------------------------------------------------------------
\* Definitions named Bug_... are not part of the model, see KintsugiLedger.

(* The decision: the capability's own gates, then the change it will make.  *)

Loosening == {"controlled", "noConfirm", "noIntegrity"}
IsLoosening(before, after) == (after \ before) \cap Loosening # {}

\* The suggestions proposeFixes derives from the policy it read first.
Offered(p) ==
  /\ job[p].patch \notin job[p].saw
  /\ job[p].patch = "noIntegrity" => ~IntegrityOk

Patched(p) == ReadPolicy \cup {job[p].patch}

\* Asking for the confirmation of everything but a loosening change.
Bug_InvertedGate(p) ==
  /\ Offered(p)
  /\ ~IsLoosening(ReadPolicy, Patched(p)) => job[p].confirm

FixAllowed(p) ==
  /\ Offered(p)
  /\ IsLoosening(ReadPolicy, Patched(p)) => job[p].confirm

\* listKnownGoodSnapshots cut to the newest rollbackMaxDepth entries.
Candidates == {k \in 1..Len(entries) : k + MaxDepth > Len(entries)}

RollbackAllowed(p) ==
  /\ "noIntegrity" \notin job[p].saw => IntegrityOk
  /\ job[p].target \in Candidates
  /\ entries[job[p].target].head \in DOMAIN records
  /\ job[p].confirm

Decide(p, before, after) ==
  /\ At(p, "decide", "snapshot")
  /\ job' = [job EXCEPT ![p].before = before, ![p].after = after]
  /\ UNCHANGED <<store, unrecorded>>

ApplyFix(p) ==
  /\ job[p].op = "fix"
  /\ FixAllowed(p)
  /\ Decide(p, ReadPolicy, Patched(p))

ApplyRollback(p) ==
  /\ job[p].op = "rollback"
  /\ RollbackAllowed(p)
  /\ Decide(p, ReadPolicy, entries[job[p].target].policy)

\* Snapshotting the default instead of the policy in force.
Bug_BaselineOfDefault(p) ==
  /\ job[p].op = "baseline"
  /\ Decide(p, job[p].saw, Default)

\* baselinePre re-activates the policy it read before the initialisation.
ApplyBaseline(p) ==
  /\ job[p].op = "baseline"
  /\ Decide(p, job[p].saw, job[p].saw)

Refuse(p) ==
  /\ \/ job[p].op = "fix" /\ ~FixAllowed(p)
     \/ job[p].op = "rollback" /\ ~RollbackAllowed(p)
  /\ At(p, "decide", "idle")
  /\ job' = [job EXCEPT ![p] = NoJob]
  /\ UNCHANGED <<store, unrecorded>>

-----------------------------------------------------------------------------
(* writePolicySnapshotAndActivate and the records that follow it.           *)

\* Activating a policy that has no snapshot in the history.
Bug_NoSnapshot(p) ==
  /\ At(p, "snapshot", "activate")
  /\ UNCHANGED <<store, job, unrecorded>>

Snapshot(p) ==
  /\ At(p, "snapshot", "activate")
  /\ history' = history \cup {job[p].after}
  /\ UNCHANGED <<torn, active, records, entries, job, unrecorded>>

Activate(p) ==
  /\ At(p, "activate", IF job[p].op = "baseline" THEN "anchor" ELSE "record")
  /\ active' = job[p].after
  /\ UNCHANGED <<torn, history, records, entries, job, unrecorded>>

Finish(p) == job' = [job EXCEPT ![p] = NoJob]

ChangeRecord(p) ==
  [change |-> TRUE, before |-> job[p].before, after |-> job[p].after]
OtherRecord(p) ==
  [change |-> FALSE, before |-> job[p].before, after |-> job[p].after]

RecordFix(p) ==
  /\ job[p].op = "fix"
  /\ At(p, "record", "idle")
  /\ records' = Append(records, ChangeRecord(p))
  /\ unrecorded' = FALSE
  /\ Finish(p)
  /\ UNCHANGED <<torn, active, history, entries>>

RecordRollback(p) ==
  /\ job[p].op = "rollback"
  /\ At(p, "record", "applied")
  /\ records' = Append(records, ChangeRecord(p))
  /\ unrecorded' = FALSE
  /\ UNCHANGED <<torn, active, history, entries, job>>

\* "Rollback applied", a record of its own after the policy change.
RecordApplied(p) ==
  /\ At(p, "applied", "idle")
  /\ records' = Append(records, OtherRecord(p))
  /\ Finish(p)
  /\ UNCHANGED <<torn, active, history, entries, unrecorded>>

\* Anchoring at the last record without making sure that there is one.
Bug_NoAnchor(p) ==
  /\ At(p, "anchor", "entry")
  /\ job' = [job EXCEPT ![p].head = Len(records)]
  /\ UNCHANGED <<store, unrecorded>>

\* A known-good entry is anchored at the last record; the first one writes it.
Anchor(p) ==
  /\ At(p, "anchor", "entry")
  /\ records' = IF records = <<>> THEN <<OtherRecord(p)>> ELSE records
  /\ job' = [job EXCEPT ![p].head = Len(records')]
  /\ UNCHANGED <<torn, active, history, entries, unrecorded>>

WriteEntry(p) ==
  /\ At(p, "entry", "idle")
  /\ entries' = Append(entries, [policy |-> job[p].after, head |-> job[p].head])
  /\ Finish(p)
  /\ UNCHANGED <<torn, active, history, records, unrecorded>>

-----------------------------------------------------------------------------
(* Failures.  Nothing undoes the steps already taken.                       *)

Abandon(p) ==
  /\ pc' = [pc EXCEPT ![p] = "idle"]
  /\ Finish(p)
  /\ unrecorded' = (unrecorded \/ (pc[p] = "record" /\ job[p].before # job[p].after))
  /\ MayTear(p)
  /\ UNCHANGED <<active, history, records, entries>>

WriteFails(p) ==
  /\ "write" \in Faults
  /\ pc[p] \in {"snapshot", "activate", "entry"}
  /\ Abandon(p)

AppendFails(p) ==
  /\ "append" \in Faults
  /\ pc[p] \in {"record", "applied"} \/ (pc[p] = "anchor" /\ records = <<>>)
  /\ Abandon(p)

Crash(p) ==
  /\ "crash" \in Faults
  /\ pc[p] # "idle"
  /\ Abandon(p)

-----------------------------------------------------------------------------

Capability(p) ==
  \/ StartFix(p) \/ StartRollback(p) \/ StartBaseline(p)
  \/ PolicyExists(p) \/ PolicyMissing(p) \/ InitSnapshot(p) \/ InitActivate(p) \/ InitFails(p)
  \/ ApplyFix(p) \/ ApplyRollback(p) \/ ApplyBaseline(p) \/ Refuse(p)
  \/ Snapshot(p) \/ Activate(p)
  \/ RecordFix(p) \/ RecordRollback(p) \/ RecordApplied(p) \/ Anchor(p) \/ WriteEntry(p)
  \/ WriteFails(p) \/ AppendFails(p)

TwoBusy == \E p, q \in Process : p # q /\ pc[p] # "idle" /\ pc[q] # "idle"

Next ==
  /\ \E p \in Process : Capability(p) \/ Crash(p)
  /\ overlap' = (overlap \/ TwoBusy')

Spec == Init /\ [][Next]_vars

-----------------------------------------------------------------------------
(* Properties.                                                              *)

RecordType == [change : BOOLEAN, before : Policy, after : Policy]
EntryType  == [policy : Policy, head : Nat \ {0}]
JobType ==
  [op : {"none", "fix", "rollback", "baseline"}, patch : Patch, target : Nat,
   confirm : BOOLEAN, saw : Policy, before : Policy, after : Policy, head : Nat]

\* Every variable has the shape its comment gives it; in particular a known-good
\* entry always names a record it is anchored at.
TypeOK ==
  /\ active \in Policy \cup {NoPolicy}
  /\ history \subseteq Policy
  /\ torn \in BOOLEAN
  /\ records \in Seq(RecordType)
  /\ entries \in Seq(EntryType)
  /\ pc \in [Process -> Steps]
  /\ job \in [Process -> JobType]
  /\ unrecorded \in BOOLEAN
  /\ overlap \in BOOLEAN

Quiet == \A p \in Process : pc[p] = "idle"

\* v is the policy the last change record says is in force; before the first
\* change that is the default.
LastRecorded(v) ==
  \/ ChangeRecords = {} /\ v = Default
  \/ \E i \in ChangeRecords : (\A j \in ChangeRecords : j <= i) /\ records[i].after = v

\* Whatever fails or dies, nothing is in force, recorded or marked known good
\* that could not be rolled back to: it has a snapshot in the history, and the
\* anchor of a known-good entry is a record on disk.
SnapshotFirst ==
  /\ active # NoPolicy => active \in history
  /\ RecordedAfter \subseteq history
  /\ \A k \in DOMAIN entries :
       entries[k].policy \in history /\ entries[k].head \in DOMAIN records

\* "Policy changes are recorded to prevent silent correction": with no
\* capability running, the policy in force is the one of the last change
\* record, unless a change was cut short between its activation and its record,
\* or two capabilities overlapped: nothing locks the policy between reading and
\* writing it.
ActiveIsRecorded == (Quiet /\ ~unrecorded /\ ~overlap) => LastRecorded(ReadPolicy)

Loosened == active' # active /\ active' # NoPolicy /\ IsLoosening(ReadPolicy, active')

\* While capabilities do not overlap, the policy in force is only loosened by an
\* operation that was confirmed.
LooseningIsConfirmed ==
  [][Loosened /\ ~overlap => \E p \in Process : pc[p] = "activate" /\ job[p].confirm]_vars

\* However capabilities overlap, one that loosens the policy in force without having
\* been confirmed decided on a policy that was no longer in force when it activated
\* its own: overwriting another's change is the only way around the confirmation.
UnconfirmedIsStale ==
  [][Loosened =>
       \E p \in Process :
         /\ pc[p] = "activate" /\ pc'[p] # "activate"
         /\ active' = job[p].after
         /\ job[p].confirm \/ job[p].before # ReadPolicy]_vars
=============================================================================
