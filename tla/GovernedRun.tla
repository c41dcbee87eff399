----------------------------- MODULE GovernedRun -----------------------------
(***************************************************************************)
(* runLifecycle (core/runLifecycle.ts), the only way to execute anything:  *)
(* verify provenance, screen and plan the request, then admit, log and     *)
(* execute its steps through the router, and close the receipt.  The state *)
(* that decides what may run is in files every process shares: the genesis *)
(* record and the configuration it seals, the judgment marker, the         *)
(* governance lock and the risk tolerance of the Kintsugi policy.          *)
(*                                                                         *)
(* A process (daemon, CLI, VS Code extension) works on one request at a    *)
(* time; every step below is a stretch of synchronous code, and processes  *)
(* interleave between them.  The capabilities included are the ones that   *)
(* change this state, the two-step document write, and a read-only one.    *)
(***************************************************************************)
EXTENDS Naturals, Sequences, FiniteSets

CONSTANTS
  Process,    \* the processes that share the repository
  Writer,     \* those with writing enabled (AUERNYX_WRITE_ENABLED, writeEnabled)
  Allowed,    \* config/allowlist.json, read when a process starts
  Request,    \* the requests that are made, see RequestType
  Faults      \* which environment faults occur, see FaultKinds

FaultKinds ==
  {"crash",       \* the process dies
   "throw",       \* a capability refuses or fails part of the way through
   "copy",        \* only one of the two configuration files can be restored
   "seal",        \* the genesis record cannot be written, or only half of it
   "judgment",    \* the judgment marker cannot be written or removed, or only
                  \* half of it is written
   "receipt",     \* the receipt directory cannot be created
   "entry",       \* a receipt file cannot be written, or only half of it
   "evidence"}    \* what the integrity checks read is damaged, or repaired

\* The configuration on disk: the known good one, an edited one, or the mixture
\* that copying back only one of the two files leaves.
Config  == {"good", "edited", "mixed"}
Genesis == Config \cup {"none", "torn"}

\* judgment.json: missing, truncated by a run about to write it, left half
\* written, or complete.  Only a complete one can be parsed.
Marker == {"absent", "empty", "torn", "active"}

\* What an approval for a step carries besides its reason.
Mark == {"apply", "confirm", "identity", "ack"}
NoApproval == {"(not given)"}

ReadOnly   == {"memoryCheck", "searchDocPreview"}
Tier2      == {"governanceUnlock", "rollbackKnownGood"}
Capability == ReadOnly \cup Tier2 \cup {"searchDocApply", "proposeFixes", "governanceSelfTest"}

\* planForIntent: both document capabilities plan a preview and an apply step.
Plan(cap) ==
  IF cap \in {"searchDocPreview", "searchDocApply"}
  THEN <<"searchDocPreview", "searchDocApply">> ELSE <<cap>>

RequestType ==
  [cap : Capability,
   target : 0..2,     \* executeStepId, 0 when the whole plan is to run
   legacy : BOOLEAN,  \* one plain approval instead of an approval per step
   given : [1..2 -> (SUBSET Mark) \cup {NoApproval}],  \* legacy uses given[1]
   sound : BOOLEAN,   \* legitimate, routable, not vague, names known steps only
   clean : BOOLEAN]   \* evidence, git and canon preconditions for writing are met

ASSUME RunAssumption ==
  /\ Writer \subseteq Process
  /\ Allowed \subseteq Capability
  /\ Request \subseteq RequestType
  /\ \A r \in Request : r.target <= Len(Plan(r.cap))
  /\ Faults \subseteq FaultKinds

VARIABLES
  config,     \* the governance configuration files
  genesis,    \* the configuration the genesis record seals
  judgment,   \* the judgment marker
  opened,     \* the processes that write to the file the marker's path names
  locked,     \* logs/governance.lock.json says locked
  elevated,   \* riskTolerance is CONTROLLED in the active policy
  chainOk,    \* the telemetry ledger verifies from its first entry
  witnessOk,  \* Kintsugi integrity and the ghost verification pass
  pc,         \* where each process is in runLifecycle
  run,        \* the request it works on
  at,         \* the index of the step it works on, once it works on one
  prov,       \* what its verifyProvenance returned
  finding,    \* what its self-test or ledger verification found
  receipt,    \* its receipt directory exists
  lost,       \* history: an entry of this receipt could not be written
  logged,     \* steps with an entry in approvals.ndjson and toolcalls.ndjson
  done,       \* history: steps whose capability returned
  deed,       \* history: how much of a mutating step was executed
  excused,    \* history: since its own failed check the marker was cleared or
              \* rewritten by another run, or its own write of it failed
  verdict     \* the decision in governance.json of its last finished run

marker == <<judgment, opened>>
store == <<config, genesis, marker, locked, elevated, chainOk, witnessOk>>
local == <<run, at, prov, finding, receipt, lost, logged, done, deed, excused, verdict>>
vars  == <<store, pc, local>>

Steps == {"idle", "genesis", "verify", "judge", "mark", "screen", "step",
          "gates", "execute", "write", "close"}
NoRequest ==
  [cap |-> "memoryCheck", target |-> 0, legacy |-> FALSE,
   given |-> [i \in 1..2 |-> NoApproval], sound |-> TRUE, clean |-> TRUE]

Init ==
  /\ config = "good"
  /\ genesis = "none"
  /\ judgment = "absent" /\ opened = {} /\ locked = FALSE /\ elevated = FALSE
  /\ chainOk = TRUE /\ witnessOk = TRUE
  /\ pc = [p \in Process |-> "idle"]
  /\ run = [p \in Process |-> NoRequest]
  /\ at = [p \in Process |-> 1]
  /\ prov = [p \in Process |-> FALSE]
  /\ finding = [p \in Process |-> FALSE]
  /\ receipt = [p \in Process |-> FALSE]
  /\ lost = [p \in Process |-> FALSE]
  /\ logged = [p \in Process |-> {}]
  /\ done = [p \in Process |-> {}]
  /\ deed = [p \in Process |-> "none"]
  /\ excused = [p \in Process |-> FALSE]
  /\ verdict = [p \in Process |-> "none"]

At(p, from, to) == pc[p] = from /\ pc' = [pc EXCEPT ![p] = to]

\* Definitions named Bug_... are not part of the model, see KintsugiLedger.
-----------------------------------------------------------------------------
(* Intake and provenance.                                                   *)

Intake(p) ==
  /\ At(p, "idle", "genesis")
  /\ \E r \in Request : run' = [run EXCEPT ![p] = r]
  /\ \E ok \in {TRUE} \cup {"receipt" \notin Faults} : receipt' = [receipt EXCEPT ![p] = ok]
  /\ lost' = [lost EXCEPT ![p] = FALSE]
  /\ logged' = [logged EXCEPT ![p] = {}]
  /\ done' = [done EXCEPT ![p] = {}]
  /\ deed' = [deed EXCEPT ![p] = "none"]
  /\ verdict' = [verdict EXCEPT ![p] = "none"]
  /\ at' = [at EXCEPT ![p] = 1]
  /\ UNCHANGED <<store, prov, finding, excused>>

\* A genesis record is created once, by the first process allowed to write; it
\* is never sealed again, and one that cannot be read keeps its place.  Until it
\* is complete other processes find what they find without it: no seal that
\* verifies, so the file is written in one step.
EnsureGenesis(p) ==
  /\ At(p, "genesis", "verify")
  /\ IF genesis = "none" /\ p \in Writer
     THEN genesis' \in {config} \cup {g \in {"none", "torn"} : "seal" \in Faults}
     ELSE UNCHANGED genesis
  /\ UNCHANGED <<config, marker, locked, elevated, chainOk, witnessOk, local>>

VerifyProvenance(p) ==
  /\ At(p, "verify", "judge")
  /\ prov' = [prov EXCEPT ![p] = (genesis = config)]
  /\ UNCHANGED <<store, run, at, finding, receipt, lost, logged, done, deed, excused, verdict>>

\* Writing the marker truncates it first.
OpenMarker(p) ==
  /\ ~prov[p]
  /\ At(p, "judge", "mark")
  /\ judgment' = "empty"
  /\ opened' = opened \cup {p}
  /\ excused' = [q \in Process |-> q # p]
  /\ UNCHANGED <<config, genesis, locked, elevated, chainOk, witnessOk,
                 run, at, prov, finding, receipt, lost, logged, done, deed, verdict>>

\* A marker unlinked meanwhile is not seen again; and one that another run has
\* written to since it was truncated can keep the end of the longer text.
WriteMarker(p) ==
  /\ At(p, "mark", "screen")
  /\ judgment' \in IF p \notin opened THEN {judgment}
                   ELSE IF judgment = "empty" THEN {"active"} ELSE {"active", "torn"}
  /\ opened' = opened \ {p}
  /\ excused' = [q \in Process |->
       excused[q] \/ IF q = p THEN judgment' # "active" ELSE p \in opened]
  /\ UNCHANGED <<config, genesis, locked, elevated, chainOk, witnessOk,
                 run, at, prov, finding, receipt, lost, logged, done, deed, verdict>>

\* What stops a process before or in its write of the marker may leave half of it.
LeaveMarker(p) ==
  /\ judgment' \in {judgment} \cup {j \in {"torn"} : p \in opened}
  /\ opened' = opened \ {p}
  /\ excused' = [q \in Process |-> excused[q] \/ q = p \/ p \in opened]

\* activateJudgment and clearJudgment ignore every exception.
MarkerFails(p) ==
  /\ "judgment" \in Faults
  /\ pc[p] \in {"judge", "mark"}
  /\ At(p, pc[p], "screen")
  /\ LeaveMarker(p)
  /\ UNCHANGED <<config, genesis, locked, elevated, chainOk, witnessOk,
                 run, at, prov, finding, receipt, lost, logged, done, deed, verdict>>

ClearJudgment(p) ==
  /\ prov[p]
  /\ At(p, "judge", "screen")
  /\ judgment' = "absent"
  /\ opened' = {}
  /\ excused' = [q \in Process |-> TRUE]
  /\ UNCHANGED <<config, genesis, locked, elevated, chainOk, witnessOk,
                 run, at, prov, finding, receipt, lost, logged, done, deed, verdict>>

-----------------------------------------------------------------------------
(* Screening: what the request asks for and what it is approved for.        *)

Tool(p, i) == Plan(run[p].cap)[i]
StepIds(p) == 1..Len(Plan(run[p].cap))

\* The steps this invocation is about to run.
Targeted(p)  == IF run[p].target = 0 THEN StepIds(p) ELSE {run[p].target}
FirstStep(p) == IF run[p].target = 0 THEN 1 ELSE run[p].target

\* One approval for whatever the plan contains.
Bug_MagicApproval(p, i) == IF run[p].legacy THEN run[p].given[1] ELSE run[p].given[i]

\* A legacy approval is mapped to a step only when a single step is in question.
ApprovalFor(p, i) ==
  IF ~run[p].legacy THEN run[p].given[i]
  ELSE IF Cardinality(Targeted(p)) = 1 /\ i \in Targeted(p) THEN run[p].given[1]
  ELSE NoApproval

Mutating(p, i) == Tool(p, i) \notin ReadOnly
Armed(p) == "apply" \in ApprovalFor(p, FirstStep(p))

\* The decision is written to governance.json, if that can be written.
Decide(p, v) ==
  \E w \in IF receipt[p] THEN {v} \cup {x \in {"none"} : "entry" \in Faults} ELSE {"none"} :
    verdict' = [verdict EXCEPT ![p] = w]

Finish(p, from, v) ==
  /\ At(p, from, "idle")
  /\ Decide(p, v)
  /\ UNCHANGED <<store, run, at, prov, finding, receipt, lost, logged, done, deed, excused>>

RefuseRequest(p) == ~run[p].sound /\ Finish(p, "screen", "REFUSED")

PreviewOnly(p) ==
  /\ run[p].sound
  /\ ~Armed(p) /\ \E i \in Targeted(p) : Mutating(p, i)
  /\ Finish(p, "screen", "OK_PREVIEW_ONLY")

BeginSteps(p) ==
  /\ run[p].sound
  /\ Armed(p) \/ \A i \in Targeted(p) : ~Mutating(p, i)
  /\ At(p, "screen", "step")
  /\ at' = [at EXCEPT ![p] = FirstStep(p)]
  /\ UNCHANGED <<store, run, prov, finding, receipt, lost, logged, done, deed, excused, verdict>>

-----------------------------------------------------------------------------
(* One step: admission, the receipt entries, the router's gates.            *)

Approval(p) == ApprovalFor(p, at[p])

Admissible(p) ==
  /\ Approval(p) # NoApproval
  /\ Mutating(p, at[p]) => "ack" \in Approval(p)
  /\ Mutating(p, at[p]) /\ "apply" \in Approval(p) => run[p].clean

RefuseStep(p) == ~Admissible(p) /\ Finish(p, "step", "REFUSED")

\* Executing the step before its approval and its call are in the receipt.
Bug_StartUnlogged(p) ==
  /\ Admissible(p)
  /\ At(p, "step", "gates")
  /\ UNCHANGED <<store, local>>

\* The step goes on whether or not its entries could be appended.
StartStep(p) ==
  /\ Admissible(p)
  /\ At(p, "step", "gates")
  /\ \E written \in {receipt[p]} \cup {ok \in {FALSE} : "entry" \in Faults} :
       /\ logged' = [logged EXCEPT ![p] = IF written THEN @ \cup {at[p]} ELSE @]
       /\ lost' = [lost EXCEPT ![p] = @ \/ ~written]
  /\ UNCHANGED <<store, run, at, prov, finding, receipt, done, deed, excused, verdict>>

Recovery == {"memoryCheck", "governanceSelfTest", "governanceUnlock"}

\* executeStep and runInternal, without the judgment gate ...
Bug_NoJudgmentGate(p) ==
  LET cap == Tool(p, at[p]) IN
  /\ cap \in Allowed
  /\ cap \notin ReadOnly => {"apply", "confirm", "identity"} \subseteq Approval(p) /\ p \in Writer
  /\ locked => cap \in Recovery
  /\ cap \in Tier2 \ {"governanceUnlock"} => elevated

\* ... or without the exemption of governanceUnlock from the risk gate.
Bug_NoExemption(p) ==
  LET cap == Tool(p, at[p]) IN
  /\ cap \in Allowed
  /\ cap \notin ReadOnly => {"apply", "confirm", "identity"} \subseteq Approval(p) /\ p \in Writer
  /\ judgment = "active" => cap \in ReadOnly
  /\ locked => cap \in Recovery
  /\ cap \in Tier2 => elevated

RouterAdmits(p) ==
  LET cap == Tool(p, at[p]) IN
  /\ cap \in Allowed
  /\ cap \notin ReadOnly => {"apply", "confirm", "identity"} \subseteq Approval(p) /\ p \in Writer
  /\ judgment = "active" => cap \in ReadOnly
  /\ locked => cap \in Recovery
  /\ cap \in Tier2 \ {"governanceUnlock"} => elevated

PassGates(p) ==
  /\ RouterAdmits(p)
  /\ At(p, "gates", "execute")
  /\ UNCHANGED <<store, local>>

RefuseAtGates(p) == ~RouterAdmits(p) /\ Finish(p, "gates", "REFUSED")

-----------------------------------------------------------------------------
(* The capabilities.  One that returns, whatever it returns, is step.ok.    *)

Last(p) == run[p].target # 0 \/ at[p] = Len(Plan(run[p].cap))

Return(p, from) ==
  /\ At(p, from, IF Last(p) THEN "close" ELSE "step")
  /\ at' = [at EXCEPT ![p] = IF Last(p) THEN @ ELSE @ + 1]
  /\ done' = [done EXCEPT ![p] = @ \cup {at[p]}]
  /\ deed' = [deed EXCEPT ![p] = IF Mutating(p, at[p]) THEN "whole" ELSE @]
  /\ UNCHANGED <<run, prov, finding, receipt, lost, logged, excused, verdict>>

ReadOnlyOrDocument(p) ==
  /\ Tool(p, at[p]) \in ReadOnly \cup {"searchDocApply"}
  /\ Return(p, "execute")
  /\ UNCHANGED store

ProposeFixes(p) ==
  /\ Tool(p, at[p]) = "proposeFixes"
  /\ elevated' \in {elevated, TRUE}
  /\ Return(p, "execute")
  /\ UNCHANGED <<config, genesis, marker, locked, chainOk, witnessOk>>

\* The self-test and the unlock first look, then write the lock file; an unlock
\* that finds no lock, or a ledger it cannot vouch for, writes nothing.
Inspect(p) ==
  /\ Tool(p, at[p]) \in {"governanceSelfTest", "governanceUnlock"}
  /\ At(p, "execute", "write")
  /\ finding' = [finding EXCEPT ![p] =
       IF Tool(p, at[p]) = "governanceUnlock" THEN locked /\ chainOk ELSE witnessOk]
  /\ UNCHANGED <<store, run, at, prov, receipt, lost, logged, done, deed, excused, verdict>>

LockAfter(p) ==
  IF Tool(p, at[p]) = "governanceSelfTest" THEN ~finding[p] ELSE locked /\ ~finding[p]

SelfTest(p) ==
  /\ Tool(p, at[p]) = "governanceSelfTest"
  /\ locked' = LockAfter(p)
  /\ Return(p, "write")
  /\ UNCHANGED <<config, genesis, marker, elevated, chainOk, witnessOk>>

\* A refused unlock returns { ok: false }, which is not an exception.
Unlock(p) ==
  /\ Tool(p, at[p]) = "governanceUnlock"
  /\ locked' = LockAfter(p)
  /\ Return(p, "write")
  /\ UNCHANGED <<config, genesis, marker, elevated, chainOk, witnessOk>>

\* The policy of the snapshot, then the configuration files.  A failure to
\* restore these is caught and noted in the result.
Rollback(p) ==
  /\ Tool(p, at[p]) = "rollbackKnownGood"
  /\ elevated' \in BOOLEAN
  /\ config' \in {config, "good"} \cup {c \in {"mixed"} : "copy" \in Faults}
  /\ Return(p, "execute")
  /\ UNCHANGED <<genesis, marker, locked, chainOk, witnessOk>>

\* A policy is activated before the change is recorded: what ends the capability
\* in between leaves the change.
ChangedPolicy(p) ==
  IF Tool(p, at[p]) = "proposeFixes" THEN {elevated, TRUE}
  ELSE IF Tool(p, at[p]) = "rollbackKnownGood" THEN BOOLEAN ELSE {elevated}

\* A lock file left half written counts as locked.
ChangedLock(p) ==
  IF pc[p] = "write" /\ (Tool(p, at[p]) = "governanceSelfTest" \/ finding[p])
  THEN {locked, LockAfter(p), TRUE} ELSE {locked}

CapabilityThrows(p) ==
  /\ "throw" \in Faults
  /\ pc[p] \in {"execute", "write"}
  /\ At(p, pc[p], "idle")
  /\ elevated' \in ChangedPolicy(p)
  /\ locked' \in ChangedLock(p)
  /\ deed' = [deed EXCEPT ![p] = IF Mutating(p, at[p]) THEN "part" ELSE @]
  /\ Decide(p, "REFUSED")
  /\ UNCHANGED <<config, genesis, marker, chainOk, witnessOk,
                 run, at, prov, finding, receipt, lost, logged, done, excused>>

\* Deciding by the whole plan instead of by the steps this invocation ran.
Bug_PlanWideDecision(p) ==
  Finish(p, "close", IF \E i \in StepIds(p) : Mutating(p, i)
                     THEN "OK_APPLIED" ELSE "OK_PREVIEW_ONLY")

Close(p) ==
  Finish(p, "close", IF \E i \in Targeted(p) : Mutating(p, i)
                     THEN "OK_APPLIED" ELSE "OK_PREVIEW_ONLY")

-----------------------------------------------------------------------------
(* The environment.                                                         *)

\* What a capability had done when its process died stays done.
Crash(p) ==
  /\ "crash" \in Faults
  /\ pc[p] # "idle"
  /\ pc' = [pc EXCEPT ![p] = "idle"]
  /\ verdict' = [verdict EXCEPT ![p] = "none"]
  /\ elevated' \in IF pc[p] = "execute" THEN ChangedPolicy(p) ELSE {elevated}
  /\ config' \in {config} \cup
       {c \in {"mixed", "good"} : pc[p] = "execute" /\ Tool(p, at[p]) = "rollbackKnownGood"}
  /\ genesis' \in {genesis} \cup
       {g \in {"torn"} : pc[p] = "genesis" /\ genesis = "none" /\ p \in Writer}
  /\ locked' \in ChangedLock(p)
  /\ \E much \in IF pc[p] \in {"execute", "write"} /\ Mutating(p, at[p])
                 THEN {"none", "part", "whole"} ELSE {deed[p]} :
       deed' = [deed EXCEPT ![p] = much]
  /\ LeaveMarker(p)
  /\ UNCHANGED <<chainOk, witnessOk, run, at, prov, finding, receipt, lost, logged, done>>

OperatorEditsConfig ==
  /\ config' \in Config \ {config}
  /\ UNCHANGED <<genesis, marker, locked, elevated, chainOk, witnessOk, pc, local>>

\* Something damages, or an operator restores, what the integrity checks read.
EvidenceChanges ==
  /\ "evidence" \in Faults
  /\ \/ chainOk' = ~chainOk /\ UNCHANGED witnessOk
     \/ witnessOk' = ~witnessOk /\ UNCHANGED chainOk
  /\ UNCHANGED <<config, genesis, marker, locked, elevated, pc, local>>

-----------------------------------------------------------------------------

Lifecycle(p) ==
  \/ EnsureGenesis(p) \/ VerifyProvenance(p)
  \/ OpenMarker(p) \/ WriteMarker(p) \/ MarkerFails(p) \/ ClearJudgment(p)
  \/ RefuseRequest(p) \/ PreviewOnly(p) \/ BeginSteps(p)
  \/ RefuseStep(p) \/ StartStep(p) \/ PassGates(p) \/ RefuseAtGates(p)
  \/ ReadOnlyOrDocument(p) \/ ProposeFixes(p) \/ Inspect(p) \/ SelfTest(p) \/ Unlock(p)
  \/ Rollback(p) \/ CapabilityThrows(p) \/ Close(p)

Next ==
  \/ \E p \in Process : Intake(p) \/ Lifecycle(p) \/ Crash(p)
  \/ OperatorEditsConfig
  \/ EvidenceChanges

Spec == Init /\ [][Next]_vars

UnlockRequest(r) ==
  /\ r.cap = "governanceUnlock" /\ r.sound /\ r.clean /\ r.legacy
  /\ r.given[1] = Mark

(* A started run is synchronous code, so it keeps running; and an operator  *)
(* who finds the system locked keeps asking for the unlock.                 *)
Fairness ==
  \A p \in Process :
    /\ WF_vars(Lifecycle(p))
    /\ SF_vars(Intake(p) /\ UnlockRequest(run'[p]))

FairSpec == Spec /\ Fairness

-----------------------------------------------------------------------------
(* Properties.                                                              *)

\* Every variable has the shape its comment gives it; in particular a run that
\* works on a step works on one that its plan contains.
TypeOK ==
  /\ config \in Config /\ genesis \in Genesis
  /\ judgment \in Marker /\ opened \subseteq Process /\ locked \in BOOLEAN /\ elevated \in BOOLEAN
  /\ chainOk \in BOOLEAN /\ witnessOk \in BOOLEAN
  /\ pc \in [Process -> Steps]
  /\ run \in [Process -> Request \cup {NoRequest}]
  /\ at \in [Process -> 1..2]
  /\ \A p \in Process :
       pc[p] \in {"step", "gates", "execute", "write", "close"} => at[p] \in StepIds(p)
  /\ prov \in [Process -> BOOLEAN]
  /\ finding \in [Process -> BOOLEAN]
  /\ receipt \in [Process -> BOOLEAN]
  /\ lost \in [Process -> BOOLEAN]
  /\ logged \in [Process -> SUBSET (1..2)]
  /\ done \in [Process -> SUBSET (1..2)]
  /\ deed \in [Process -> {"none", "part", "whole"}]
  /\ excused \in [Process -> BOOLEAN]
  /\ verdict \in [Process -> {"none", "REFUSED", "OK_PREVIEW_ONLY", "OK_APPLIED"}]

\* "A single magical approval must not implicitly authorize multiple steps":
\* one plain approval never carries a run through more than one step.
OneApprovalOneStep ==
  \A p \in Process : run[p].legacy => Cardinality(done[p]) <= 1

\* The decision in the receipt is what happened: OK_APPLIED means that the
\* mutating step ran to its end, OK_PREVIEW_ONLY that none was started, REFUSED
\* that none was completed.
VerdictMatchesDeeds ==
  \A p \in Process :
    /\ verdict[p] = "OK_APPLIED" => deed[p] = "whole"
    /\ verdict[p] = "OK_PREVIEW_ONLY" => deed[p] = "none"
    /\ verdict[p] = "REFUSED" => deed[p] # "whole"

\* "Receipts are mandatory": whatever was executed of a mutating step, by a run
\* that returned, threw or died in it, has its approval and its call in the
\* receipt, written before.  The code does not insist: a receipt that cannot be
\* written stops nothing, and those runs are the exception.
MutationIsReceipted ==
  \A p \in Process :
    deed[p] # "none" =>
      \/ lost[p]
      \/ (\E i \in logged[p] : Mutating(p, i)) /\ done[p] \subseteq logged[p]

Privileged(p) == pc[p] = "execute" /\ Mutating(p, at[p])

\* "If provenance fails, enter Obsidian's Judgment and restrict privileged
\* execution": a run whose own check failed executes nothing privileged, as long
\* as its marker reached the disk and no other run has cleared or rewritten it
\* since, which nothing in the code prevents.
JudgmentHoldsUndisturbed ==
  \A p \in Process : Privileged(p) => prov[p] \/ excused[p]

\* A locked system can be recovered from inside: as long as provenance and the
\* telemetry ledger verify, an operator who keeps asking gets the lock opened,
\* whatever the risk tolerance was when it closed.
LockIsRecoverable ==
  <>[](chainOk /\ config = genesis) => (locked ~> ~locked)
=============================================================================
