-------------------------- MODULE GovernedRunProofs --------------------------
(***************************************************************************)
(* What GovernedRun guarantees for every set of processes, writers,        *)
(* allowlist and requests, proved.                                         *)
(***************************************************************************)
EXTENDS GovernedRun, FiniteSetTheorems, TLAPS

Early    == {"genesis", "verify", "judge", "mark", "screen"}
Admitted == {"gates", "execute", "write"}
Working  == {"step"} \cup Admitted

-----------------------------------------------------------------------------
(* Plans and requests.                                                      *)

\* A plan has one or two steps, and only its last can change anything.
LEMMA PlanFacts ==
  ASSUME NEW cap \in Capability
  PROVE  /\ Len(Plan(cap)) \in 1..2
         /\ \A i \in 1..Len(Plan(cap)) : Plan(cap)[i] \in Capability
         /\ \A i \in 1..Len(Plan(cap)) : Plan(cap)[i] \notin ReadOnly => i = Len(Plan(cap))
<1>1. CASE cap \in {"searchDocPreview", "searchDocApply"}
  <2>1. Plan(cap) = <<"searchDocPreview", "searchDocApply">>
    BY <1>1 DEF Plan
  <2>2. QED  BY <2>1 DEF Capability, ReadOnly, Tier2
<1>2. CASE cap \notin {"searchDocPreview", "searchDocApply"}
  <2>1. Plan(cap) = <<cap>>
    BY <1>2 DEF Plan
  <2>2. QED  BY <2>1
<1>3. QED  BY <1>1, <1>2

\* What is known of the request of a process.
LEMMA RequestFacts ==
  ASSUME TypeOK, NEW p \in Process
  PROVE  /\ run[p].cap \in Capability
         /\ run[p].target \in 0..2
         /\ run[p].target <= Len(Plan(run[p].cap))
         /\ run[p].legacy \in BOOLEAN
         /\ Len(Plan(run[p].cap)) \in 1..2
<1>1. run[p] \in Request \cup {NoRequest}
  BY DEF TypeOK
<1>2. CASE run[p] \in Request
  <2>1. run[p] \in RequestType /\ run[p].target <= Len(Plan(run[p].cap))
    BY <1>2, RunAssumption
  <2>2. run[p].cap \in Capability /\ run[p].target \in 0..2 /\ run[p].legacy \in BOOLEAN
    BY <2>1 DEF RequestType
  <2>3. Len(Plan(run[p].cap)) \in 1..2
    BY <2>2, PlanFacts
  <2>4. QED  BY <2>1, <2>2, <2>3
<1>3. CASE run[p] = NoRequest
  <2>1. run[p].cap = "memoryCheck" /\ run[p].target = 0 /\ run[p].legacy = FALSE
    BY <1>3 DEF NoRequest
  <2>2. "memoryCheck" \in Capability
    BY DEF Capability, ReadOnly
  <2>3. Len(Plan(run[p].cap)) \in 1..2
    BY <2>1, <2>2, PlanFacts
  <2>4. run[p].legacy \in BOOLEAN
    BY <2>1, Zenon
  <2>5. run[p].target \in 0..2 /\ run[p].target <= Len(Plan(run[p].cap))
    BY <2>1, <2>3
  <2>6. QED  BY <2>1, <2>2, <2>3, <2>4, <2>5
<1>4. QED  BY <1>1, <1>2, <1>3

\* A run starts at a step of its plan, and a step that is not the last one is
\* followed by another.
LEMMA StepFacts ==
  ASSUME TypeOK, NEW p \in Process
  PROVE  /\ FirstStep(p) \in StepIds(p)
         /\ StepIds(p) \subseteq 1..2
         /\ at[p] \in StepIds(p) /\ ~Last(p) => at[p] + 1 \in StepIds(p)
         /\ \A i \in StepIds(p) : Mutating(p, i) => i = Len(Plan(run[p].cap))
<1>1. /\ run[p].cap \in Capability
      /\ run[p].target \in 0..2
      /\ run[p].target <= Len(Plan(run[p].cap))
      /\ Len(Plan(run[p].cap)) \in 1..2
  BY RequestFacts
<1>2. FirstStep(p) \in StepIds(p) /\ StepIds(p) \subseteq 1..2
  <2> DEFINE n == Len(Plan(run[p].cap))
             t == run[p].target
  <2>1. n \in 1..2 /\ t \in 0..2 /\ t <= n
    BY <1>1
  <2> HIDE DEF n, t
  <2>2. (IF t = 0 THEN 1 ELSE t) \in 1..n /\ 1..n \subseteq 1..2
    BY <2>1
  <2>3. QED  BY <2>2 DEF FirstStep, StepIds, n, t
<1>3. at[p] \in StepIds(p) /\ ~Last(p) => at[p] + 1 \in StepIds(p)
  BY <1>1 DEF Last, StepIds
<1>4. \A i \in StepIds(p) : Mutating(p, i) => i = Len(Plan(run[p].cap))
  BY <1>1, PlanFacts DEF StepIds, Mutating, Tool
<1>5. QED  BY <1>2, <1>3, <1>4

-----------------------------------------------------------------------------
(* Type correctness.                                                        *)

LEMMA InitType == Init => TypeOK
<1> SUFFICES ASSUME Init PROVE TypeOK
  OBVIOUS
<1>1. config \in Config /\ genesis \in Genesis
  BY DEF Init, Config, Genesis
<1>2. pc \in [Process -> Steps] /\ run \in [Process -> Request \cup {NoRequest}]
  BY DEF Init, Steps
<1>3. \A p \in Process : pc[p] \notin {"step", "gates", "execute", "write", "close"}
  BY DEF Init
<1>4. prov \in [Process -> BOOLEAN] /\ finding \in [Process -> BOOLEAN]
  BY Zenon DEF Init
<1>5. /\ receipt \in [Process -> BOOLEAN] /\ lost \in [Process -> BOOLEAN]
      /\ excused \in [Process -> BOOLEAN]
  BY Zenon DEF Init
<1>6. /\ locked \in BOOLEAN /\ elevated \in BOOLEAN
      /\ chainOk \in BOOLEAN /\ witnessOk \in BOOLEAN
  BY Zenon DEF Init
<1>10. judgment \in Marker /\ opened \subseteq Process
  BY DEF Init, Marker
<1>7. /\ at \in [Process -> 1..2]
      /\ logged \in [Process -> SUBSET (1..2)] /\ done \in [Process -> SUBSET (1..2)]
  BY DEF Init
<1>8. /\ deed \in [Process -> {"none", "part", "whole"}]
      /\ verdict \in [Process -> {"none", "REFUSED", "OK_PREVIEW_ONLY", "OK_APPLIED"}]
  BY DEF Init
<1>9. QED  BY <1>1, <1>2, <1>3, <1>4, <1>5, <1>6, <1>7, <1>8, <1>10 DEF TypeOK

\* Moving one process, without a change of its request or position, keeps every
\* process that works on a step on a step of its plan.
LEMMA MoveFacts ==
  ASSUME TypeOK, NEW p \in Process, NEW from \in Steps, NEW to \in Steps,
         At(p, from, to), UNCHANGED <<run, at>>,
         to \in Working \cup {"close"} => at[p] \in StepIds(p)
  PROVE  /\ pc' \in [Process -> Steps]
         /\ run' \in [Process -> Request \cup {NoRequest}]
         /\ at' \in [Process -> 1..2]
         /\ \A q \in Process :
              pc'[q] \in {"step", "gates", "execute", "write", "close"} => at'[q] \in StepIds(q)'
<1>1. pc' \in [Process -> Steps]
  BY DEF At, TypeOK
<1>2. \A q \in Process : StepIds(q)' = StepIds(q)
  BY DEF StepIds
<1>3. ASSUME NEW q \in Process,
             pc'[q] \in {"step", "gates", "execute", "write", "close"}
      PROVE  at'[q] \in StepIds(q)'
  <2>1. CASE q = p
    BY <1>2, <1>3, <2>1 DEF At, TypeOK, Working, Admitted
  <2>2. CASE q # p
    BY <1>2, <1>3, <2>2 DEF At, TypeOK
  <2>3. QED  BY <2>1, <2>2
<1>4. QED  BY <1>1, <1>3 DEF TypeOK

\* The decision, or nothing, is what a receipt holds in the end.
LEMMA DecideFacts ==
  ASSUME TypeOK, NEW p \in Process, NEW v, Decide(p, v)
  PROVE  \E w \in {v, "none"} : verdict' = [verdict EXCEPT ![p] = w]
BY DEF Decide

\* What a stopped write leaves of the marker and of the runs' excuses.
LEMMA LeaveFacts ==
  ASSUME TypeOK, NEW p \in Process, LeaveMarker(p)
  PROVE  /\ judgment' \in Marker /\ opened' \subseteq Process
         /\ excused' \in [Process -> BOOLEAN]
<1>1. judgment' \in Marker /\ opened' \subseteq Process
  BY DEF LeaveMarker, TypeOK, Marker
<1>2. excused' \in [Process -> BOOLEAN]
  BY Zenon DEF LeaveMarker
<1>3. QED  BY <1>1, <1>2

LEMMA IntakeType ==
  ASSUME TypeOK, NEW p \in Process, Intake(p)
  PROVE  TypeOK'
<1>1. run' \in [Process -> Request \cup {NoRequest}]
  BY DEF Intake, TypeOK
<1>2. pc' \in [Process -> Steps] /\ at' \in [Process -> 1..2]
  BY DEF Intake, At, Steps, TypeOK
<1>3. \A q \in Process :
        pc'[q] \in {"step", "gates", "execute", "write", "close"} => at'[q] \in StepIds(q)'
  BY DEF Intake, At, TypeOK, StepIds
<1>4. receipt' \in [Process -> BOOLEAN]
  <2>1. PICK ok \in BOOLEAN : receipt' = [receipt EXCEPT ![p] = ok]
    BY Zenon DEF Intake
  <2>2. QED  BY <2>1 DEF TypeOK
<1>5. QED  BY <1>1, <1>2, <1>3, <1>4 DEF Intake, TypeOK, store, marker

\* A capability that returns moves on to the next step of the plan, or closes.
LEMMA ReturnType ==
  ASSUME TypeOK, NEW p \in Process, NEW from \in {"execute", "write"}, Return(p, from),
         config' \in Config, UNCHANGED <<genesis, judgment, opened>>, locked' \in BOOLEAN,
         elevated' \in BOOLEAN, chainOk' = chainOk, witnessOk' = witnessOk
  PROVE  TypeOK'
<1>1. pc' \in [Process -> Steps]
  BY DEF Return, At, TypeOK, Steps
<1>2. run' = run /\ \A q \in Process : StepIds(q)' = StepIds(q)
  BY DEF Return, StepIds
<1>3. at[p] \in StepIds(p)
  BY DEF Return, At, TypeOK
<1>4. at' = [at EXCEPT ![p] = IF Last(p) THEN at[p] ELSE at[p] + 1] /\ at'[p] \in StepIds(p)
  BY <1>3, StepFacts DEF Return, TypeOK
<1>5. at' \in [Process -> 1..2]
  BY <1>4, StepFacts DEF TypeOK
<1>6. ASSUME NEW q \in Process,
             pc'[q] \in {"step", "gates", "execute", "write", "close"}
      PROVE  at'[q] \in StepIds(q)'
  <2>1. CASE q = p
    BY <1>2, <1>4, <2>1
  <2>2. CASE q # p
    BY <1>2, <1>4, <1>6, <2>2 DEF Return, At, TypeOK
  <2>3. QED  BY <2>1, <2>2
<1>7. done' \in [Process -> SUBSET (1..2)]
  BY DEF Return, TypeOK
<1>8. deed' \in [Process -> {"none", "part", "whole"}]
  BY DEF Return, TypeOK
<1>9. QED  BY <1>1, <1>2, <1>5, <1>6, <1>7, <1>8 DEF Return, TypeOK

\* The entries of a step are written, or that they were not is remembered.
LEMMA StartFacts ==
  ASSUME TypeOK, NEW p \in Process, StartStep(p)
  PROVE  \E written \in BOOLEAN :
           /\ logged' = [logged EXCEPT ![p] = IF written THEN logged[p] \cup {at[p]} ELSE logged[p]]
           /\ lost' = [lost EXCEPT ![p] = lost[p] \/ ~written]
<1>1. receipt[p] \in BOOLEAN
  BY DEF TypeOK
<1>2. QED  BY <1>1, Zenon DEF StartStep

LEMMA AfterFacts ==
  ASSUME TypeOK, NEW p \in Process
  PROVE  LockAfter(p) \in BOOLEAN
BY Zenon DEF TypeOK, LockAfter

\* What can be left of the policy and of the lock by a capability cut short.
LEMMA ChangedFacts ==
  ASSUME TypeOK, NEW p \in Process
  PROVE  ChangedPolicy(p) \subseteq BOOLEAN /\ ChangedLock(p) \subseteq BOOLEAN
<1>1. ChangedPolicy(p) \subseteq BOOLEAN
  BY Zenon DEF TypeOK, ChangedPolicy
<1>2. {locked, LockAfter(p), TRUE} \subseteq BOOLEAN /\ {locked} \subseteq BOOLEAN
  BY AfterFacts, Zenon DEF TypeOK
<1>3. QED  BY <1>1, <1>2 DEF ChangedLock

LEMMA LifecycleType ==
  ASSUME TypeOK, NEW p \in Process, Lifecycle(p)
  PROVE  TypeOK'
<1> USE DEF Steps, store, marker
<1>1. CASE EnsureGenesis(p)
  <2>1. genesis' \in Genesis
    BY <1>1 DEF EnsureGenesis, TypeOK, Genesis
  <2>2. QED  BY <1>1, <2>1, MoveFacts DEF EnsureGenesis, TypeOK, local, Working, Admitted, At
<1>2. CASE VerifyProvenance(p)
  BY <1>2, MoveFacts DEF VerifyProvenance, TypeOK, local, Working, Admitted
<1>3. CASE OpenMarker(p)
  <2>1. judgment' \in Marker /\ opened' \subseteq Process
    BY <1>3 DEF OpenMarker, TypeOK, Marker
  <2>2. excused' \in [Process -> BOOLEAN]
    BY <1>3, Zenon DEF OpenMarker
  <2>3. QED  BY <1>3, <2>1, <2>2, MoveFacts DEF OpenMarker, TypeOK, local, Working, Admitted
<1>4. CASE WriteMarker(p)
  <2>1. judgment' \in Marker /\ opened' \subseteq Process
    BY <1>4 DEF WriteMarker, TypeOK, Marker
  <2>2. excused' \in [Process -> BOOLEAN]
    <3>1. PICK f : excused' = [q \in Process |-> excused[q] \/ f[q]]
      <4> DEFINE g == [q \in Process |-> IF q = p THEN judgment' # "active" ELSE p \in opened]
      <4>1. excused' = [q \in Process |-> excused[q] \/ g[q]]
        BY <1>4, Zenon DEF WriteMarker
      <4>2. QED  BY <4>1
    <3>2. QED  BY <3>1, Zenon
  <2>3. QED  BY <1>4, <2>1, <2>2, MoveFacts DEF WriteMarker, TypeOK, local, Working, Admitted
<1>5. CASE ClearJudgment(p)
  <2>1. judgment' \in Marker /\ opened' \subseteq Process
    BY <1>5 DEF ClearJudgment, Marker
  <2>2. excused' \in [Process -> BOOLEAN]
    BY <1>5, Zenon DEF ClearJudgment
  <2>3. QED  BY <1>5, <2>1, <2>2, MoveFacts DEF ClearJudgment, TypeOK, local, Working, Admitted
<1>22. CASE MarkerFails(p)
  <2>1. judgment' \in Marker /\ opened' \subseteq Process /\ excused' \in [Process -> BOOLEAN]
    BY <1>22, LeaveFacts DEF MarkerFails
  <2>2. QED  BY <1>22, <2>1, MoveFacts DEF MarkerFails, TypeOK, local, Working, Admitted
<1>f. ASSUME NEW from \in Steps, NEW v \in {"REFUSED", "OK_PREVIEW_ONLY", "OK_APPLIED"},
             Finish(p, from, v)
      PROVE  TypeOK'
  <2>1. \E w \in {v, "none"} : verdict' = [verdict EXCEPT ![p] = w]
    BY <1>f, DecideFacts DEF Finish
  <2>2. verdict' \in [Process -> {"none", "REFUSED", "OK_PREVIEW_ONLY", "OK_APPLIED"}]
    BY <2>1 DEF TypeOK
  <2>3. QED  BY <1>f, <2>2, MoveFacts DEF Finish, TypeOK, local, Working, Admitted
<1>6. CASE RefuseRequest(p)
  BY <1>6, <1>f DEF RefuseRequest
<1>7. CASE PreviewOnly(p)
  BY <1>7, <1>f DEF PreviewOnly
<1>10. CASE RefuseStep(p)
  BY <1>10, <1>f DEF RefuseStep
<1>8. CASE BeginSteps(p)
  <2>1. FirstStep(p) \in StepIds(p) /\ FirstStep(p) \in 1..2
    BY StepFacts
  <2>2. \A q \in Process : StepIds(q)' = StepIds(q)
    BY <1>8 DEF BeginSteps, StepIds
  <2>3. at' \in [Process -> 1..2] /\ pc' \in [Process -> Steps]
    BY <1>8, <2>1 DEF BeginSteps, At, TypeOK
  <2>4. \A q \in Process :
          pc'[q] \in {"step", "gates", "execute", "write", "close"} => at'[q] \in StepIds(q)'
    BY <1>8, <2>1, <2>2 DEF BeginSteps, At, TypeOK
  <2>5. QED  BY <1>8, <2>3, <2>4 DEF BeginSteps, TypeOK
<1>9. CASE ReadOnlyOrDocument(p)
  BY <1>9, ReturnType DEF ReadOnlyOrDocument, TypeOK
<1>11. CASE StartStep(p)
  <2>1. at[p] \in 1..2
    BY DEF TypeOK
  <2>2. logged' \in [Process -> SUBSET (1..2)] /\ lost' \in [Process -> BOOLEAN]
    <3>1. PICK written \in BOOLEAN :
            /\ logged' = [logged EXCEPT ![p] = IF written THEN logged[p] \cup {at[p]} ELSE logged[p]]
            /\ lost' = [lost EXCEPT ![p] = lost[p] \/ ~written]
      BY <1>11, StartFacts
    <3>2. logged' \in [Process -> SUBSET (1..2)]
      BY <2>1, <3>1 DEF TypeOK
    <3>3. lost' \in [Process -> BOOLEAN]
      BY <3>1, Zenon DEF TypeOK
    <3>4. QED  BY <3>2, <3>3
  <2>3. /\ pc' \in [Process -> Steps]
        /\ run' \in [Process -> Request \cup {NoRequest}]
        /\ at' \in [Process -> 1..2]
        /\ \A q \in Process :
             pc'[q] \in {"step", "gates", "execute", "write", "close"} => at'[q] \in StepIds(q)'
    BY <1>11, MoveFacts DEF StartStep, TypeOK, At
  <2>4. QED  BY <1>11, <2>2, <2>3 DEF StartStep, TypeOK
<1>12. CASE PassGates(p)
  BY <1>12, MoveFacts DEF PassGates, TypeOK, local, Working, Admitted, At
<1>13. CASE RefuseAtGates(p)
  BY <1>13, <1>f DEF RefuseAtGates
<1>14. CASE Inspect(p)
  BY <1>14, MoveFacts DEF Inspect, TypeOK, local, Working, Admitted, At
<1>15. CASE CapabilityThrows(p)
  <2>1. elevated' \in BOOLEAN /\ locked' \in BOOLEAN
    BY <1>15, ChangedFacts DEF CapabilityThrows
  <2>2. \E w \in {"REFUSED", "none"} : verdict' = [verdict EXCEPT ![p] = w]
    BY <1>15, DecideFacts DEF CapabilityThrows
  <2>3. verdict' \in [Process -> {"none", "REFUSED", "OK_PREVIEW_ONLY", "OK_APPLIED"}]
    BY <2>2 DEF TypeOK
  <2>4. deed' \in [Process -> {"none", "part", "whole"}]
    BY <1>15 DEF CapabilityThrows, TypeOK
  <2>5. QED
    BY <1>15, <2>1, <2>3, <2>4, MoveFacts DEF CapabilityThrows, TypeOK, local, Working, Admitted
<1>16. CASE Close(p)
  BY <1>16, <1>f DEF Close
<1>17. CASE ProposeFixes(p)
  <2>1. elevated' \in BOOLEAN
    BY <1>17, Zenon DEF ProposeFixes, TypeOK
  <2>2. QED  BY <1>17, <2>1, ReturnType DEF ProposeFixes, TypeOK
<1>18. CASE SelfTest(p)
  <2>1. locked' \in BOOLEAN
    BY <1>18, AfterFacts DEF SelfTest
  <2>2. QED  BY <1>18, <2>1, ReturnType DEF SelfTest, TypeOK
<1>19. CASE Unlock(p)
  <2>1. locked' \in BOOLEAN
    BY <1>19, AfterFacts DEF Unlock
  <2>2. QED  BY <1>19, <2>1, ReturnType DEF Unlock, TypeOK
<1>20. CASE Rollback(p)
  <2>1. config' \in Config
    BY <1>20 DEF Rollback, TypeOK, Config
  <2>2. QED  BY <1>20, <2>1, ReturnType DEF Rollback, TypeOK
<1>21. QED
  BY <1>1, <1>2, <1>3, <1>4, <1>5, <1>6, <1>7, <1>8, <1>9, <1>10, <1>11, <1>12, <1>13,
     <1>14, <1>15, <1>16, <1>17, <1>18, <1>19, <1>20, <1>22 DEF Lifecycle

LEMMA CrashType ==
  ASSUME TypeOK, NEW p \in Process, Crash(p)
  PROVE  TypeOK'
<1>1. /\ pc' \in [Process -> Steps]
      /\ \A q \in Process :
           pc'[q] \in {"step", "gates", "execute", "write", "close"} => at'[q] \in StepIds(q)'
  BY DEF Crash, TypeOK, Steps, StepIds
<1>2. config' \in Config
  BY DEF Crash, TypeOK, Config
<1>3. elevated' \in BOOLEAN /\ locked' \in BOOLEAN
  <2>1. elevated \in BOOLEAN
    BY DEF TypeOK
  <2>2. QED  BY <2>1, ChangedFacts DEF Crash
<1>6. genesis' \in Genesis
  BY DEF Crash, TypeOK, Genesis
<1>7. deed' \in [Process -> {"none", "part", "whole"}]
  BY DEF Crash, TypeOK
<1>8. judgment' \in Marker /\ opened' \subseteq Process /\ excused' \in [Process -> BOOLEAN]
  BY LeaveFacts DEF Crash
<1>4. verdict' \in [Process -> {"none", "REFUSED", "OK_PREVIEW_ONLY", "OK_APPLIED"}]
  BY DEF Crash, TypeOK
<1>5. QED  BY <1>1, <1>2, <1>3, <1>4, <1>6, <1>7, <1>8 DEF Crash, TypeOK

\* Every step keeps the types.
LEMMA NextType == TypeOK /\ [Next]_vars => TypeOK'
<1> SUFFICES ASSUME TypeOK, [Next]_vars PROVE TypeOK'
  OBVIOUS
<1>1. CASE \E p \in Process : Intake(p) \/ Lifecycle(p) \/ Crash(p)
  BY <1>1, IntakeType, LifecycleType, CrashType
<1>2. CASE OperatorEditsConfig
  BY <1>2 DEF OperatorEditsConfig, TypeOK, local, marker, StepIds
<1>3. CASE EvidenceChanges
  <2>1. chainOk' \in BOOLEAN /\ witnessOk' \in BOOLEAN
    BY <1>3, Zenon DEF EvidenceChanges, TypeOK
  <2>2. QED  BY <1>3, <2>1 DEF EvidenceChanges, TypeOK, local, marker, StepIds
<1>4. CASE UNCHANGED vars
  BY <1>4 DEF vars, store, marker, local, TypeOK, StepIds
<1>5. QED  BY <1>1, <1>2, <1>3, <1>4 DEF Next

\* Every variable of the governed run keeps its type, and a run that works on a
\* step works on one its plan contains, for every set of requests and faults.
THEOREM RunTypeCorrect == Spec => []TypeOK
  BY InitType, NextType, PTL DEF Spec

-----------------------------------------------------------------------------
(* What a run has approved, logged and executed.  Everything here is about  *)
(* one process: the others do not touch it.                                 *)

\* What a run past admission is approved for, and what is in its receipt.
Approved(p) ==
  /\ pc[p] \in Admitted => ApprovalFor(p, at[p]) # NoApproval
  /\ run[p].legacy => \A i \in done[p] : Targeted(p) = {i}

\* Nothing has been changed before the last step; a closing run has executed it.
Progress(p) ==
  /\ pc[p] # "idle" => verdict[p] = "none"
  /\ pc[p] \in Early \cup Working => deed[p] = "none"
  /\ pc[p] \in Working \cup {"close"} /\ run[p].target # 0 => at[p] = run[p].target
  /\ pc[p] = "close" => /\ Last(p)
                        /\ deed[p] = IF Mutating(p, at[p]) THEN "whole" ELSE "none"

VerdictRight(p) ==
  /\ verdict[p] = "OK_APPLIED" => deed[p] = "whole"
  /\ verdict[p] = "OK_PREVIEW_ONLY" => deed[p] = "none"
  /\ verdict[p] = "REFUSED" => deed[p] # "whole"

RunInv(p) == Approved(p) /\ Progress(p) /\ VerdictRight(p)

\* A step of one process leaves the run of every other process alone.
LEMMA OthersRun ==
  ASSUME NEW p \in Process, NEW q \in Process, p # q, TypeOK,
         Intake(q) \/ Lifecycle(q) \/ Crash(q)
  PROVE  /\ pc'[p] = pc[p] /\ run'[p] = run[p] /\ at'[p] = at[p]
         /\ logged'[p] = logged[p] /\ done'[p] = done[p] /\ deed'[p] = deed[p]
         /\ lost'[p] = lost[p] /\ verdict'[p] = verdict[p] /\ prov'[p] = prov[p]
<1> USE DEF TypeOK, At, local
<1>1. CASE Intake(q)
  BY <1>1 DEF Intake
<1>2. CASE Crash(q)
  BY <1>2 DEF Crash
<1>3. CASE EnsureGenesis(q)
  BY <1>3 DEF EnsureGenesis
<1>4. CASE VerifyProvenance(q)
  BY <1>4 DEF VerifyProvenance
<1>5. CASE OpenMarker(q) \/ WriteMarker(q) \/ MarkerFails(q) \/ ClearJudgment(q)
  BY <1>5 DEF OpenMarker, WriteMarker, MarkerFails, ClearJudgment
<1>6. CASE RefuseRequest(q) \/ PreviewOnly(q) \/ RefuseStep(q) \/ RefuseAtGates(q) \/ Close(q)
  BY <1>6 DEF RefuseRequest, PreviewOnly, RefuseStep, RefuseAtGates, Close, Finish, Decide
<1>7. CASE BeginSteps(q)
  BY <1>7 DEF BeginSteps
<1>8. CASE StartStep(q) \/ PassGates(q) \/ Inspect(q)
  BY <1>8 DEF StartStep, PassGates, Inspect
<1>9. CASE \/ ReadOnlyOrDocument(q) \/ ProposeFixes(q) \/ SelfTest(q) \/ Unlock(q) \/ Rollback(q)
  BY <1>9 DEF ReadOnlyOrDocument, ProposeFixes, SelfTest, Unlock, Rollback, Return
<1>10. CASE CapabilityThrows(q)
  BY <1>10 DEF CapabilityThrows, Decide
<1>11. QED
  BY <1>1, <1>2, <1>3, <1>4, <1>5, <1>6, <1>7, <1>8, <1>9, <1>10 DEF Lifecycle

\* The predicates above look only at the run of their process.
LEMMA SameRun ==
  ASSUME NEW p \in Process, RunInv(p),
         pc'[p] = pc[p], run'[p] = run[p], at'[p] = at[p],
         done'[p] = done[p], deed'[p] = deed[p], verdict'[p] = verdict[p]
  PROVE  RunInv(p)'
<1>1. \A i : ApprovalFor(p, i)' = ApprovalFor(p, i) /\ Mutating(p, i)' = Mutating(p, i)
  BY DEF ApprovalFor, Mutating, Tool, Targeted, StepIds
<1>2. Targeted(p)' = Targeted(p) /\ Last(p)' = Last(p)
  BY DEF Targeted, StepIds, Last
<1>3. Approved(p)'
  BY <1>1, <1>2 DEF RunInv, Approved
<1>4. Progress(p)'
  BY <1>1, <1>2 DEF RunInv, Progress
<1>5. VerdictRight(p)'
  BY DEF RunInv, VerdictRight
<1>6. QED  BY <1>3, <1>4, <1>5 DEF RunInv

\* What a request asks for and is approved for stays as long as the request does.
LEMMA SameRequest ==
  ASSUME NEW p \in Process, run'[p] = run[p]
  PROVE  /\ \A i : ApprovalFor(p, i)' = ApprovalFor(p, i) /\ Mutating(p, i)' = Mutating(p, i)
         /\ Targeted(p)' = Targeted(p) /\ StepIds(p)' = StepIds(p)
BY DEF ApprovalFor, Mutating, Tool, Targeted, StepIds

\* An approved step of a legacy request is the only one in question.
LEMMA LegacyTarget ==
  ASSUME NEW p \in Process, NEW i, run[p].legacy, ApprovalFor(p, i) # NoApproval,
         IsFiniteSet(Targeted(p))
  PROVE  Targeted(p) = {i}
<1>1. Cardinality(Targeted(p)) = 1 /\ i \in Targeted(p)
  BY DEF ApprovalFor
<1>2. PICK x : Targeted(p) = {x}
  BY <1>1, FS_Singleton
<1>3. QED  BY <1>1, <1>2

LEMMA TargetedFinite == ASSUME TypeOK, NEW p \in Process PROVE IsFiniteSet(Targeted(p))
<1>1. Len(Plan(run[p].cap)) \in 1..2
  BY RequestFacts
<1>2. IsFiniteSet(1..Len(Plan(run[p].cap)))
  BY <1>1, FS_Interval
<1>3. IsFiniteSet({run[p].target})
  BY FS_Singleton
<1>4. QED  BY <1>2, <1>3 DEF Targeted, StepIds

\* A run that closes on its last step executed a mutating step exactly when the
\* steps it was about to run include one.
LEMMA ClosingStep ==
  ASSUME TypeOK, NEW p \in Process, RunInv(p), pc[p] = "close"
  PROVE  (\E i \in Targeted(p) : Mutating(p, i)) <=> Mutating(p, at[p])
<1>1. at[p] \in StepIds(p) /\ Last(p) /\ (run[p].target # 0 => at[p] = run[p].target)
  BY DEF TypeOK, RunInv, Progress
<1>2. \A i \in StepIds(p) : Mutating(p, i) => i = Len(Plan(run[p].cap))
  BY StepFacts
<1>3. CASE run[p].target # 0
  BY <1>1, <1>3 DEF Targeted
<1>4. CASE run[p].target = 0
  <2>1. at[p] = Len(Plan(run[p].cap)) /\ Targeted(p) = StepIds(p)
    BY <1>1, <1>4 DEF Last, Targeted
  <2>2. QED  BY <1>1, <1>2, <2>1
<1>5. QED  BY <1>3, <1>4

\* The capability of a step that is not the last one has changed nothing.
LEMMA ReturnRun ==
  ASSUME TypeOK, NEW p \in Process, RunInv(p), NEW from \in {"execute", "write"},
         Return(p, from)
  PROVE  RunInv(p)'
<1>1. /\ pc[p] = from /\ pc'[p] = (IF Last(p) THEN "close" ELSE "step")
      /\ run'[p] = run[p] /\ verdict'[p] = verdict[p]
      /\ at'[p] = (IF Last(p) THEN at[p] ELSE at[p] + 1)
      /\ done'[p] = done[p] \cup {at[p]}
      /\ deed'[p] = (IF Mutating(p, at[p]) THEN "whole" ELSE deed[p])
  BY DEF Return, At, TypeOK
<1>2. /\ \A i : ApprovalFor(p, i)' = ApprovalFor(p, i) /\ Mutating(p, i)' = Mutating(p, i)
      /\ Targeted(p)' = Targeted(p)
  BY <1>1, SameRequest
<1>3. at[p] \in StepIds(p) /\ deed[p] = "none" /\ verdict[p] = "none"
  BY <1>1 DEF TypeOK, RunInv, Progress, Working, Admitted
<1>4. Last(p) => Last(p)'
  BY <1>1 DEF Last
<1>5. Mutating(p, at[p]) => Last(p)
  BY <1>3, StepFacts DEF Last
<1>6. Approved(p)'
  <2>1. run[p].legacy => Targeted(p) = {at[p]}
    BY <1>1, LegacyTarget, TargetedFinite DEF RunInv, Approved, Admitted
  <2>2. QED  BY <1>1, <1>2, <2>1 DEF RunInv, Approved, Admitted
<1>7. Progress(p)'
  <2>1. CASE Last(p)
    BY <1>1, <1>2, <1>3, <1>4, <2>1 DEF RunInv, Progress, Early, Working, Admitted
  <2>2. CASE ~Last(p)
    <3>1. run[p].target = 0
      BY <2>2 DEF Last
    <3>2. QED  BY <1>1, <1>2, <1>3, <1>5, <2>2, <3>1 DEF Progress, Early, Working, Admitted
  <2>3. QED  BY <2>1, <2>2
<1>8. VerdictRight(p)'
  BY <1>1, <1>3 DEF VerdictRight
<1>9. QED  BY <1>6, <1>7, <1>8 DEF RunInv

\* A run that is refused or ends before it changed anything.
LEMMA FinishRun ==
  ASSUME TypeOK, NEW p \in Process, RunInv(p), NEW from, NEW v, Finish(p, from, v),
         v = "OK_APPLIED" => deed[p] = "whole",
         v = "OK_PREVIEW_ONLY" => deed[p] = "none",
         v = "REFUSED" => deed[p] # "whole"
  PROVE  RunInv(p)'
<1>1. /\ pc'[p] = "idle" /\ run'[p] = run[p] /\ verdict'[p] \in {v, "none"}
      /\ done'[p] = done[p] /\ deed'[p] = deed[p]
  <2>1. verdict'[p] \in {v, "none"}
    BY DecideFacts DEF Finish, TypeOK
  <2>2. QED  BY <2>1 DEF Finish, At, TypeOK
<1>2. Targeted(p)' = Targeted(p)
  BY <1>1, SameRequest
<1>3. Approved(p)'
  BY <1>1, <1>2 DEF RunInv, Approved, Admitted
<1>4. Progress(p)' /\ VerdictRight(p)'
  BY <1>1 DEF Progress, VerdictRight, Early, Working, Admitted
<1>5. QED  BY <1>3, <1>4 DEF RunInv

\* A step that only moves the run on, from one place before the capability to
\* another, with an approval when it enters the gates.
LEMMA MoveRun ==
  ASSUME TypeOK, NEW p \in Process, RunInv(p),
         NEW from \in Early \cup Working, NEW to \in Early \cup Working,
         At(p, from, to), run'[p] = run[p], done'[p] = done[p],
         deed'[p] = deed[p], verdict'[p] = verdict[p],
         to \in Admitted => ApprovalFor(p, at'[p]) # NoApproval,
         to \in Working /\ run[p].target # 0 => at'[p] = run[p].target
  PROVE  RunInv(p)'
<1>1. pc[p] = from /\ pc'[p] = to
  BY DEF At, TypeOK
<1>2. /\ \A i : ApprovalFor(p, i)' = ApprovalFor(p, i)
      /\ Targeted(p)' = Targeted(p)
  BY SameRequest
<1>3. Approved(p)'
  BY <1>1, <1>2 DEF RunInv, Approved
<1>4. from # "idle" /\ to # "idle" /\ to # "close"
  BY DEF Early, Working, Admitted
<1>5. Progress(p)'
  BY <1>1, <1>4 DEF RunInv, Progress, Working
<1>6. VerdictRight(p)'
  BY DEF RunInv, VerdictRight
<1>7. QED  BY <1>3, <1>5, <1>6 DEF RunInv

LEMMA OwnRun ==
  ASSUME TypeOK, NEW p \in Process, RunInv(p), Intake(p) \/ Lifecycle(p) \/ Crash(p)
  PROVE  RunInv(p)'
<1>p. pc[p] \in Early \cup Working => deed[p] = "none"
  BY DEF RunInv, Progress
<1>1. CASE Intake(p)
  <2>1. pc'[p] = "genesis" /\ done'[p] = {} /\ deed'[p] = "none" /\ verdict'[p] = "none"
    BY <1>1 DEF Intake, At, TypeOK
  <2>2. QED
    BY <2>1 DEF RunInv, Approved, Progress, VerdictRight, Early, Working, Admitted
<1>2. CASE Crash(p)
  <2>1. /\ pc'[p] = "idle" /\ run'[p] = run[p] /\ done'[p] = done[p] /\ verdict'[p] = "none"
    BY <1>2 DEF Crash, TypeOK
  <2>2. Targeted(p)' = Targeted(p)
    BY <2>1, SameRequest
  <2>3. QED
    BY <2>1, <2>2 DEF RunInv, Approved, Progress, VerdictRight, Early, Working, Admitted
<1>3. CASE EnsureGenesis(p) \/ VerifyProvenance(p) \/ OpenMarker(p) \/ WriteMarker(p)
  BY <1>3, MoveRun DEF EnsureGenesis, VerifyProvenance, OpenMarker, WriteMarker,
       local, Early, Working, Admitted
<1>11. CASE MarkerFails(p) \/ ClearJudgment(p)
  BY <1>11, MoveRun DEF MarkerFails, ClearJudgment, local, Early, Working, Admitted
<1>4. CASE RefuseRequest(p) \/ PreviewOnly(p) \/ RefuseStep(p) \/ RefuseAtGates(p)
  <2>1. pc[p] \in Early \cup Working
    BY <1>4 DEF RefuseRequest, PreviewOnly, RefuseStep, RefuseAtGates, Finish, At,
         Early, Working, Admitted
  <2>2. QED
    BY <1>4, <1>p, <2>1, FinishRun DEF RefuseRequest, PreviewOnly, RefuseStep, RefuseAtGates
<1>5. CASE BeginSteps(p)
  BY <1>5, MoveRun DEF BeginSteps, FirstStep, TypeOK, Early, Working, Admitted
<1>6. CASE StartStep(p) \/ PassGates(p) \/ Inspect(p)
  <2>1. pc[p] \in Working /\ pc'[p] \in Admitted /\ UNCHANGED <<run, at, done, deed, verdict>>
    BY <1>6 DEF StartStep, PassGates, Inspect, At, local, TypeOK, Working, Admitted
  <2>2. ApprovalFor(p, at[p]) # NoApproval
    BY <1>6 DEF StartStep, Admissible, Approval, PassGates, Inspect, At, RunInv, Approved, Admitted
  <2>3. run[p].target # 0 => at[p] = run[p].target
    BY <2>1 DEF RunInv, Progress
  <2>4. At(p, pc[p], pc'[p])
    BY <1>6 DEF StartStep, PassGates, Inspect, At, TypeOK
  <2>5. QED  BY <2>1, <2>2, <2>3, <2>4, MoveRun DEF Working
<1>7. CASE ReadOnlyOrDocument(p) \/ ProposeFixes(p) \/ SelfTest(p) \/ Unlock(p) \/ Rollback(p)
  BY <1>7, ReturnRun DEF ReadOnlyOrDocument, ProposeFixes, SelfTest, Unlock, Rollback
<1>8. CASE CapabilityThrows(p)
  <2>1. /\ pc[p] \in {"execute", "write"} /\ pc'[p] = "idle" /\ run'[p] = run[p]
        /\ done'[p] = done[p]
        /\ deed'[p] = (IF Mutating(p, at[p]) THEN "part" ELSE deed[p])
        /\ verdict'[p] \in {"REFUSED", "none"}
    <3>1. verdict'[p] \in {"REFUSED", "none"}
      BY <1>8, DecideFacts DEF CapabilityThrows, TypeOK
    <3>2. QED  BY <1>8, <3>1 DEF CapabilityThrows, At, TypeOK
  <2>2. Targeted(p)' = Targeted(p)
    BY <2>1, SameRequest
  <2>3. QED
    BY <1>p, <2>1, <2>2 DEF RunInv, Approved, Progress, VerdictRight, Early, Working, Admitted
<1>9. CASE Close(p)
  <2>1. pc[p] = "close"
    BY <1>9 DEF Close, Finish, At
  <2>2. deed[p] = IF Mutating(p, at[p]) THEN "whole" ELSE "none"
    BY <2>1 DEF RunInv, Progress
  <2>3. (\E i \in Targeted(p) : Mutating(p, i)) <=> Mutating(p, at[p])
    BY <2>1, ClosingStep
  <2>4. QED  BY <1>9, <2>2, <2>3, FinishRun DEF Close
<1>10. QED
  BY <1>1, <1>2, <1>3, <1>4, <1>5, <1>6, <1>7, <1>8, <1>9, <1>11 DEF Lifecycle

LEMMA InitRun == Init => \A p \in Process : RunInv(p)
BY DEF Init, NoRequest, RunInv, Approved, Progress, VerdictRight, Early, Working, Admitted

LEMMA NextRun ==
  TypeOK /\ (\A p \in Process : RunInv(p)) /\ [Next]_vars => (\A p \in Process : RunInv(p))'
<1> SUFFICES ASSUME TypeOK, \A q \in Process : RunInv(q), [Next]_vars, NEW p \in Process
             PROVE  RunInv(p)'
  OBVIOUS
<1>1. CASE \E q \in Process : Intake(q) \/ Lifecycle(q) \/ Crash(q)
  <2>1. PICK q \in Process : Intake(q) \/ Lifecycle(q) \/ Crash(q)
    BY <1>1
  <2>2. CASE q = p
    BY <2>1, <2>2, OwnRun
  <2>3. CASE q # p
    BY <2>1, <2>3, OthersRun, SameRun
  <2>4. QED  BY <2>2, <2>3
<1>2. CASE OperatorEditsConfig \/ EvidenceChanges \/ UNCHANGED vars
  BY <1>2, SameRun DEF OperatorEditsConfig, EvidenceChanges, vars, local
<1>3. QED  BY <1>1, <1>2 DEF Next

LEMMA RunInvariant == Spec => [](\A p \in Process : RunInv(p))
<1>1. Init /\ [][Next]_vars => [](TypeOK /\ \A p \in Process : RunInv(p))
  BY InitType, InitRun, NextType, NextRun, PTL
<1>2. QED  BY <1>1, PTL DEF Spec

\* A single approval never carries a run through more than one step.
THEOREM ApprovalsAreStepScoped == Spec => []OneApprovalOneStep
<1>1. (\A p \in Process : RunInv(p)) => OneApprovalOneStep
  <2> SUFFICES ASSUME NEW p \in Process, RunInv(p), run[p].legacy
               PROVE  Cardinality(done[p]) <= 1
    BY DEF OneApprovalOneStep
  <2>1. \A i \in done[p] : Targeted(p) = {i}
    BY DEF RunInv, Approved
  <2>2. CASE done[p] = {}
    BY <2>2, FS_EmptySet
  <2>3. CASE done[p] # {}
    <3>1. PICK i : done[p] = {i}
      BY <2>1, <2>3
    <3>2. Cardinality({i}) = 1
      BY FS_Singleton
    <3>3. QED  BY <3>1, <3>2
  <2>4. QED  BY <2>2, <2>3
<1>2. QED  BY <1>1, RunInvariant, PTL

\* The decision in a receipt tells what became of the mutating step, whatever
\* the plan, the target, the approvals, refusals, exceptions and deaths.
THEOREM VerdictsAreTrue == Spec => []VerdictMatchesDeeds
<1>1. (\A p \in Process : RunInv(p)) => VerdictMatchesDeeds
  BY DEF RunInv, VerdictRight, VerdictMatchesDeeds
<1>2. QED  BY <1>1, RunInvariant, PTL

-----------------------------------------------------------------------------
(* Receipts.                                                                *)

\* Unless an entry could not be written, what is about to be executed, or was, is
\* in the receipt.
Receipted(p) ==
  \/ lost[p]
  \/ /\ pc[p] \in Admitted => at[p] \in logged[p]
     /\ done[p] \subseteq logged[p]
     /\ deed[p] # "none" => \E i \in logged[p] : Mutating(p, i)

LEMMA SameReceipt ==
  ASSUME NEW p \in Process, Receipted(p), run'[p] = run[p],
         pc'[p] \in Admitted => pc[p] \in Admitted /\ at'[p] = at[p],
         lost'[p] = lost[p], logged'[p] = logged[p], done'[p] = done[p],
         deed'[p] = deed[p]
  PROVE  Receipted(p)'
<1>1. \A i : Mutating(p, i)' = Mutating(p, i)
  BY SameRequest
<1>2. QED  BY <1>1 DEF Receipted

\* A capability that was executed, in part or as a whole, was logged before.
LEMMA DeedReceipt ==
  ASSUME NEW p \in Process, Receipted(p), run'[p] = run[p],
         pc[p] \in {"execute", "write"}, pc'[p] \notin Admitted,
         lost'[p] = lost[p], logged'[p] = logged[p],
         done'[p] \subseteq done[p] \cup {at[p]},
         deed'[p] = deed[p] \/ Mutating(p, at[p])
  PROVE  Receipted(p)'
<1>1. \A i : Mutating(p, i)' = Mutating(p, i)
  BY SameRequest
<1>2. lost[p] \/ at[p] \in logged[p]
  BY DEF Receipted, Admitted
<1>3. QED  BY <1>1, <1>2 DEF Receipted

LEMMA OwnReceipt ==
  ASSUME TypeOK, NEW p \in Process, Receipted(p), Intake(p) \/ Lifecycle(p) \/ Crash(p)
  PROVE  Receipted(p)'
<1> USE DEF At, TypeOK, local
<1>1. CASE Intake(p)
  <2>1. pc'[p] = "genesis" /\ done'[p] = {} /\ deed'[p] = "none" /\ logged'[p] = {}
    BY <1>1 DEF Intake
  <2>2. QED  BY <2>1 DEF Receipted, Admitted
<1>2. CASE Crash(p)
  <2>1. /\ pc'[p] = "idle" /\ run'[p] = run[p] /\ lost'[p] = lost[p]
        /\ logged'[p] = logged[p] /\ done'[p] = done[p]
    BY <1>2 DEF Crash
  <2>2. CASE deed'[p] = deed[p]
    BY <2>1, <2>2, SameReceipt DEF Admitted
  <2>3. CASE deed'[p] # deed[p]
    <3>1. pc[p] \in {"execute", "write"} /\ Mutating(p, at[p])
      BY <1>2, <2>3 DEF Crash
    <3>2. QED  BY <2>1, <3>1, DeedReceipt DEF Admitted
  <2>4. QED  BY <2>2, <2>3
<1>3. CASE EnsureGenesis(p) \/ VerifyProvenance(p) \/ OpenMarker(p) \/ WriteMarker(p)
  BY <1>3, SameReceipt DEF EnsureGenesis, VerifyProvenance, OpenMarker, WriteMarker, Admitted
<1>11. CASE MarkerFails(p) \/ ClearJudgment(p)
  BY <1>11, SameReceipt DEF MarkerFails, ClearJudgment, Admitted
<1>4. CASE RefuseRequest(p) \/ PreviewOnly(p) \/ RefuseStep(p) \/ RefuseAtGates(p) \/ Close(p)
  BY <1>4, SameReceipt DEF RefuseRequest, PreviewOnly, RefuseStep, RefuseAtGates, Close,
       Finish, Admitted
<1>5. CASE BeginSteps(p)
  BY <1>5, SameReceipt DEF BeginSteps, Admitted
<1>6. CASE PassGates(p) \/ Inspect(p)
  BY <1>6, SameReceipt DEF PassGates, Inspect, Admitted
<1>7. CASE StartStep(p)
  <2>1. lost'[p] \/ (lost'[p] = lost[p] /\ logged'[p] = logged[p] \cup {at[p]})
    <3>1. PICK written \in BOOLEAN :
            /\ logged' = [logged EXCEPT ![p] = IF written THEN logged[p] \cup {at[p]} ELSE logged[p]]
            /\ lost' = [lost EXCEPT ![p] = lost[p] \/ ~written]
      BY <1>7, StartFacts
    <3>2. CASE written
      <4>1. lost' = [lost EXCEPT ![p] = lost[p]] /\ lost[p] \in BOOLEAN
        BY <3>1, <3>2, Zenon
      <4>2. QED  BY <3>1, <3>2, <4>1
    <3>3. CASE ~written
      <4>1. lost'[p] = TRUE
        BY <3>1, <3>3, Zenon
      <4>2. QED  BY <4>1
    <3>4. QED  BY <3>2, <3>3
  <2>2. /\ at'[p] = at[p] /\ done'[p] = done[p] /\ deed'[p] = deed[p] /\ run'[p] = run[p]
    BY <1>7 DEF StartStep
  <2>3. \A i : Mutating(p, i)' = Mutating(p, i)
    BY <2>2, SameRequest
  <2>4. QED  BY <2>1, <2>2, <2>3 DEF Receipted
<1>8. CASE ReadOnlyOrDocument(p) \/ ProposeFixes(p) \/ SelfTest(p) \/ Unlock(p) \/ Rollback(p)
  <2>1. PICK from \in {"execute", "write"} : Return(p, from)
    BY <1>8 DEF ReadOnlyOrDocument, ProposeFixes, SelfTest, Unlock, Rollback
  <2>2. /\ pc[p] \in {"execute", "write"} /\ pc'[p] \notin Admitted /\ run'[p] = run[p]
        /\ lost'[p] = lost[p] /\ logged'[p] = logged[p]
        /\ done'[p] = done[p] \cup {at[p]}
        /\ deed'[p] = deed[p] \/ Mutating(p, at[p])
    BY <2>1 DEF Return, Admitted
  <2>3. QED  BY <2>2, DeedReceipt
<1>9. CASE CapabilityThrows(p)
  <2>1. /\ pc[p] \in {"execute", "write"} /\ pc'[p] \notin Admitted /\ run'[p] = run[p]
        /\ lost'[p] = lost[p] /\ logged'[p] = logged[p] /\ done'[p] = done[p]
        /\ deed'[p] = deed[p] \/ Mutating(p, at[p])
    BY <1>9 DEF CapabilityThrows, Admitted
  <2>2. QED  BY <2>1, DeedReceipt
<1>10. QED
  BY <1>1, <1>2, <1>3, <1>4, <1>5, <1>6, <1>7, <1>8, <1>9, <1>11 DEF Lifecycle

LEMMA NextReceipt ==
  TypeOK /\ (\A p \in Process : Receipted(p)) /\ [Next]_vars => (\A p \in Process : Receipted(p))'
<1> SUFFICES ASSUME TypeOK, [Next]_vars, NEW p \in Process, \A q \in Process : Receipted(q)
             PROVE  Receipted(p)'
  OBVIOUS
<1>1. CASE \E q \in Process : Intake(q) \/ Lifecycle(q) \/ Crash(q)
  <2>1. PICK q \in Process : Intake(q) \/ Lifecycle(q) \/ Crash(q)
    BY <1>1
  <2>2. CASE q = p
    BY <2>1, <2>2, OwnReceipt
  <2>3. CASE q # p
    BY <2>1, <2>3, OthersRun, SameReceipt
  <2>4. QED  BY <2>2, <2>3
<1>2. CASE OperatorEditsConfig \/ EvidenceChanges \/ UNCHANGED vars
  BY <1>2, SameReceipt DEF OperatorEditsConfig, EvidenceChanges, vars, local
<1>3. QED  BY <1>1, <1>2 DEF Next

\* Whatever was executed of a mutating step, by a run that returned, threw or
\* died in it, is in a receipt written before, unless an entry of that receipt
\* could not be written: refusals, exceptions and deaths do not lose it.
THEOREM MutationsLeaveReceipts == Spec => []MutationIsReceipted
<1>1. Init => \A p \in Process : Receipted(p)
  BY DEF Init, Receipted, Admitted
<1>2. (\A p \in Process : Receipted(p)) => MutationIsReceipted
  BY DEF Receipted, MutationIsReceipted
<1>3. QED  BY <1>1, <1>2, InitType, NextType, NextReceipt, PTL DEF Spec

-----------------------------------------------------------------------------
(* The judgment marker.                                                     *)

Judged == {"screen"} \cup Working \cup {"close"}

\* Once a failed check has been acted on, the marker is complete or was touched
\* since; a run past the gates with a mutating step found no complete marker.
Restrained(p) ==
  /\ pc[p] \in Judged => prov[p] \/ excused[p] \/ judgment = "active"
  /\ Privileged(p) => prov[p] \/ excused[p]

\* A complete marker goes only by an act that excuses the other runs, and no act
\* of another run takes an excuse back.
LEMMA MarkerFacts ==
  ASSUME TypeOK, NEW p \in Process, NEW q \in Process, p # q,
         Intake(q) \/ Lifecycle(q) \/ Crash(q)
  PROVE  /\ judgment = "active" => judgment' = "active" \/ excused'[p]
         /\ excused[p] => excused'[p]
<1> USE DEF TypeOK, At, local, store, marker
<1>1. CASE ClearJudgment(q) \/ OpenMarker(q)
  <2>1. excused'[p] = TRUE
    BY <1>1 DEF ClearJudgment, OpenMarker
  <2>2. QED  BY <2>1
<1>2. CASE WriteMarker(q)
  <2>1. excused'[p] <=> excused[p] \/ q \in opened
    BY <1>2 DEF WriteMarker
  <2>2. q \notin opened => judgment' = judgment
    BY <1>2 DEF WriteMarker
  <2>3. QED  BY <2>1, <2>2
<1>3. CASE MarkerFails(q) \/ Crash(q)
  <2>1. LeaveMarker(q)
    BY <1>3 DEF MarkerFails, Crash
  <2>2. excused'[p] <=> excused[p] \/ q \in opened
    BY <2>1 DEF LeaveMarker
  <2>3. q \notin opened => judgment' = judgment
    BY <2>1 DEF LeaveMarker
  <2>4. QED  BY <2>2, <2>3
<1>4. CASE \/ Intake(q) \/ EnsureGenesis(q) \/ VerifyProvenance(q)
  BY <1>4 DEF Intake, EnsureGenesis, VerifyProvenance
<1>5. CASE \/ RefuseRequest(q) \/ PreviewOnly(q) \/ RefuseStep(q) \/ RefuseAtGates(q) \/ Close(q)
  BY <1>5 DEF RefuseRequest, PreviewOnly, RefuseStep, RefuseAtGates, Close, Finish
<1>6. CASE BeginSteps(q) \/ StartStep(q) \/ PassGates(q) \/ Inspect(q) \/ CapabilityThrows(q)
  BY <1>6 DEF BeginSteps, StartStep, PassGates, Inspect, CapabilityThrows
<1>7. CASE ReadOnlyOrDocument(q) \/ ProposeFixes(q) \/ SelfTest(q) \/ Unlock(q) \/ Rollback(q)
  BY <1>7 DEF ReadOnlyOrDocument, ProposeFixes, SelfTest, Unlock, Rollback, Return
<1>8. QED
  BY <1>1, <1>2, <1>3, <1>4, <1>5, <1>6, <1>7 DEF Lifecycle

\* The steps of a run between its judgment and its capability keep both parts.
LEMMA OwnJudgment ==
  ASSUME TypeOK, NEW p \in Process, Restrained(p), Intake(p) \/ Lifecycle(p) \/ Crash(p)
  PROVE  Restrained(p)'
<1> USE DEF TypeOK, At, local, store, marker, Judged, Working, Admitted, Privileged
<1>1. CASE Intake(p) \/ Crash(p) \/ EnsureGenesis(p) \/ VerifyProvenance(p) \/ OpenMarker(p)
  BY <1>1 DEF Intake, Crash, EnsureGenesis, VerifyProvenance, OpenMarker, Restrained
<1>2. CASE WriteMarker(p)
  <2>1. pc'[p] = "screen" /\ (excused'[p] \/ judgment' = "active")
    BY <1>2 DEF WriteMarker
  <2>2. QED  BY <2>1 DEF Restrained
<1>3. CASE MarkerFails(p) \/ ClearJudgment(p)
  <2>1. excused'[p] = TRUE
    BY <1>3 DEF MarkerFails, LeaveMarker, ClearJudgment
  <2>2. QED  BY <2>1 DEF Restrained
<1>4. CASE \/ RefuseRequest(p) \/ PreviewOnly(p) \/ RefuseStep(p) \/ RefuseAtGates(p) \/ Close(p)
           \/ CapabilityThrows(p)
  BY <1>4 DEF RefuseRequest, PreviewOnly, RefuseStep, RefuseAtGates, Close, CapabilityThrows,
       Finish, Restrained
<1>5. CASE BeginSteps(p) \/ StartStep(p) \/ Inspect(p)
  BY <1>5 DEF BeginSteps, StartStep, Inspect, Restrained
<1>6. CASE PassGates(p)
  <2>1. judgment = "active" => ~Mutating(p, at[p])
    BY <1>6 DEF PassGates, RouterAdmits, Mutating
  <2>2. /\ UNCHANGED <<judgment, prov, excused, run, at>>
        /\ pc[p] = "gates" /\ pc'[p] = "execute"
    BY <1>6 DEF PassGates
  <2>3. Mutating(p, at[p])' = Mutating(p, at[p])
    BY <2>2 DEF Mutating, Tool
  <2>4. QED  BY <2>1, <2>2, <2>3 DEF Restrained
<1>7. CASE ReadOnlyOrDocument(p) \/ ProposeFixes(p) \/ SelfTest(p) \/ Unlock(p) \/ Rollback(p)
  BY <1>7 DEF ReadOnlyOrDocument, ProposeFixes, SelfTest, Unlock, Rollback, Return, Restrained
<1>8. QED
  BY <1>1, <1>2, <1>3, <1>4, <1>5, <1>6, <1>7 DEF Lifecycle

LEMMA OtherJudgment ==
  ASSUME TypeOK, NEW p \in Process, NEW q \in Process, p # q, Restrained(p),
         Intake(q) \/ Lifecycle(q) \/ Crash(q)
  PROVE  Restrained(p)'
<1>1. /\ pc'[p] = pc[p] /\ prov'[p] = prov[p]
      /\ Mutating(p, at[p])' = Mutating(p, at[p])
  BY OthersRun DEF Mutating, Tool
<1>2. /\ judgment = "active" => judgment' = "active" \/ excused'[p]
      /\ excused[p] => excused'[p]
  BY MarkerFacts
<1>3. QED  BY <1>1, <1>2 DEF Restrained, Privileged

LEMMA NextJudgment ==
  TypeOK /\ (\A p \in Process : Restrained(p)) /\ [Next]_vars
    => (\A p \in Process : Restrained(p))'
<1> SUFFICES ASSUME TypeOK, \A q \in Process : Restrained(q), [Next]_vars, NEW p \in Process
             PROVE  Restrained(p)'
  OBVIOUS
<1>1. CASE \E q \in Process : Intake(q) \/ Lifecycle(q) \/ Crash(q)
  BY <1>1, OwnJudgment, OtherJudgment
<1>2. CASE OperatorEditsConfig \/ EvidenceChanges \/ UNCHANGED vars
  BY <1>2 DEF OperatorEditsConfig, EvidenceChanges, vars, store, marker, local, Restrained,
       Privileged, Mutating, Tool
<1>3. QED  BY <1>1, <1>2 DEF Next

\* A run whose provenance check failed executes nothing privileged, with any
\* number of processes, edits, restores and deaths, unless another run cleared or
\* rewrote the marker since, or its own write of it failed.
THEOREM JudgmentRestrains == Spec => []JudgmentHoldsUndisturbed
<1>1. Init => \A p \in Process : Restrained(p)
  BY DEF Init, Restrained, Privileged, Judged, Working, Admitted
<1>2. (\A p \in Process : Restrained(p)) => JudgmentHoldsUndisturbed
  BY DEF Restrained, JudgmentHoldsUndisturbed
<1>3. QED  BY <1>1, <1>2, InitType, NextType, NextJudgment, PTL DEF Spec
=============================================================================
