------------------------------ MODULE Sentinel ------------------------------
(***************************************************************************)
(* The sentinel scan (core/feneris.ts), which raises infractions about the *)
(* governance files, and the human's review of them                        *)
(* (capabilities/mondayInfractionReview.ts, core/monday.ts), on top of the *)
(* runs of Onboarding.  Infractions and dispositions are two append-only   *)
(* files; an infraction is open until a disposition names its id.          *)
(* What the scan asks about the governance lock, the receipts and the      *)
(* Kintsugi policy changes freely here: it is the state of other modules.  *)
(***************************************************************************)
EXTENDS Onboarding, FiniteSets, SequencesExt

CONSTANTS
  Checks,     \* the rules of CheckOrder that an instance has
  MaxRaised,  \* bound: lines of infractions.ndjson
  MaxTime     \* bound of the clock, in milliseconds

\* The order in which runSentinelScan checks its rules.
CheckOrder == <<"allowlist", "judgment", "lock", "receipts", "policy", "genesis">>
OtherRules == {"lock", "receipts", "policy"}

ASSUME SentinelAssumption ==
  /\ Checks \in Seq(Range(CheckOrder)) \ {<<>>}
  /\ \E S \in SUBSET Range(CheckOrder) : Checks = SelectSeq(CheckOrder, LAMBDA rule : rule \in S)
  /\ MaxRaised \in Nat
  /\ MaxTime \in Nat

VARIABLES
  other,       \* the rules of OtherRules that hold
  work,        \* what each process does in a capability of this module
  raised,      \* infractions.ndjson: the ids of its lines
  decided,     \* dispositions.ndjson: the ids its lines name
  unreadable,  \* the files that hold a line that does not parse
  clock,
  again        \* history: ids decided twice, see Record

sentinelVars == <<other, work, raised, decided, unreadable, clock, again>>

Rules == Range(Checks)

\* makeId: the same rule in the same millisecond gives the same id.
Ids == Rules \X (0..MaxTime)

\* checkAllowlistIntegrity, checkJudgmentActive, checkGenesisRecord (a genesis.json
\* that does not parse is there).
AllowlistEmpty == allowlist = {}
JudgmentActive == judgment
GenesisMissing == genesis = None

\* checkGovernanceLock, checkReceiptChain, checkKintsugiPolicy.
LockActive        == "lock" \in other
ReceiptsBroken    == "receipts" \in other
PolicyUnreadable  == "policy" \in other

Holds(rule) ==
  CASE rule = "allowlist" -> AllowlistEmpty
    [] rule = "judgment"  -> JudgmentActive
    [] rule = "lock"      -> LockActive
    [] rule = "receipts"  -> ReceiptsBroken
    [] rule = "policy"    -> PolicyUnreadable
    [] rule = "genesis"   -> GenesisMissing

Holding == {rule \in Rules : Holds(rule)}

Resting == [stage |-> "resting"]
Scanning(r) == work[r].stage \in {"checks", "raising", "reported"}
Reviewing(r) == work[r].stage \in {"opened", "reconciled", "deciding", "answered"}

SentinelInit ==
  /\ OnboardingInit
  /\ other = {}
  /\ work = [r \in Run |-> Resting]
  /\ raised = <<>>
  /\ decided = {}
  /\ unreadable = {}
  /\ clock = 0
  /\ again = {}

\* The process leaves the router for a capability of this module, and returns from it.
Enter(r) == run' = [run EXCEPT ![r] = [@ EXCEPT !.stage = "working"]]

\* The answer is lost on its way back: the run does not end.
Bug_Exit(r) ==
  /\ work' = [work EXCEPT ![r] = Resting]
  /\ UNCHANGED run

Exit(r) ==
  /\ run' = [run EXCEPT ![r] = Idle]
  /\ work' = [work EXCEPT ![r] = Resting]

\* Others write: the reviews under way are not alone any more.
Disturbed(r, w) ==
  [q \in Run |-> IF q = r THEN w
                 ELSE IF Reviewing(q) THEN [work[q] EXCEPT !.alone = FALSE]
                 ELSE work[q]]

-----------------------------------------------------------------------------
(* runSentinelScan.                                                        *)

\* fenerisPrep only reads, in the router's eyes: neither judgment nor a read-only
\* configuration stops it, but the governance lock does.  One time stamp for the
\* whole scan.
StartScan(r) ==
  /\ run[r].stage = "checked"
  /\ "core" \in run[r].policy
  /\ ~LockActive
  /\ Enter(r)
  /\ work' = [work EXCEPT ![r] =
       [stage |-> "checks", at |-> clock, left |-> Checks, found |-> <<>>,
        held |-> Holding]]   \* history: what has held all along
  /\ UNCHANGED <<governance, onboarding, human, past, other, raised, decided, unreadable, clock, again>>

\* One check; after the last one, what was found is written, in a process that may.
Look(r) ==
  /\ work[r].stage = "checks"
  /\ LET rule  == Head(work[r].left)
         found == work[r].found \o (IF Holds(rule) THEN <<rule>> ELSE <<>>)
     IN  work' = [work EXCEPT ![r] =
           [work[r] EXCEPT !.left = Tail(@), !.found = found,
                           !.stage = IF Len(work[r].left) > 1 THEN "checks"
                                     ELSE IF run[r].write /\ found # <<>> THEN "raising"
                                     ELSE "reported"]]
  /\ UNCHANGED <<governance, run, onboarding, human, past, other, raised, decided, unreadable, clock, again>>

\* Each infraction overwrites the file.
Bug_Raise(r) ==
  /\ work[r].stage = "raising"
  /\ raised' = <<<<Head(work[r].found), work[r].at>>>>
  /\ LET rest == Tail(work[r].found) IN
       work' = Disturbed(r, [work[r] EXCEPT
         !.found = rest, !.stage = IF rest = <<>> THEN "reported" ELSE "raising"])
  /\ UNCHANGED <<governance, run, onboarding, human, past, other, decided, unreadable, clock, again>>

\* appendInfraction, one infraction after the other.
Raise(r) ==
  /\ work[r].stage = "raising"
  /\ Len(raised) < MaxRaised
  /\ raised' = Append(raised, <<Head(work[r].found), work[r].at>>)
  /\ LET rest == Tail(work[r].found) IN
       work' = Disturbed(r, [work[r] EXCEPT
         !.found = rest, !.stage = IF rest = <<>> THEN "reported" ELSE "raising"])
  /\ UNCHANGED <<governance, run, onboarding, human, past, other, decided, unreadable, clock, again>>

-----------------------------------------------------------------------------
(* mondayInfractionReview.                                                 *)

\* readOpenInfractions and readDispositions: one bad line, and there are none.
Open == IF "infractions" \in unreadable THEN <<>> ELSE raised
Dispositions == IF "dispositions" \in unreadable THEN {} ELSE decided

\* A human names infractions once they have been listed; the same one twice, and one
\* already decided, included.
StartReview(r, asked) ==
  /\ MayWrite(r, "hil") /\ ~LockActive
  /\ Enter(r)
  /\ work' = Disturbed(r,
       [stage |-> "opened", open |-> Open, asked |-> asked,
        listed |-> Range(raised),                                 \* history
        alone |-> ~ \E q \in Run : Scanning(q) \/ Reviewing(q)])   \* history
  /\ UNCHANGED <<governance, onboarding, human, past, other, raised, decided, unreadable, clock, again>>

\* A disposition closes every infraction of its rule.
Bug_Undecided(open) ==
  Restrict(open, {i \in DOMAIN open : ~ \E d \in Dispositions : d[1] = open[i][1]})

\* getTrulyOpenInfractions: the lines that are left, each with its id.
Undecided(open) == Restrict(open, {i \in DOMAIN open : open[i] \notin Dispositions})

\* Nothing open: "System is clear."  Nothing asked: the listing.  Both end the review.
Reconcile(r) ==
  /\ work[r].stage = "opened"
  /\ LET open == Undecided(work[r].open) IN
       \/ DOMAIN open = {} /\ Exit(r)
       \/ DOMAIN open # {} /\ work[r].asked = <<>> /\ Exit(r)
       \/ /\ DOMAIN open # {} /\ work[r].asked # <<>>
          /\ work' = [work EXCEPT ![r].open = open, ![r].stage = "reconciled"]
          /\ UNCHANGED run
  /\ UNCHANGED <<governance, onboarding, human, past, other, raised, decided, unreadable, clock, again>>

Reread(r) ==
  /\ work[r].stage = "reconciled"
  /\ work' = [work EXCEPT ![r] =
       [stage |-> "deciding", open |-> work[r].open, todo |-> work[r].asked,
        already |-> Dispositions, written |-> 0, alone |-> work[r].alone]]
  /\ UNCHANGED <<governance, run, onboarding, human, past, other, raised, decided, unreadable, clock, again>>

\* The set of decided ids is not updated inside the loop.
Bug_Record(r) ==
  LET id == Head(work[r].todo) IN
    /\ decided' = decided \cup {id}
    /\ again' = IF id \in decided /\ work[r].alone /\ "dispositions" \notin unreadable
                THEN again \cup {id} ELSE again
    /\ work' = Disturbed(r, [work[r] EXCEPT !.todo = Tail(@), !.written = @ + 1])

\* recordHilDisposition.
Record(r) ==
  LET id == Head(work[r].todo) IN
    /\ decided' = decided \cup {id}
    /\ again' = IF id \in decided /\ work[r].alone /\ "dispositions" \notin unreadable
                THEN again \cup {id} ELSE again
    /\ work' = Disturbed(r, [work[r] EXCEPT
         !.todo = Tail(@), !.already = @ \cup {id}, !.written = @ + 1])

\* One entry of the submission: not an open infraction, already decided, or recorded.
Decide(r) ==
  /\ work[r].stage = "deciding"
  /\ work[r].todo # <<>>
  /\ LET id == Head(work[r].todo) IN
       IF id \notin Range(work[r].open) \/ id \in work[r].already
       THEN /\ work' = [work EXCEPT ![r].todo = Tail(@)]
            /\ UNCHANGED <<decided, again>>
       ELSE Record(r)
  /\ UNCHANGED <<governance, run, onboarding, human, past, other, raised, unreadable, clock>>

\* Everything ever decided is subtracted.
Bug_Remaining(w) == Cardinality(DOMAIN w.open) - Cardinality(w.already)

\* remaining_open.
Remaining(w) == Cardinality(DOMAIN w.open) - w.written

Answer(r) ==
  /\ work[r].stage = "deciding"
  /\ work[r].todo = <<>>
  /\ work' = [work EXCEPT ![r] =
       [stage |-> "answered", remaining |-> Remaining(work[r]), alone |-> work[r].alone]]
  /\ UNCHANGED <<governance, run, onboarding, human, past, other, raised, decided, unreadable, clock, again>>

-----------------------------------------------------------------------------
(* Ends of both, and the environment.                                      *)

Done(r) ==
  /\ work[r].stage \in {"reported", "answered"}
  /\ Exit(r)
  /\ UNCHANGED <<governance, onboarding, human, past, other, raised, decided, unreadable, clock, again>>

\* An append fails, or the process dies there: nothing of the line is in the file, or a
\* part that does not parse (cut before its newline, it spoils the next line instead).
Fail(r) ==
  /\ "torn" \in Faults
  /\ \/ work[r].stage = "raising" /\ unreadable' \in {unreadable, unreadable \cup {"infractions"}}
     \/ work[r].stage = "deciding" /\ unreadable' \in {unreadable, unreadable \cup {"dispositions"}}
  /\ Exit(r)
  /\ UNCHANGED <<governance, onboarding, human, past, other, raised, decided, clock, again>>

Tick ==
  /\ clock < MaxTime
  /\ clock' = clock + 1
  /\ UNCHANGED <<governance, run, onboarding, human, past, other, work, raised, decided, unreadable, again>>

\* What a human can submit: nothing, or one or two of the infractions in the file.
Submissions ==
  {<<>>} \cup {<<i>> : i \in Range(raised)} \cup {<<i, j>> : i, j \in Range(raised)}

\* A self-test closes the lock, an unlock opens it; receipts break, a policy is lost.
Elsewhere ==
  /\ \E rule \in OtherRules \cap Rules :
       other' = IF rule \in other THEN other \ {rule} ELSE other \cup {rule}
  /\ UNCHANGED onboardingVars

\* A step of Onboarding or of other modules, seen by the scans under way.
Watched ==
  /\ (OnboardingNext /\ UNCHANGED other) \/ Elsewhere
  /\ work' = [r \in Run |-> IF Scanning(r) THEN [work[r] EXCEPT !.held = @ \cap Holding'] ELSE work[r]]
  /\ UNCHANGED <<raised, decided, unreadable, clock, again>>

SentinelNext ==
  \/ Watched
  \/ \E r \in Run :
       \/ StartScan(r) \/ Look(r) \/ Raise(r)
       \/ \E asked \in Submissions : StartReview(r, asked)
       \/ Reconcile(r) \/ Reread(r) \/ Decide(r) \/ Answer(r)
       \/ Done(r)
       \/ Fail(r)
  \/ Tick

SentinelSpec == SentinelInit /\ [][SentinelNext]_<<onboardingVars, sentinelVars>>

-----------------------------------------------------------------------------
(* Properties.                                                             *)

\* At rest here, or in a capability for the router; and no review counts more
\* decisions than it had infractions, whatever overlaps it.
SentinelTypeOK ==
  /\ \A r \in Run : (work[r].stage # "resting") <=> (run[r].stage = "working")
  /\ \A r \in Run : work[r].stage = "answered" => work[r].remaining \in Nat
  /\ other \subseteq OtherRules
  /\ raised \in Seq(Ids)
  /\ decided \in SUBSET Ids
  /\ unreadable \in SUBSET {"infractions", "dispositions"}
  /\ clock \in 0..MaxTime
  /\ again \in SUBSET Ids

\* A scan that ends in a process that may write leaves in the file every rule that
\* held from its beginning to its end, whatever else was going on.
ScanReports ==
  \A r \in Run :
    work[r].stage = "reported" /\ run[r].write =>
      \A rule \in work[r].held : <<rule, work[r].at>> \in Range(raised)

\* A review that no other review or scan overlapped decides no infraction twice, also
\* when the submission repeats itself, or an earlier review has decided it.
OneDecisionEach == again = {}

\* A review turns a submission away, "System is clear.", only if every id that was in
\* the file of infractions as it began has been decided -- whatever overlaps the review,
\* and also when the file of dispositions cannot be read, but not when a line of the
\* infractions is torn: then none is seen.  Infractions of a rule that were raised in
\* the same millisecond share their id, and so a decision.
ClearMeansClear ==
  [][\A r \in Run :
       work[r].stage = "opened" /\ work[r].asked # <<>> /\ work'[r].stage = "resting" =>
         work[r].listed \subseteq decided \/ "infractions" \in unreadable
    ]_<<onboardingVars, sentinelVars>>

\* What a review that was not overlapped says is left is left, as long as the ids in
\* the file differ and both files can be read.
RemainingIsLeft ==
  \A r \in Run :
    work[r].stage = "answered" /\ work[r].alone /\ unreadable = {} /\ IsInjective(raised) =>
      work[r].remaining = Cardinality(Range(raised) \ decided)
=============================================================================
