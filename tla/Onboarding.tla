----------------------------- MODULE Onboarding -----------------------------
(***************************************************************************)
(* The governance files, the genesis record that seals them                *)
(* (core/provenance.ts), and the onboarding that recommends new ones       *)
(* (capabilities/mondayOnboarding.ts).                                     *)
(*                                                                         *)
(* A run is a process: createCore, and runLifecycle for every request,     *)
(* seal the files if they are not sealed and writing is enabled, verify    *)
(* the seal, and set or clear the judgment; only then may a capability     *)
(* execute.  Each is a file operation of its own, which others come        *)
(* between and whose failure is ignored.  The human applies what           *)
(* onboarding recommends to the two files by hand.                         *)
(***************************************************************************)
EXTENDS Naturals, Sequences

CONSTANTS
  Run,        \* the processes
  Session,    \* onboarding session ids
  Scope,      \* scopes a deployment may have; "production" asks one question more
  NoScope,    \* the configuration the repository comes with; nothing submitted yet
  Faults,     \* which environment faults occur, see OnboardingFaults
  MaxLines    \* bound: lines of sessions.ndjson

OnboardingFaults ==
  {"torn",        \* a process dies, perhaps inside a write
   "unwritable",  \* writing in .auernyx/provenance fails, at once or half-way
   "edit",        \* somebody empties the allowlist, or restores the first files
   "unseal"}      \* somebody deletes genesis.json

\* No file, no recommendation, no readable line; a file that does not parse.
None   == <<>>
Broken == <<"unreadable">>

ASSUME OnboardingAssumption ==
  /\ None \notin Session
  /\ NoScope \notin Scope
  /\ MaxLines \in Nat

VARIABLES
  allowlist,  \* allowlist.json: groups of capabilities
  config,     \* auernyx.config.json: the scope it was written for
  genesis,    \* genesis.json: the files it seals, None, or Broken
  judgment,   \* judgment.json says that judgment is active; one that is missing,
              \* empty or half written does not
  run,        \* each process: its stage, writeEnabled, its policy, and the session
              \* that phase 3 has read (stage "working": in a capability of another
              \* module)
  sessions,   \* sessions.ndjson
  cut,        \* its last line has no newline
  advice,     \* what phase 3 recommended last, per session
  latest,     \* history: the scope submitted last, per session
  applied,    \* the human's progress with the apply steps
  unsealed,   \* history: genesis.json has been deleted
  unmarked,   \* history: a failed verification has left no marker, see WriteMarker
  overtaken   \* history: the sessions whose last submission was overtaken, see Complete

governance == <<allowlist, config, genesis, judgment>>
onboarding == <<sessions, cut, advice, latest>>
human      == <<applied, unsealed>>
past       == <<unmarked, overtaken>>

\* Capabilities always recommended, and those of Monday's HIL layer.
AllCapabilities == {"core", "hil"}
Recommended(yes) == {"core"} \cup (yes \cap {"hil"})

\* Both kinds of file content computeGovernanceHash covers.
Files == <<allowlist, config>>
Seals == (SUBSET AllCapabilities) \X (Scope \cup {NoScope})

\* selectQuestions: the bank's other questions are alike.
Questions(scope) == {"hil"} \cup (IF scope = "production" THEN {"genesis_ready"} ELSE {})

\* The lines of sessions.ndjson: the last one of a session counts.
TornLine == [id |-> None, scope |-> NoScope]
SessionLine == [id : Session, scope : Scope] \cup {TornLine}

Marking == {"marking", "spoiled"}
Stages ==
  {"idle",       \* between processes
   "started",    \* createCore has read the policy, or runLifecycle begins
   "sealed",     \* ensureGenesisRecord is done
   "passed", "failed",  \* what verifyProvenance said
   "checked",    \* the judgment is set or cleared
   "admitted",   \* the router lets it into mondayOnboarding
   "reading",    \* phase 3 has read its session
   "answered",   \* the request is done
   "working"} \cup Marking

RunType ==
  [stage : Stages, write : BOOLEAN, policy : SUBSET AllCapabilities,
   session : Session \cup {None}, scope : Scope \cup {NoScope},
   stale : BOOLEAN]   \* history: another has submitted the session since

Idle == [stage |-> "idle", write |-> FALSE, policy |-> {}, session |-> None,
         scope |-> NoScope, stale |-> FALSE]

\* Where the human is in apply_steps: before them, after step 1, after step 2, and in
\* and after the start with AUERNYX_WRITE_ENABLED=1 that step 4 asks for.
Steps == {"before", "allowlist", "config", "starting", "started"}

OnboardingInit ==
  /\ allowlist = AllCapabilities
  /\ config = NoScope
  /\ genesis \in {None, <<allowlist, config>>}
  /\ judgment = FALSE
  /\ run = [r \in Run |-> Idle]
  /\ sessions = <<>>
  /\ cut = FALSE
  /\ advice = [s \in Session |-> None]
  /\ latest = [s \in Session |-> NoScope]
  /\ applied = "before"
  /\ unsealed = FALSE
  /\ unmarked = FALSE
  /\ overtaken = {}

-----------------------------------------------------------------------------
(* createCore and the head of runLifecycle.                                *)

Go(r, from, to) == run[r].stage = from /\ run' = [run EXCEPT ![r].stage = to]

\* createPolicy: the allowlist is read once, when the process is created.
Begin(r, write) ==
  /\ run[r].stage = "idle"
  /\ run' = [run EXCEPT ![r] =
       [Idle EXCEPT !.stage = "started", !.write = write, !.policy = allowlist]]
  /\ applied' = IF applied = "config" /\ write THEN "starting" ELSE applied
  /\ UNCHANGED <<governance, onboarding, unsealed, past>>

\* runLifecycle checks once more: after createCore, and for every further request.  A
\* daemon keeps its policy.
Again(r) ==
  /\ run[r].stage \in {"checked", "answered"}
  /\ run' = [run EXCEPT ![r].stage = "started"]
  /\ UNCHANGED <<governance, onboarding, human, past>>

\* ensureGenesisRecord: only if there is no file, whatever it holds.
Ensure(write) ==
  genesis' = IF genesis = None /\ write THEN Files ELSE genesis

Seal(r) ==
  /\ Go(r, "started", "sealed")
  /\ Ensure(run[r].write)
  /\ applied' = IF applied = "starting" THEN "started" ELSE applied
  /\ UNCHANGED <<allowlist, config, judgment, onboarding, unsealed, past>>

\* An exception is swallowed; the file may be there by then.
SealFails(r) ==
  /\ "unwritable" \in Faults
  /\ Go(r, "started", "sealed")
  /\ genesis = None /\ run[r].write
  /\ genesis' \in {None, Broken}
  /\ UNCHANGED <<allowlist, config, judgment, onboarding, human, past>>

\* Taking a missing seal for a good one.
Bug_Verify(r) ==
  /\ Go(r, "sealed", IF genesis \in {None, Files} THEN "passed" ELSE "failed")
  /\ UNCHANGED <<governance, onboarding, human, past>>

\* verifyProvenance.
Verify(r) ==
  /\ Go(r, "sealed", IF genesis = Files THEN "passed" ELSE "failed")
  /\ UNCHANGED <<governance, onboarding, human, past>>

\* A run that writes or removes the marker spoils the write of one that has it open.
Spoiled(r, to) ==
  [q \in Run |-> IF q = r THEN [run[r] EXCEPT !.stage = to]
                ELSE IF run[q].stage = "marking" THEN [run[q] EXCEPT !.stage = "spoiled"]
                ELSE run[q]]

\* activateJudgment rewrites the marker in place: opening it empties it ...
OpenMarker(r) ==
  /\ Go(r, "failed", "marking")
  /\ judgment' = FALSE
  /\ UNCHANGED <<allowlist, config, genesis, onboarding, human, past>>

\* ... and of two written over each other, or one removed, either or neither is left.
WriteMarker(r) ==
  /\ run[r].stage \in Marking
  /\ judgment' \in IF run[r].stage = "marking" THEN {TRUE} ELSE BOOLEAN
  /\ unmarked' = (unmarked \/ ~judgment')
  /\ run' = Spoiled(r, "checked")
  /\ UNCHANGED <<allowlist, config, genesis, onboarding, human, overtaken>>

\* What is left of a marker whose write stops half-way.
HalfMarked(r) == judgment' \in {judgment} \cup {j \in {FALSE} : run[r].stage \in Marking}

MarkerFails(r) ==
  /\ "unwritable" \in Faults
  /\ run[r].stage \in {"failed"} \cup Marking
  /\ run' = [run EXCEPT ![r].stage = "checked"]
  /\ HalfMarked(r)
  /\ unmarked' = TRUE
  /\ UNCHANGED <<allowlist, config, genesis, onboarding, human, overtaken>>

\* clearJudgment.
Clear(r) ==
  /\ run[r].stage = "passed"
  /\ judgment' = FALSE
  /\ run' = Spoiled(r, "checked")
  /\ UNCHANGED <<allowlist, config, genesis, onboarding, human, past>>

ClearFails(r) ==
  /\ "unwritable" \in Faults
  /\ Go(r, "passed", "checked")
  /\ UNCHANGED <<governance, onboarding, human, past>>

\* A process dies, perhaps in the middle of writing the genesis record, or of the
\* marker it has opened.
Die(r) ==
  /\ "torn" \in Faults
  /\ run[r].stage \notin {"idle", "working"}
  /\ genesis' \in {genesis} \cup {g \in {Broken} :
                     genesis = None /\ run[r].write /\ run[r].stage = "started"}
  /\ HalfMarked(r)
  /\ unmarked' = (unmarked \/ run[r].stage \in Marking)
  /\ run' = [run EXCEPT ![r] = Idle]
  /\ UNCHANGED <<allowlist, config, onboarding, human, overtaken>>

\* The request of a run is done.
Responded(r) ==
  [run[r] EXCEPT !.stage = "answered", !.session = None, !.scope = NoScope, !.stale = FALSE]

\* Phase 1, an input that is refused, or a session that is not found.
Respond(r) ==
  /\ run[r].stage \in {"admitted", "reading"}
  /\ run' = [run EXCEPT ![r] = Responded(r)]
  /\ UNCHANGED <<governance, onboarding, human, past>>

\* Nothing more is asked of the process, or the router refuses: it ends.
Leave(r) ==
  /\ run[r].stage \in {"checked", "answered"}
  /\ run' = [run EXCEPT ![r] = Idle]
  /\ UNCHANGED <<governance, onboarding, human, past>>

\* The router's gates for a capability of a group that may write.  (The governance
\* lock is one more: GovernedRun has it.)
MayWrite(r, group) ==
  /\ run[r].stage = "checked"
  /\ group \in run[r].policy
  /\ ~judgment
  /\ run[r].write

-----------------------------------------------------------------------------
(* mondayOnboarding.  Phase 1 keeps nothing.                               *)

\* appendFileSync: after a cut line, the new one becomes part of it.
AddLine(line) ==
  /\ cut \/ Len(sessions) < MaxLines
  /\ sessions' = IF cut THEN sessions ELSE Append(sessions, line)
  /\ cut' = FALSE

CutShort ==
  /\ "torn" \in Faults
  /\ cut \/ Len(sessions) < MaxLines
  /\ sessions' = IF cut THEN sessions ELSE Append(sessions, TornLine)
  /\ cut' = TRUE

Whole(line) == line.id # None

\* Skipping the lines that do not parse.
Bug_Found(s, i) ==
  /\ sessions[i].id = s
  /\ \A j \in (i + 1)..Len(sessions) : sessions[j].id # s

\* readSession looks for the session's last line from the end and gives up at the
\* first line that does not parse.
Found(s, i) ==
  /\ sessions[i].id = s
  /\ \A j \in (i + 1)..Len(sessions) : Whole(sessions[j]) /\ sessions[j].id # s

\* validateScope.
ValidScope == Scope

\* A run that the router admits while another has the marker open and empty.
Admit(r) ==
  /\ MayWrite(r, "hil")
  /\ Go(r, "checked", "admitted")
  /\ unmarked' = (unmarked \/ \E q \in Run : run[q].stage \in Marking)
  /\ UNCHANGED <<governance, onboarding, human, overtaken>>

\* The runs that have read the session go on with what they read.
Phase2(r, s, scope) ==
  /\ run[r].stage = "admitted"
  /\ AddLine([id |-> s, scope |-> scope]) \/ CutShort
  /\ run' = [q \in Run |-> IF q = r THEN Responded(r)
                          ELSE IF run[q].session = s THEN [run[q] EXCEPT !.stale = TRUE]
                          ELSE run[q]]
  /\ latest' = [latest EXCEPT ![s] = scope]
  /\ overtaken' = overtaken \ {s}
  /\ UNCHANGED <<governance, advice, human, unmarked>>

\* Phase 3 reads the session.  One that is not found changes nothing: see Respond.
ReadSession(r, s) ==
  /\ run[r].stage = "admitted"
  /\ \E i \in 1..Len(sessions) :
       /\ Found(s, i)
       /\ run' = [run EXCEPT ![r] = [@ EXCEPT !.stage = "reading", !.session = s,
                                            !.scope = sessions[i].scope]]
  /\ UNCHANGED <<governance, onboarding, human, past>>

\* Phase 3 appends the completed session with the scope it has read, and recommends.
Complete(r, given, yes) ==
  LET s == run[r].session scope == run[r].scope IN
    /\ run[r].stage = "reading"
    /\ Questions(scope) \subseteq given
    /\ \/ /\ AddLine([id |-> s, scope |-> scope])
          /\ advice' = [advice EXCEPT ![s] = <<Recommended(yes), scope>>]
       \/ CutShort /\ UNCHANGED advice
    /\ overtaken' = overtaken \cup {t \in {s} : run[r].stale}
    /\ run' = [run EXCEPT ![r] = Responded(r)]
    /\ UNCHANGED <<governance, latest, human, unmarked>>

-----------------------------------------------------------------------------
(* The human.                                                              *)

\* Steps 1 and 2 of apply_steps.
Apply(s) ==
  /\ advice[s] # None
  /\ \/ applied \in {"before", "started"} /\ allowlist' = advice[s][1]
        /\ applied' = "allowlist" /\ UNCHANGED config
     \/ applied = "allowlist" /\ allowlist = advice[s][1] /\ config' = advice[s][2]
        /\ applied' = "config" /\ UNCHANGED allowlist
  /\ UNCHANGED <<genesis, judgment, run, onboarding, unsealed, past>>

Edit ==
  /\ "edit" \in Faults
  /\ \/ allowlist' = {} /\ UNCHANGED config
     \/ allowlist' = AllCapabilities /\ config' = NoScope
  /\ applied' = "before"
  /\ UNCHANGED <<genesis, judgment, run, onboarding, unsealed, past>>

Unseal ==
  /\ "unseal" \in Faults
  /\ genesis # None
  /\ genesis' = None
  /\ unsealed' = TRUE
  /\ UNCHANGED <<allowlist, config, judgment, run, onboarding, applied, past>>

Check(r) ==
  \/ \E write \in BOOLEAN : Begin(r, write)
  \/ Again(r) \/ Seal(r) \/ SealFails(r) \/ Verify(r)
  \/ OpenMarker(r) \/ WriteMarker(r) \/ MarkerFails(r) \/ Clear(r) \/ ClearFails(r)
  \/ Die(r) \/ Leave(r)

Onboard(r) ==
  \/ Admit(r)
  \/ Respond(r)
  \/ \E s \in Session, scope \in ValidScope : Phase2(r, s, scope)
  \/ \E s \in Session : ReadSession(r, s)
  \/ \E given \in SUBSET Questions("production") :
       \E yes \in SUBSET given : Complete(r, given, yes)

OnboardingNext ==
  \/ \E r \in Run : Check(r) \/ Onboard(r)
  \/ \E s \in Session : Apply(s)
  \/ Edit
  \/ Unseal

onboardingVars == <<governance, run, onboarding, human, past>>

OnboardingSpec == OnboardingInit /\ [][OnboardingNext]_onboardingVars

-----------------------------------------------------------------------------
(* Properties.                                                             *)

OnboardingTypeOK ==
  /\ allowlist \in SUBSET AllCapabilities
  /\ config \in Scope \cup {NoScope}
  /\ genesis \in Seals \cup {None, Broken}
  /\ judgment \in BOOLEAN
  /\ run \in [Run -> RunType]
  /\ sessions \in Seq(SessionLine)
  /\ cut \in BOOLEAN
  /\ advice \in [Session -> ((SUBSET AllCapabilities) \X Scope) \cup {None}]
  /\ latest \in [Session -> Scope \cup {NoScope}]
  /\ applied \in Steps
  /\ unsealed \in BOOLEAN
  /\ unmarked \in BOOLEAN
  /\ overtaken \in SUBSET Session

\* What phase 3 recommends is for the scope that was submitted last in the session,
\* also when the line of that submission was cut short: never for an older one, unless
\* another process submitted between its reading and its writing -- then the older
\* scope stays until the next submission.
CompletesLatestScope ==
  [][\A s \in Session : advice'[s] # advice[s] =>
       advice'[s][2] = latest[s] \/ s \in overtaken']_onboardingVars

\* Nobody is given a recommendation in a repository that has not been sealed: whoever
\* could run the onboarding has sealed the files it is about to replace -- unless the
\* marker of a failed verification could not be written, was torn, or was being
\* rewritten as the router looked at it.
AdviceComesAfterSeal ==
  (\E s \in Session : advice[s] # None) /\ ~unsealed /\ ~unmarked => genesis \in Seals

\* What the onboarding promises: "genesis re-seals on next startup with
\* AUERNYX_WRITE_ENABLED=1", so that the applied configuration is not in judgment.
AppliedPasses == applied = "started" => genesis = Files
=============================================================================
