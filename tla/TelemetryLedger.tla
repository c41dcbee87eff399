-------------------------- MODULE TelemetryLedger --------------------------
(***************************************************************************)
(* The telemetry ledger logs/ledger.ndjson: the Ledger class of            *)
(* core/ledger.ts, which every daemon, CLI and extension process           *)
(* instantiates, the verification of core/integrity.ts, and the one        *)
(* capability whose decision rests on it, governance_unlock.               *)
(*                                                                         *)
(* A line is an entry (its hash and prevHash) or text that does not parse. *)
(* Hashes are numbered as entries reach the file; 0 is `undefined`.  Only  *)
(* processes with writes enabled are modelled: for the others append       *)
(* touches neither file nor memory.                                        *)
(***************************************************************************)
EXTENDS Naturals, Sequences

CONSTANTS
  Process,     \* the processes that append
  NoProcess,   \* ledger.ndjson.lock does not exist
  Faults,      \* which environment faults occur, see FaultKinds
  MaxEntries,  \* the verification window (10 000 lines by default)
  MaxAppends   \* bound: entries written before the last calls

FaultKinds ==
  {"fail",     \* an append throws and leaves nothing
   "torn",     \* an append leaves part of its line, without the newline
   "unlink",   \* removing the lock file throws (and is ignored)
   "crash",    \* a process dies
   "operator", \* somebody deletes a lock file nobody is working under
   "hasty",    \* somebody deletes a lock file whose owner is still at work
   "rotate"}   \* the oldest lines are moved to an archive

ASSUME TelemetryAssumption ==
  /\ NoProcess \notin Process
  /\ Faults \subseteq FaultKinds
  /\ MaxEntries \in Nat \ {0}
  /\ MaxAppends \in Nat

VARIABLES
  lines,      \* the lines of ledger.ndjson
  closed,     \* the file is empty or ends with a newline
  lockFile,   \* who created ledger.ndjson.lock
  made,       \* hashes used so far
  archived,   \* history: the hashes that were rotated away
  pc,         \* where each process is in append or in governance_unlock
  lastHash,   \* this.lastHash of each process
  prev,       \* the prevHash it read inside the lock
  wrote,      \* history: the hash of the line its last call completed, 0 if none
  glued,      \* history: the processes that put that line on one without its newline
  outcome,    \* what its last append returned
  govLocked,  \* locked in logs/governance.lock.json
  verified,   \* history: the last hash, with its newline, among those the process
              \* verified before it decided to unlock; 0 if none
  damaged     \* history: a line was torn, or two writers could overlap

vars == <<lines, closed, lockFile, made, archived, pc, lastHash, prev, wrote,
          glued, outcome, govLocked, verified, damaged>>
fileVars == <<lines, closed, made, archived>>
callVars == <<lastHash, prev, wrote, glued, outcome>>
unlockVars == <<govLocked, verified>>

Inside == {"locked", "linked", "written", "threw"}
Steps == Inside \cup {"down", "idle", "waiting", "caught", "unlocking"}

Garbage == [hash |-> 0, prev |-> 0]

Init ==
  /\ lines = <<>>
  /\ closed = TRUE
  /\ lockFile = NoProcess
  /\ made = 0
  /\ archived = {}
  /\ pc = [p \in Process |-> "down"]
  /\ lastHash = [p \in Process |-> 0]
  /\ prev = [p \in Process |-> 0]
  /\ wrote = [p \in Process |-> 0]
  /\ glued = {}
  /\ outcome = [p \in Process |-> "none"]
  /\ govLocked = FALSE
  /\ verified = [p \in Process |-> 0]
  /\ damaged = FALSE

At(p, from, to) == pc[p] = from /\ pc' = [pc EXCEPT ![p] = to]

-----------------------------------------------------------------------------
(* Reading and verifying the file.                                         *)

\* getTailHashFromFile: undefined when the last line does not parse.
TailHash == IF lines = <<>> THEN 0 ELSE lines[Len(lines)].hash

\* The loop of verifyLedgerIntegrity over the lines from the first-th on: the
\* link of the first one is not checked.
LinkedFrom(first) ==
  \A i \in first..Len(lines) :
    /\ lines[i].hash # 0
    /\ i > first => lines[i].prev = lines[i - 1].hash

Truncated == Len(lines) > MaxEntries
WindowStart == IF Truncated THEN Len(lines) - MaxEntries + 1 ELSE 1
IntegrityOk == LinkedFrom(WindowStart)

-----------------------------------------------------------------------------
(* append                                                                  *)

\* new Ledger(repoRoot)
Start(p) ==
  /\ At(p, "down", "idle")
  /\ lastHash' = [lastHash EXCEPT ![p] = TailHash]
  /\ UNCHANGED <<fileVars, lockFile, prev, wrote, glued, outcome, unlockVars, damaged>>

NewCall(p) ==
  /\ wrote' = [wrote EXCEPT ![p] = 0]
  /\ glued' = glued \ {p}
  /\ outcome' = [outcome EXCEPT ![p] = "none"]

Call(p) ==
  /\ made < MaxAppends
  /\ At(p, "idle", "waiting")
  /\ NewCall(p)
  /\ UNCHANGED <<fileVars, lockFile, lastHash, prev, unlockVars, damaged>>

\* Definitions named Bug_... are not part of the model: each changes the action
\* defined after it the way a plausible defect would, and is substituted for it
\* to show that a property notices.

\* Opening the lock file without the exclusive flag.
Bug_SharedLock(p) ==
  /\ At(p, "waiting", "locked")
  /\ lockFile' = p
  /\ UNCHANGED <<fileVars, callVars, unlockVars, damaged>>

AcquireLock(p) ==
  /\ lockFile = NoProcess
  /\ At(p, "waiting", "locked")
  /\ lockFile' = p
  /\ UNCHANGED <<fileVars, callVars, unlockVars, damaged>>

LockExists(p) ==
  /\ lockFile # NoProcess
  /\ At(p, "waiting", "caught")
  /\ UNCHANGED <<fileVars, lockFile, callVars, unlockVars, damaged>>

\* The catch block, which also receives whatever the critical section throws:
\* past the deadline the entry is returned with persisted: false ...
Bug_NoDeadline(p) == FALSE /\ UNCHANGED vars

GiveUp(p) ==
  /\ At(p, "caught", "idle")
  /\ outcome' = [outcome EXCEPT ![p] = "unwritten"]
  /\ UNCHANGED <<fileVars, lockFile, lastHash, prev, wrote, glued, unlockVars, damaged>>

\* ... and before it the loop goes round again.
SpinAgain(p) ==
  /\ At(p, "caught", "waiting")
  /\ UNCHANGED <<fileVars, lockFile, callVars, unlockVars, damaged>>

\* getTailHashFromFile() ?? this.lastHash
ReadTail(p) ==
  /\ At(p, "locked", "linked")
  /\ prev' = [prev EXCEPT ![p] = IF TailHash # 0 THEN TailHash ELSE lastHash[p]]
  /\ UNCHANGED <<fileVars, lockFile, lastHash, wrote, glued, outcome, unlockVars, damaged>>

\* What lands on a line that was left without its newline parses no more.
Put(line) == IF closed THEN Append(lines, line)
             ELSE [lines EXCEPT ![Len(lines)] = Garbage]

Entry(p) == [hash |-> made + 1, prev |-> prev[p]]

\* writeFileSync instead of appendFileSync.
Bug_Overwrite(p) ==
  /\ At(p, "linked", "written")
  /\ lines' = <<Entry(p)>>
  /\ closed' = TRUE
  /\ made' = made + 1
  /\ lastHash' = [lastHash EXCEPT ![p] = made + 1]
  /\ wrote' = [wrote EXCEPT ![p] = made + 1]
  /\ glued' = IF closed THEN glued ELSE glued \cup {p}
  /\ UNCHANGED <<archived, lockFile, prev, outcome, unlockVars, damaged>>

AppendLine(p) ==
  /\ At(p, "linked", "written")
  /\ lines' = Put(Entry(p))
  /\ closed' = TRUE
  /\ made' = made + 1
  /\ lastHash' = [lastHash EXCEPT ![p] = made + 1]
  /\ wrote' = [wrote EXCEPT ![p] = made + 1]
  /\ glued' = IF closed THEN glued ELSE glued \cup {p}
  /\ UNCHANGED <<archived, lockFile, prev, outcome, unlockVars, damaged>>

\* Swallowing the exception of appendFileSync: the entry is returned as if it
\* had been written.
Bug_IgnoreAppendError(p) ==
  /\ "fail" \in Faults
  /\ At(p, "linked", "written")
  /\ UNCHANGED <<fileVars, lockFile, callVars, unlockVars, damaged>>

AppendFails(p) ==
  /\ "fail" \in Faults
  /\ At(p, "linked", "threw")
  /\ UNCHANGED <<fileVars, lockFile, callVars, unlockVars, damaged>>

\* Part of the line is on disk: text that does not parse, or all but the newline.
LeaveTornLine(p) ==
  /\ \/ lines' = Put(Garbage) /\ UNCHANGED made
     \/ lines' = Put(Entry(p)) /\ made' = made + 1 /\ made < MaxAppends
  /\ closed' = FALSE
  /\ damaged' = TRUE
  /\ UNCHANGED archived

AppendTorn(p) ==
  /\ "torn" \in Faults
  /\ At(p, "linked", "threw")
  /\ LeaveTornLine(p)
  /\ UNCHANGED <<lockFile, callVars, unlockVars>>

\* The finally block; an exception from unlinkSync is ignored.
RemoveLock == lockFile' = NoProcess \/ ("unlink" \in Faults /\ UNCHANGED lockFile)

Return(p) ==
  /\ At(p, "written", "idle")
  /\ RemoveLock
  /\ outcome' = [outcome EXCEPT ![p] = "written"]
  /\ prev' = [prev EXCEPT ![p] = 0]
  /\ UNCHANGED <<fileVars, lastHash, wrote, glued, unlockVars, damaged>>

Rethrow(p) ==
  /\ At(p, "threw", "caught")
  /\ RemoveLock
  /\ prev' = [prev EXCEPT ![p] = 0]
  /\ UNCHANGED <<fileVars, lastHash, wrote, glued, outcome, unlockVars, damaged>>

-----------------------------------------------------------------------------
(* governance_unlock                                                       *)

\* The hash of the last line that has its newline.
LastClosed ==
  LET n == IF closed THEN Len(lines) ELSE Len(lines) - 1
  IN  IF n > 0 THEN lines[n].hash ELSE 0

\* Opening the lock comes next, or the refusal, which is itself appended.
Decide(p, sound) ==
  \/ /\ sound
     /\ pc' = [pc EXCEPT ![p] = "unlocking"]
     /\ verified' = [verified EXCEPT ![p] = LastClosed]
  \/ /\ ~sound
     /\ pc' = [pc EXCEPT ![p] = "waiting"]
     /\ UNCHANGED verified

\* Looking at `ok` alone, as the unlock did before `truncated` was added.
Bug_UnlockWindow(p) ==
  /\ made <= MaxAppends
  /\ pc[p] = "idle"
  /\ govLocked
  /\ NewCall(p)
  /\ Decide(p, IntegrityOk)
  /\ UNCHANGED <<fileVars, lockFile, lastHash, prev, govLocked, damaged>>

\* Verify the ledger from its first line.
CheckBeforeUnlock(p) ==
  /\ made <= MaxAppends
  /\ pc[p] = "idle"
  /\ govLocked
  /\ NewCall(p)
  /\ Decide(p, IntegrityOk /\ ~Truncated)
  /\ UNCHANGED <<fileVars, lockFile, lastHash, prev, govLocked, damaged>>

\* writeGovernanceLock, then append "governance.unlock".
WriteUnlocked(p) ==
  /\ At(p, "unlocking", "waiting")
  /\ govLocked' = FALSE
  /\ verified' = [verified EXCEPT ![p] = 0]
  /\ UNCHANGED <<fileVars, lockFile, callVars, damaged>>

-----------------------------------------------------------------------------
(* The environment.                                                        *)

\* A governance self-test closes the lock.
SelfTestLocks ==
  /\ govLocked' = TRUE
  /\ UNCHANGED <<fileVars, lockFile, pc, callVars, verified, damaged>>

Crash(p) ==
  /\ "crash" \in Faults
  /\ pc[p] # "down"
  /\ pc' = [pc EXCEPT ![p] = "down"]
  /\ \/ pc[p] = "linked" /\ "torn" \in Faults /\ LeaveTornLine(p)
     \/ UNCHANGED <<fileVars, damaged>>
  /\ lastHash' = [lastHash EXCEPT ![p] = 0]
  /\ prev' = [prev EXCEPT ![p] = 0]
  /\ wrote' = [wrote EXCEPT ![p] = 0]
  /\ glued' = glued \ {p}
  /\ outcome' = [outcome EXCEPT ![p] = "none"]
  /\ verified' = [verified EXCEPT ![p] = 0]
  /\ UNCHANGED <<lockFile, govLocked>>

OperatorRemovesLock ==
  /\ lockFile # NoProcess
  /\ IF pc[lockFile] \in Inside
     THEN "hasty" \in Faults /\ damaged' = TRUE
     ELSE "operator" \in Faults /\ UNCHANGED damaged
  /\ lockFile' = NoProcess
  /\ UNCHANGED <<fileVars, pc, callVars, unlockVars>>

\* What a refused unlock asks for: the oldest lines are moved away.
Rotate ==
  /\ "rotate" \in Faults
  /\ \E n \in DOMAIN lines :
       /\ lines' = SubSeq(lines, n + 1, Len(lines))
       /\ closed' = (closed \/ n = Len(lines))
       /\ archived' = archived \cup ({lines[i].hash : i \in 1..n} \ {0})
  /\ UNCHANGED <<made, lockFile, pc, callVars, unlockVars, damaged>>

-----------------------------------------------------------------------------

AppendStep(p) ==
  \/ AcquireLock(p) \/ LockExists(p) \/ SpinAgain(p) \/ GiveUp(p)
  \/ ReadTail(p) \/ AppendLine(p) \/ AppendFails(p) \/ AppendTorn(p)
  \/ Return(p) \/ Rethrow(p)

Next ==
  \/ \E p \in Process :
       \/ Start(p) \/ Call(p) \/ AppendStep(p)
       \/ CheckBeforeUnlock(p) \/ WriteUnlocked(p)
       \/ Crash(p)
  \/ SelfTestLocks \/ OperatorRemovesLock \/ Rotate

Spec == Init /\ [][Next]_vars

(* append is synchronous code that spins, and the clock passes its deadline.  *)
Fairness ==
  \A p \in Process : WF_vars(AppendStep(p)) /\ SF_vars(GiveUp(p))

FairSpec == Spec /\ Fairness

-----------------------------------------------------------------------------
(* Properties.                                                             *)

\* Every variable has the shape its comment gives it; no hash is used that no
\* entry was given.
TypeOK ==
  /\ lines \in Seq([hash : 0..made, prev : 0..made])
  /\ closed \in BOOLEAN
  /\ lines = <<>> => closed
  /\ lockFile \in Process \cup {NoProcess}
  /\ made \in Nat
  /\ archived \subseteq 1..made
  /\ pc \in [Process -> Steps]
  /\ lastHash \in [Process -> 0..made]
  /\ prev \in [Process -> 0..made]
  /\ wrote \in [Process -> 0..made]
  /\ glued \subseteq Process
  /\ outcome \in [Process -> {"none", "written", "unwritten"}]
  /\ govLocked \in BOOLEAN
  /\ verified \in [Process -> 0..made]
  /\ damaged \in BOOLEAN

\* Whatever overlaps, fails or dies, and however often the oldest lines are
\* archived, the file stays linked from its first line to its last: only a torn
\* line, or a lock removed while its owner is at work, breaks it.
ChainIntact == ~damaged => LinkedFrom(1)

\* An append that returned a plain entry has it, readable, in exactly one place: on
\* one line of the file or in the archive, under every fault, two writers at once
\* included.  The one exception is an entry put on a last line that had been left
\* without its newline: neither can be read again, and the caller is not told.  One
\* that returned persisted: false has completed no line (the catch block that reports
\* the timeout also swallows what the critical section threw); a line it left without
\* a newline counts as torn.
OnceReadable(h) ==
  LET at == {i \in DOMAIN lines : lines[i].hash = h}
  IN  \/ h \in archived /\ at = {}
      \/ h \notin archived /\ \E i \in at : at = {i}

OutcomeHonest ==
  \A p \in Process :
    /\ outcome[p] = "written" => OnceReadable(wrote[p]) \/ p \in glued
    /\ outcome[p] = "unwritten" => wrote[p] = 0

\* What an unlock was decided on still stands when the lock file is written, however
\* the ledger has been extended, archived, torn or written by two at once since the
\* check: the last entry it verified is on disk, with everything in front of it
\* readable and linked from the first line of the file, or has gone to the archive.
\* (A last line without its newline verifies, and may be spoiled before the unlock.)
LinkedUpTo(n) ==
  \A i \in 1..n :
    /\ lines[i].hash # 0
    /\ i > 1 => lines[i].prev = lines[i - 1].hash

UnlockStillStands ==
  \A p \in Process :
    pc[p] = "unlocking" /\ verified[p] \notin archived \cup {0} =>
      \E n \in DOMAIN lines : lines[n].hash = verified[p] /\ LinkedUpTo(n)

\* A line that is unreadable or linked to the wrong predecessor is never healed
\* by what is appended later: until somebody archives it, verification from the
\* first line keeps failing.
BrokenStaysBroken ==
  [][~LinkedFrom(1) /\ Len(lines') >= Len(lines) => ~LinkedFrom(1)']_vars

\* Every append returns, written or not, unless its process dies.
AppendReturns ==
  \A p \in Process : pc[p] = "waiting" ~> pc[p] \in {"idle", "down"}

-----------------------------------------------------------------------------
(* The refinement: while no line is torn, no lock is taken from a process   *)
(* at work and nothing is archived, an entry is committed from the moment   *)
(* its line is in the file.  governance_unlock is a call that ends in an    *)
(* append, whatever it decides.                                             *)

AbstractStatus(p) ==
  IF pc[p] = "down" THEN "dead"
  ELSE IF pc[p] # "idle" THEN IF wrote[p] # 0 THEN "committed" ELSE "pending"
  ELSE IF outcome[p] = "written" THEN "ok"
  ELSE IF outcome[p] = "unwritten" THEN "timeout" ELSE "idle"

Abstract == INSTANCE AppendLog WITH
  Caller <- Process,
  Existing <- 0,
  log <- [i \in DOMAIN lines |-> lines[i].prev],
  status <- [p \in Process |-> AbstractStatus(p)]

\* The telemetry ledger behaves like the same atomic append-only log as the Kintsugi
\* record store (proved; the runs have the faults that it is not promised under).
ImplementsAppendLog == Abstract!LogSpec
=============================================================================
