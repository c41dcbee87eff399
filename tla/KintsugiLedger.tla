--------------------------- MODULE KintsugiLedger ---------------------------
(***************************************************************************)
(* The Kintsugi record ledger of core/kintsugi/memory.ts: one JSON file    *)
(* per record under ledger/records, each carrying the hash of the record   *)
(* before it, a chain-tip file naming the last record, and an exclusive    *)
(* lock file around "read the tip, write the record, move the tip".        *)
(*                                                                         *)
(* A caller is one recordRefusal/recordFailure call; callers live in the   *)
(* daemon, the CLI and the VS Code extension, which share the files.  The  *)
(* hash of a record is its position in `records`, so 0 stands for the      *)
(* absent prev_hash of a genesis record.                                   *)
(***************************************************************************)
EXTENDS Naturals, Sequences

CONSTANTS
  Caller,         \* the calls that can overlap
  NoCaller,       \* the lock file does not exist
  LegacyRecords,  \* records present before the chain-tip file was introduced
  Faults,         \* which environment faults occur, see FaultKinds
  MaxRecords,     \* bound: records written
  MaxTime         \* bound: the millisecond clock

FaultKinds ==
  {"record",      \* writing the record file throws, leaving nothing or a torn file
   "tip",         \* writing or renaming the chain-tip file throws
   "unlink",      \* removing the lock file throws (and is ignored)
   "crash",       \* the process dies
   "operator"}    \* somebody deletes a lock file whose owner is gone

ASSUME LedgerAssumption ==
  /\ NoCaller \notin Caller
  /\ LegacyRecords \in Nat
  /\ Faults \subseteq FaultKinds
  /\ MaxRecords \in Nat
  /\ MaxTime \in Nat

VARIABLES
  records,   \* the readable record files, in the order they were written
  torn,      \* timestamps of record files left half written (skipped by readers)
  tip,       \* lastRecordHash in chain-tip.json, 0 when there is no such file
  lockFile,  \* who created .ledger.lock, NoCaller when it does not exist
  clock,     \* Date.now()
  pc,        \* where each caller is in recordLedger/withLedgerLock
  ts,        \* the timestamp makeMfr/makeMrr put in the caller's record
  prev,      \* the prevHash the caller read inside the lock
  mine,      \* the hash of the record the caller wrote, 0 before it is written
  taken,     \* a file with the caller's record name exists
  outcome    \* what the caller's last call returned

vars == <<records, torn, tip, lockFile, clock, pc, ts, prev, mine, taken, outcome>>
callVars == <<ts, prev, mine, taken>>

\* "locked" .. "threw" are inside the lock; "caught" is the outer catch block.
Inside == {"locked", "linked", "written", "tipped", "threw"}
Steps  == Inside \cup {"idle", "waiting", "caught", "dead"}

Init ==
  /\ records = [i \in 1..LegacyRecords |-> [prev |-> i - 1, ts |-> 0]]
  /\ torn = {}
  /\ tip = 0
  /\ lockFile = NoCaller
  /\ clock = 0
  /\ pc = [c \in Caller |-> "idle"]
  /\ ts = [c \in Caller |-> 0]
  /\ prev = [c \in Caller |-> 0]
  /\ mine = [c \in Caller |-> 0]
  /\ taken = [c \in Caller |-> FALSE]
  /\ outcome = [c \in Caller |-> "idle"]

At(c, from, to) == pc[c] = from /\ pc' = [pc EXCEPT ![c] = to]

-----------------------------------------------------------------------------
(* makeMfr/makeMrr stamp the record before recordLedger asks for the lock. *)

Begin(c) ==
  /\ At(c, "idle", "waiting")
  /\ Len(records) < MaxRecords
  /\ ts' = [ts EXCEPT ![c] = clock]
  /\ mine' = [mine EXCEPT ![c] = 0]
  /\ taken' = [taken EXCEPT ![c] = FALSE]
  /\ outcome' = [outcome EXCEPT ![c] = "idle"]
  /\ UNCHANGED <<records, torn, tip, lockFile, clock, prev>>

\* Definitions named Bug_... are not part of the model: each changes the action
\* defined after it the way a plausible defect would, and is substituted for it
\* to show that a property notices.

\* Opening the lock file without the exclusive flag.
Bug_SharedLock(c) ==
  /\ At(c, "waiting", "locked")
  /\ lockFile' = c
  /\ UNCHANGED <<records, torn, tip, clock, callVars, outcome>>

\* Taking over a lock file whose owner is no longer running.
Bug_StealStaleLock(c) ==
  /\ lockFile \in {NoCaller} \cup {d \in Caller : pc[d] = "dead"}
  /\ At(c, "waiting", "locked")
  /\ lockFile' = c
  /\ UNCHANGED <<records, torn, tip, clock, callVars, outcome>>

\* fs.openSync(lockPath, "wx") creates the lock file ...
AcquireLock(c) ==
  /\ lockFile = NoCaller
  /\ At(c, "waiting", "locked")
  /\ lockFile' = c
  /\ UNCHANGED <<records, torn, tip, clock, callVars, outcome>>

\* ... or throws because it exists.
LockExists(c) ==
  /\ lockFile # NoCaller
  /\ At(c, "waiting", "caught")
  /\ UNCHANGED <<records, torn, tip, lockFile, clock, callVars, outcome>>

\* Returning the unpersisted record after the deadline, as core/ledger.ts does.
Bug_ReturnUnwritten(c) ==
  /\ At(c, "caught", "idle")
  /\ outcome' = [outcome EXCEPT ![c] = "ok"]
  /\ UNCHANGED <<records, torn, tip, lockFile, clock, callVars>>

\* No deadline in the catch block.
Bug_NoDeadline(c) == FALSE /\ UNCHANGED vars

\* The catch block: past the deadline it throws kintsugi_ledger_lock_timeout,
\* before it the loop goes round again -- whatever the exception was.
GiveUp(c) ==
  /\ At(c, "caught", "idle")
  /\ outcome' = [outcome EXCEPT ![c] = "timeout"]
  /\ UNCHANGED <<records, torn, tip, lockFile, clock, callVars>>

SpinAgain(c) ==
  /\ At(c, "caught", "waiting")
  /\ UNCHANGED <<records, torn, tip, lockFile, clock, callVars, outcome>>

-----------------------------------------------------------------------------
(* The critical section.                                                   *)

\* getLastLedgerRecordSync takes the greatest file name: the latest timestamp,
\* then a random UUID.  A half-written file found that way reads as undefined.
ScannedLast ==
  LET stamps == {records[i].ts : i \in DOMAIN records} \cup torn
      Latest(t) == \A u \in stamps : u <= t
  IN  IF stamps = {} THEN {0}
      ELSE {i \in DOMAIN records : Latest(records[i].ts)}
             \cup {0 : t \in {u \in torn : Latest(u)}}

\* Deriving the last record from the file names although there is a tip.
Bug_AlwaysScan(c) ==
  /\ At(c, "locked", "linked")
  /\ \E h \in ScannedLast : prev' = [prev EXCEPT ![c] = h]
  /\ UNCHANGED <<records, torn, tip, lockFile, clock, ts, mine, taken, outcome>>

ReadPrev(c) ==
  /\ At(c, "locked", "linked")
  /\ \E h \in IF tip # 0 THEN {tip} ELSE ScannedLast :
        prev' = [prev EXCEPT ![c] = h]
  /\ UNCHANGED <<records, torn, tip, lockFile, clock, ts, mine, taken, outcome>>

WriteRecord(c) ==
  /\ ~taken[c]
  /\ At(c, "linked", "written")
  /\ records' = Append(records, [prev |-> prev[c], ts |-> ts[c]])
  /\ mine' = [mine EXCEPT ![c] = Len(records) + 1]
  /\ taken' = [taken EXCEPT ![c] = TRUE]
  /\ UNCHANGED <<torn, tip, lockFile, clock, ts, prev, outcome>>

\* A retry finds the file of its first attempt: "Ledger collision".
Collide(c) ==
  /\ taken[c]
  /\ At(c, "linked", "threw")
  /\ UNCHANGED <<records, torn, tip, lockFile, clock, callVars, outcome>>

\* A half-written record file keeps its name and its timestamp.
LeaveTornFile(c) ==
  /\ torn' = torn \cup {ts[c]}
  /\ taken' = [taken EXCEPT ![c] = TRUE]

\* Ignoring the exception of the record write.
Bug_IgnoreWriteError(c) ==
  /\ "record" \in Faults
  /\ ~taken[c]
  /\ At(c, "linked", "tipped")
  /\ LeaveTornFile(c) \/ UNCHANGED <<torn, taken>>
  /\ UNCHANGED <<records, tip, lockFile, clock, ts, prev, mine, outcome>>

WriteRecordFails(c) ==
  /\ "record" \in Faults
  /\ ~taken[c]
  /\ At(c, "linked", "threw")
  /\ LeaveTornFile(c) \/ UNCHANGED <<torn, taken>>
  /\ UNCHANGED <<records, tip, lockFile, clock, ts, prev, mine, outcome>>

\* Publishing the hash the record links to instead of its own.
Bug_TipIsPrev(c) ==
  /\ At(c, "written", "tipped")
  /\ tip' = prev[c]
  /\ UNCHANGED <<records, torn, lockFile, clock, callVars, outcome>>

WriteChainTip(c) ==
  /\ At(c, "written", "tipped")
  /\ tip' = mine[c]
  /\ UNCHANGED <<records, torn, lockFile, clock, callVars, outcome>>

WriteChainTipFails(c) ==
  /\ "tip" \in Faults
  /\ At(c, "written", "threw")
  /\ UNCHANGED <<records, torn, tip, lockFile, clock, callVars, outcome>>

\* The finally block; an exception from unlinkSync is swallowed.
Unlock == lockFile' = NoCaller \/ ("unlink" \in Faults /\ UNCHANGED lockFile)

ReleaseAndReturn(c) ==
  /\ At(c, "tipped", "idle")
  /\ Unlock
  /\ outcome' = [outcome EXCEPT ![c] = "ok"]
  /\ UNCHANGED <<records, torn, tip, clock, callVars>>

ReleaseAndRethrow(c) ==
  /\ At(c, "threw", "caught")
  /\ Unlock
  /\ UNCHANGED <<records, torn, tip, clock, callVars, outcome>>

-----------------------------------------------------------------------------
(* The environment.                                                        *)

\* The process dies; nothing it holds on disk is cleaned up.
Crash(c) ==
  /\ "crash" \in Faults
  /\ pc[c] # "dead"
  /\ pc' = [pc EXCEPT ![c] = "dead"]
  /\ \/ pc[c] = "linked" /\ ~taken[c] /\ LeaveTornFile(c)
     \/ UNCHANGED <<torn, taken>>
  /\ UNCHANGED <<records, tip, lockFile, clock, ts, prev, mine, outcome>>

OperatorRemovesLock ==
  /\ "operator" \in Faults
  /\ lockFile # NoCaller
  /\ pc[lockFile] \notin Inside
  /\ lockFile' = NoCaller
  /\ UNCHANGED <<records, torn, tip, clock, pc, callVars, outcome>>

Tick ==
  /\ clock < MaxTime
  /\ clock' = clock + 1
  /\ UNCHANGED <<records, torn, tip, lockFile, pc, callVars, outcome>>

-----------------------------------------------------------------------------

CriticalSection(c) ==
  \/ ReadPrev(c) \/ WriteRecord(c) \/ Collide(c) \/ WriteRecordFails(c)
  \/ WriteChainTip(c) \/ WriteChainTipFails(c)
  \/ ReleaseAndReturn(c) \/ ReleaseAndRethrow(c)

RecordLedger(c) ==
  \/ AcquireLock(c) \/ LockExists(c) \/ SpinAgain(c) \/ GiveUp(c)
  \/ CriticalSection(c)

Next ==
  \/ \E c \in Caller : Begin(c) \/ RecordLedger(c) \/ Crash(c)
  \/ OperatorRemovesLock
  \/ Tick

Spec == Init /\ [][Next]_vars

(* A started call is synchronous code, so it keeps running; and the clock   *)
(* eventually passes the fixed deadline, after which every visit to the     *)
(* catch block throws.                                                      *)
Fairness ==
  \A c \in Caller : WF_vars(RecordLedger(c)) /\ SF_vars(GiveUp(c))

FairSpec == Spec /\ Fairness

-----------------------------------------------------------------------------
(* validateLedgerChain, one operator per warning it can raise.              *)

Genesis == {i \in DOMAIN records : records[i].prev = 0}
Children(h) == {i \in DOMAIN records : records[i].prev = h}

\* children?.[0]: the child whose file sorts first.
FirstChild(h) ==
  CHOOSE i \in Children(h) :
    \A j \in Children(h) : \/ records[i].ts < records[j].ts
                           \/ records[i].ts = records[j].ts /\ i <= j

\* The records the validator's walk from the genesis record visits.
Walked ==
  LET on[i \in DOMAIN records] ==
        \/ records[i].prev = 0
        \/ /\ records[i].prev \in 1..(i - 1)
           /\ on[records[i].prev]
           /\ FirstChild(records[i].prev) = i
  IN  {i \in DOMAIN records : on[i]}

OneGenesis  == records # <<>> => \E i \in DOMAIN records : Genesis = {i}
NoDangling  == \A i \in DOMAIN records : records[i].prev \in 0..Len(records)
NoFork      == \A h \in DOMAIN records : \A i, j \in Children(h) : i = j
AllReached  == (\E i \in DOMAIN records : Genesis = {i}) => Walked = DOMAIN records

-----------------------------------------------------------------------------
(* Properties.                                                              *)

RecordType == [prev : Nat, ts : Nat]

\* Every variable has the shape its comment gives it; in particular a hash that
\* is read, written or published as the tip always names a record on disk.
TypeOK ==
  /\ records \in Seq(RecordType)
  /\ torn \subseteq Nat
  /\ tip \in 0..Len(records)
  /\ lockFile \in Caller \cup {NoCaller}
  /\ clock \in Nat
  /\ pc \in [Caller -> Steps]
  /\ ts \in [Caller -> Nat]
  /\ prev \in [Caller -> 0..Len(records)]
  /\ mine \in [Caller -> 0..Len(records)]
  /\ taken \in [Caller -> BOOLEAN]
  /\ outcome \in [Caller -> {"idle", "ok", "timeout"}]

\* However calls overlap, and wherever one dies, the records on disk form a
\* chain: one genesis record, no dangling link, no two records linked to the
\* same one.  These are the fork checks of validateLedgerChain.
ChainIntact == OneGenesis /\ NoDangling /\ NoFork

\* validateLedgerChain's walk from the genesis record visits every record.
NothingOffChain == AllReached

\* A caller told "ok" has its record on disk, and it is linked; a caller told
\* that the lock timed out has written no record (withLedgerLock's catch block
\* cannot tell the two apart when the critical section itself throws).
OutcomeHonest ==
  \A c \in Caller :
    /\ outcome[c] = "ok" => mine[c] \in DOMAIN records
    /\ outcome[c] = "timeout" => mine[c] = 0

\* Once there is a chain tip, a record file that appears extends the record the
\* tip names at that instant: the hash read at the start of the critical section
\* is still the tip when the record is written, under every fault.
AppendExtendsTip ==
  [][(Len(records') > Len(records) /\ tip # 0)
       => records'[Len(records')].prev = tip]_vars

\* The chain tip only moves from a record to a record linked to it: no append
\* skips a record or goes back to one already extended.
TipFollowsChain ==
  [][tip' # tip => /\ tip' \in DOMAIN records'
                   /\ tip # 0 => records'[tip'].prev = tip]_vars

\* Once the process owning the lock file is dead the ledger is frozen: every
\* later call times out and no record or tip is written on top of what the dead
\* process may have left half done.
DeadOwnerFreezesLedger ==
  [][(lockFile # NoCaller /\ pc[lockFile] = "dead")
       => UNCHANGED <<records, tip, lockFile>>]_vars

\* Every call returns: it is never left spinning on the lock file.
EveryCallReturns ==
  \A c \in Caller : pc[c] = "waiting" ~> pc[c] \in {"idle", "dead"}

-----------------------------------------------------------------------------
(* The refinement: a call is committed from the moment its record file is   *)
(* complete, whether or not the chain tip has been moved.                   *)

AbstractStatus(c) ==
  IF pc[c] = "dead" THEN "dead"
  ELSE IF pc[c] = "idle" THEN outcome[c]
  ELSE IF mine[c] # 0 THEN "committed" ELSE "pending"

Abstract == INSTANCE AppendLog WITH
  Existing <- LegacyRecords,
  log <- [i \in DOMAIN records |-> records[i].prev],
  status <- [c \in Caller |-> AbstractStatus(c)]

\* The record store behaves like an atomic append-only log.
ImplementsAppendLog == Abstract!LogSpec
=============================================================================
