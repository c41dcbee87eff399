----------------------- MODULE TelemetryLedgerProofs ------------------------
(***************************************************************************)
(* Proofs about TelemetryLedger, for any number of processes and every     *)
(* fault.                                                                  *)
(*                                                                         *)
(* Counting holds under every fault: what a call wrote agrees with where   *)
(* it is.  So does Recorded: an entry whose line has its newline stays,    *)
(* readable, in one place, and what an unlock verified stays linked.       *)
(* Sound is what damage can break: whoever is inside the critical section  *)
(* owns the lock file, and the file goes on where the archive ends, entry  *)
(* by entry, up to the last hash that was made.                            *)
(***************************************************************************)
EXTENDS TelemetryLedger, TLAPS

Owned == \A p \in Process : pc[p] \in Inside => lockFile = p
gone == made - Len(lines)
Continues ==
  /\ gone \in Nat
  /\ \A i \in 1..Len(lines) :
       /\ lines[i].hash = gone + i
       /\ i > 1 => lines[i].prev = gone + i - 1
ReadLast ==
  \A p \in Process :
    pc[p] = "linked" /\ lines # <<>> => prev[p] = lines[Len(lines)].hash

Sound == ~damaged => closed /\ Owned /\ Continues /\ ReadLast

Counting ==
  \A p \in Process :
    /\ pc[p] \notin {"idle", "written"} => wrote[p] = 0
    /\ pc[p] = "written" => wrote[p] # 0
    /\ outcome[p] = "written" => wrote[p] # 0
    /\ outcome[p] = "unwritten" => wrote[p] = 0
    /\ pc[p] # "idle" => outcome[p] = "none"

Distinct ==
  \A i \in 1..Len(lines) :
    /\ lines[i].hash \notin archived
    /\ \A j \in 1..Len(lines) : lines[i].hash = lines[j].hash /\ lines[i].hash # 0 => i = j

Kept(n) == lines[n].hash # 0 /\ (n = Len(lines) => closed)
Present(h) == h \in archived \/ \E n \in 1..Len(lines) : Kept(n) /\ lines[n].hash = h
Standing(h) ==
  h \in archived \/ \E n \in 1..Len(lines) : Kept(n) /\ lines[n].hash = h /\ LinkedUpTo(n)

Recorded ==
  \A p \in Process :
    /\ wrote[p] # 0 /\ p \notin glued => Present(wrote[p])
    /\ pc[p] = "unlocking" /\ verified[p] # 0 => Standing(verified[p])

IInv == TypeOK /\ Sound /\ Counting /\ Distinct /\ Recorded

Line(n) == [hash : 0..n, prev : 0..n]

USE TelemetryAssumption DEF Inside, Steps

LEMMA NobodyIsNotAProcess == \A p \in Process : p # NoProcess
OBVIOUS

(* A file whose hashes are among the first n has them among the first m. *)
LEMMA MoreHashes ==
  ASSUME NEW n \in Nat, NEW m \in Nat, n <= m, NEW s \in Seq(Line(n))
  PROVE  s \in Seq(Line(m))
<1>1. Line(n) \subseteq Line(m)
  BY DEF Line
<1> QED
  BY <1>1

LEMMA LineFields ==
  ASSUME TypeOK, NEW i \in 1..Len(lines)
  PROVE  lines[i].hash \in 0..made /\ lines[i].prev \in 0..made
<1>1. lines \in Seq(Line(made))
  BY DEF TypeOK, Line
<1>2. lines[i] \in Line(made)
  BY <1>1
<1> QED
  BY <1>2 DEF Line

LEMMA TailHashType == TypeOK => TailHash \in 0..made
<1>1. CASE lines = <<>>
  BY <1>1 DEF TailHash, TypeOK
<1>2. CASE lines # <<>>
  <2>1. TypeOK => Len(lines) \in 1..Len(lines)
    BY <1>2 DEF TypeOK
  <2> QED
    BY <1>2, <2>1, LineFields DEF TailHash
<1> QED
  BY <1>1, <1>2

LEMMA LastClosedType == TypeOK => LastClosed \in 0..made
<1> SUFFICES ASSUME TypeOK PROVE LastClosed \in 0..made
  OBVIOUS
<1> DEFINE n == IF closed THEN Len(lines) ELSE Len(lines) - 1
<1>1. n > 0 => n \in 1..Len(lines)
  BY DEF TypeOK
<1>2. CASE n > 0
  BY <1>1, <1>2, LineFields DEF LastClosed
<1>3. CASE ~(n > 0)
  BY <1>3 DEF LastClosed, TypeOK
<1> QED
  BY <1>2, <1>3

(* What an append makes of the file. *)
LEMMA PutFacts ==
  ASSUME NEW n \in Nat, lines \in Seq(Line(n)), closed \in BOOLEAN, lines = <<>> => closed,
         NEW line \in Line(n)
  PROVE  /\ Put(line) \in Seq(Line(n))
         /\ Put(line) # <<>>
         /\ Len(Put(line)) >= Len(lines)
         /\ closed => /\ Len(Put(line)) = Len(lines) + 1
                      /\ Put(line)[Len(lines) + 1] = line
                      /\ \A i \in 1..Len(lines) : Put(line)[i] = lines[i]
         /\ ~closed => /\ Len(Put(line)) = Len(lines)
                       /\ \A i \in 1..Len(lines) :
                            Put(line)[i] = IF i = Len(lines) THEN Garbage ELSE lines[i]
<1>1. CASE closed
  BY <1>1 DEF Put
<1>2. CASE ~closed
  <2>1. Len(lines) \in 1..Len(lines) /\ lines # <<>>
    BY <1>2
  <2>2. Garbage \in Line(n)
    BY DEF Garbage, Line
  <2>3. [lines EXCEPT ![Len(lines)] = Garbage] \in Seq(Line(n))
    BY <2>1, <2>2
  <2>4. Len([lines EXCEPT ![Len(lines)] = Garbage]) = Len(lines)
    BY <2>1
  <2>5. Put(line) = [lines EXCEPT ![Len(lines)] = Garbage]
    BY <1>2 DEF Put
  <2>6. Len(Put(line)) > 0 /\ Put(line) # <<>>
    BY <2>1, <2>3, <2>4, <2>5
  <2>7. Put(line) \in Seq(Line(n))
    BY <2>3, <2>5
  <2>8. Len(Put(line)) >= Len(lines)
    BY <2>1, <2>4, <2>5
  <2>9. \A i \in 1..Len(lines) :
          Put(line)[i] = IF i = Len(lines) THEN Garbage ELSE lines[i]
    BY <2>5
  <2>10. Len(Put(line)) = Len(lines)
    BY <2>4, <2>5
  <2> QED
    BY <1>2, <2>6, <2>7, <2>8, <2>9, <2>10
<1> QED
  BY <1>1, <1>2

(* What LeaveTornLine leaves behind. *)
LEMMA TornFacts ==
  ASSUME TypeOK, NEW p \in Process, LeaveTornLine(p)
  PROVE  /\ made' \in Nat /\ made <= made'
         /\ lines' \in Seq(Line(made')) /\ lines' # <<>>
         /\ closed' = FALSE /\ damaged' = TRUE /\ archived' = archived
<1>1. lines \in Seq(Line(made)) /\ made \in Nat
  BY DEF TypeOK, Line
<1>2. CASE lines' = Put(Garbage) /\ UNCHANGED made
  <2>1. Garbage \in Line(made)
    BY <1>1 DEF Garbage, Line
  <2> QED
    BY <1>1, <1>2, <2>1, PutFacts DEF LeaveTornLine, TypeOK
<1>3. CASE lines' = Put(Entry(p)) /\ made' = made + 1 /\ made < MaxAppends
  <2>1. Entry(p) \in Line(made + 1)
    BY <1>1 DEF Entry, Line, TypeOK
  <2>2. lines \in Seq(Line(made + 1))
    BY <1>1, MoreHashes
  <2> QED
    BY <1>1, <1>3, <2>1, <2>2, PutFacts DEF LeaveTornLine, TypeOK
<1> QED
  BY <1>2, <1>3 DEF LeaveTornLine

(* What AppendLine adds. *)
LEMMA AppendFacts ==
  ASSUME TypeOK, NEW p \in Process, AppendLine(p)
  PROVE  /\ made' = made + 1 /\ made' \in Nat /\ archived' = archived
         /\ lines' \in Seq(Line(made')) /\ lines' # <<>> /\ closed' = TRUE
         /\ closed => /\ Len(lines') = Len(lines) + 1
                      /\ lines'[Len(lines) + 1] = [hash |-> made + 1, prev |-> prev[p]]
                      /\ \A i \in 1..Len(lines) : lines'[i] = lines[i]
<1>1. lines \in Seq(Line(made)) /\ made \in Nat /\ closed \in BOOLEAN /\ (lines = <<>> => closed)
  BY DEF TypeOK, Line
<1>2. Entry(p) \in Line(made + 1) /\ Entry(p) = [hash |-> made + 1, prev |-> prev[p]]
  BY <1>1 DEF Entry, Line, TypeOK
<1>3. lines \in Seq(Line(made + 1))
  BY <1>1, MoreHashes
<1> QED
  BY <1>1, <1>2, <1>3, PutFacts DEF AppendLine

LEMMA InitInv == Init => IInv
<1> SUFFICES ASSUME Init PROVE IInv
  OBVIOUS
<1>1. TypeOK
  <2>1. lines \in Seq([hash : 0..made, prev : 0..made])
    BY DEF Init
  <2>2. verified \in [Process -> 0..made] /\ glued \subseteq Process
    BY DEF Init
  <2>3. /\ made = 0 /\ pc \in [Process -> Steps] /\ lastHash \in [Process -> 0..0]
        /\ prev \in [Process -> 0..0] /\ wrote \in [Process -> 0..0]
        /\ outcome \in [Process -> {"none", "written", "unwritten"}]
    BY DEF Init
  <2>4. /\ closed \in BOOLEAN /\ (lines = <<>> => closed) /\ lockFile \in Process \cup {NoProcess}
        /\ made \in Nat /\ archived \subseteq 1..made /\ govLocked \in BOOLEAN /\ damaged \in BOOLEAN
    BY DEF Init
  <2>5. /\ lastHash \in [Process -> 0..made] /\ prev \in [Process -> 0..made]
        /\ wrote \in [Process -> 0..made]
    BY <2>3
  <2> QED
    BY <2>1, <2>2, <2>3, <2>4, <2>5, Zenon DEF TypeOK
<1>2. Sound
  BY DEF Init, Sound, Owned, Continues, gone, ReadLast
<1>3. Counting /\ Distinct /\ Recorded
  BY DEF Init, Counting, Distinct, Recorded
<1> QED
  BY <1>1, <1>2, <1>3 DEF IInv

-----------------------------------------------------------------------------
(* Types.                                                                  *)

LEMMA TypeStep == TypeOK /\ [Next]_vars => TypeOK'
<1> SUFFICES ASSUME TypeOK, [Next]_vars PROVE TypeOK'
  OBVIOUS
<1>0. lines \in Seq(Line(made)) /\ (TypeOK' <=> 
        /\ lines' \in Seq(Line(made')) /\ closed' \in BOOLEAN /\ (lines' = <<>> => closed')
        /\ lockFile' \in Process \cup {NoProcess} /\ made' \in Nat /\ archived' \subseteq 1..made'
        /\ pc' \in [Process -> Steps] /\ lastHash' \in [Process -> 0..made']
        /\ prev' \in [Process -> 0..made'] /\ wrote' \in [Process -> 0..made']
        /\ outcome' \in [Process -> {"none", "written", "unwritten"}]
        /\ govLocked' \in BOOLEAN /\ glued' \subseteq Process
        /\ verified' \in [Process -> 0..made'] /\ damaged' \in BOOLEAN)
  BY DEF TypeOK, Line
<1>1. CASE UNCHANGED vars
  BY <1>1 DEF TypeOK, vars
<1>2. ASSUME NEW p \in Process, Start(p) PROVE TypeOK'
  <2>1. TailHash \in 0..made
    BY TailHashType
  <2> QED
    BY <1>2, <2>1 DEF Start, At, fileVars, unlockVars, TypeOK
<1>3. ASSUME NEW p \in Process, Call(p) PROVE TypeOK'
  BY <1>3 DEF Call, NewCall, At, fileVars, unlockVars, TypeOK
<1>4. ASSUME NEW p \in Process, AppendStep(p) PROVE TypeOK'
  <2>1. CASE AcquireLock(p) \/ LockExists(p) \/ SpinAgain(p) \/ GiveUp(p) \/ AppendFails(p)
    BY <2>1 DEF AcquireLock, LockExists, SpinAgain, GiveUp, AppendFails, At, fileVars, callVars,
                unlockVars, TypeOK
  <2>2. CASE ReadTail(p)
    <3>1. TailHash \in 0..made
      BY TailHashType
    <3> QED
      BY <2>2, <3>1 DEF ReadTail, At, fileVars, unlockVars, TypeOK
  <2>3. CASE AppendLine(p)
    <3>1. /\ lines' \in Seq(Line(made')) /\ closed' = TRUE /\ made' \in Nat /\ made' = made + 1
          /\ archived' = archived
      BY <2>3, AppendFacts
    <3>2. /\ made \in Nat /\ 0..made \subseteq 0..made' /\ 1..made \subseteq 1..made'
          /\ made + 1 \in 0..made'
      BY <3>1 DEF TypeOK
    <3> QED
      BY <2>3, <3>1, <3>2, <1>0 DEF AppendLine, At, unlockVars, TypeOK
  <2>4. CASE AppendTorn(p)
    <3>1. /\ lines' \in Seq(Line(made')) /\ lines' # <<>> /\ closed' = FALSE /\ made' \in Nat
          /\ made <= made' /\ archived' = archived /\ damaged' = TRUE
      BY <2>4, TornFacts DEF AppendTorn
    <3>2. made \in Nat /\ 0..made \subseteq 0..made' /\ 1..made \subseteq 1..made'
      BY <3>1 DEF TypeOK
    <3> QED
      BY <2>4, <3>1, <3>2, <1>0 DEF AppendTorn, At, callVars, unlockVars, TypeOK
  <2>5. CASE Return(p) \/ Rethrow(p)
    <3>1. 0 \in 0..made
      BY DEF TypeOK
    <3>2. lockFile' \in Process \cup {NoProcess}
      BY <2>5 DEF Return, Rethrow, RemoveLock, TypeOK
    <3>3. CASE Return(p)
      BY <3>1, <3>2, <3>3 DEF Return, At, fileVars, unlockVars, TypeOK
    <3>4. CASE Rethrow(p)
      BY <3>1, <3>2, <3>4 DEF Rethrow, At, fileVars, unlockVars, TypeOK
    <3> QED
      BY <2>5, <3>3, <3>4
  <2> QED
    BY <1>4, <2>1, <2>2, <2>3, <2>4, <2>5 DEF AppendStep
<1>5. ASSUME NEW p \in Process, CheckBeforeUnlock(p) PROVE TypeOK'
  <2>1. pc' \in [Process -> Steps]
    BY <1>5 DEF CheckBeforeUnlock, Decide, TypeOK
  <2>2. verified' \in [Process -> 0..made]
    <3>1. verified' = verified \/ verified' = [verified EXCEPT ![p] = LastClosed]
      BY <1>5, Zenon DEF CheckBeforeUnlock, Decide
    <3>2. LastClosed \in 0..made
      BY LastClosedType
    <3> QED
      BY <3>1, <3>2 DEF TypeOK
  <2>3. /\ wrote' \in [Process -> 0..made] /\ glued' \subseteq Process
        /\ outcome' \in [Process -> {"none", "written", "unwritten"}]
    BY <1>5 DEF CheckBeforeUnlock, NewCall, TypeOK
  <2>4. /\ lines' = lines /\ closed' = closed /\ made' = made /\ archived' = archived
        /\ lockFile' = lockFile /\ lastHash' = lastHash /\ prev' = prev
        /\ govLocked' = govLocked /\ damaged' = damaged
    BY <1>5 DEF CheckBeforeUnlock, fileVars
  <2> QED
    BY <2>1, <2>2, <2>3, <2>4, Zenon DEF TypeOK
<1>6. ASSUME NEW p \in Process, WriteUnlocked(p) PROVE TypeOK'
  <2>1. pc' \in [Process -> Steps] /\ verified' \in [Process -> 0..made]
    BY <1>6 DEF WriteUnlocked, At, TypeOK
  <2>2. govLocked' \in BOOLEAN
    BY <1>6 DEF WriteUnlocked
  <2>3. /\ lines' = lines /\ closed' = closed /\ made' = made /\ archived' = archived
        /\ lockFile' = lockFile /\ lastHash' = lastHash /\ prev' = prev /\ wrote' = wrote
        /\ glued' = glued /\ outcome' = outcome /\ damaged' = damaged
    BY <1>6 DEF WriteUnlocked, fileVars, callVars
  <2> QED
    BY <2>1, <2>2, <2>3, Zenon DEF TypeOK
<1>7. ASSUME NEW p \in Process, Crash(p) PROVE TypeOK'
  <2>1. /\ lines' \in Seq(Line(made')) /\ closed' \in BOOLEAN /\ (lines' = <<>> => closed')
        /\ made' \in Nat /\ made <= made' /\ archived' = archived /\ damaged' \in BOOLEAN
    <3>1. CASE LeaveTornLine(p)
      BY <3>1, TornFacts DEF TypeOK
    <3>2. CASE UNCHANGED <<fileVars, damaged>>
      BY <3>2, <1>0 DEF fileVars, TypeOK
    <3> QED
      BY <1>7, <3>1, <3>2 DEF Crash
  <2>2. /\ made \in Nat /\ 0..made \subseteq 0..made' /\ 1..made \subseteq 1..made'
        /\ 0 \in 0..made'
    BY <2>1 DEF TypeOK
  <2> QED
    BY <1>7, <2>1, <2>2, <1>0 DEF Crash, TypeOK
<1>8. CASE SelfTestLocks
  BY <1>8 DEF SelfTestLocks, fileVars, callVars, TypeOK
<1>9. CASE OperatorRemovesLock
  BY <1>9 DEF OperatorRemovesLock, fileVars, callVars, unlockVars, TypeOK
<1>10. CASE Rotate
  <2>1. PICK n \in DOMAIN lines :
          /\ lines' = SubSeq(lines, n + 1, Len(lines))
          /\ closed' = (closed \/ n = Len(lines))
          /\ archived' = archived \cup ({lines[i].hash : i \in 1..n} \ {0})
    BY <1>10 DEF Rotate
  <2>2. n \in 1..Len(lines) /\ Len(lines) \in Nat
    BY DEF TypeOK
  <2>3. lines' \in Seq(Line(made))
    BY <2>1, <2>2, <1>0
  <2>4. lines' = <<>> => closed'
    <3>1. n # Len(lines) => Len(lines') = Len(lines) - n /\ Len(lines) - n > 0
      BY <2>1, <2>2, <1>0
    <3>2. n # Len(lines) => lines' # <<>>
      BY <3>1
    <3> QED
      BY <3>2, <2>1
  <2>5. archived' \subseteq 1..made
    <3>1. \A i \in 1..n : i \in 1..Len(lines)
      BY <2>2
    <3>2. \A i \in 1..n : lines[i].hash \in 0..made
      BY <3>1, LineFields
    <3>3. ASSUME NEW i \in 1..n, lines[i].hash # 0 PROVE lines[i].hash \in 1..made
      BY <3>2, <3>3 DEF TypeOK
    <3>4. archived \subseteq 1..made
      BY DEF TypeOK
    <3> QED
      BY <2>1, <3>3, <3>4
  <2>6. closed' \in BOOLEAN
    BY <2>1, Zenon DEF TypeOK
  <2> QED
    BY <1>10, <1>0, <2>3, <2>4, <2>5, <2>6 DEF Rotate, callVars, unlockVars, TypeOK
<1> QED
  BY <1>1, <1>2, <1>3, <1>4, <1>5, <1>6, <1>7, <1>8, <1>9, <1>10 DEF Next

-----------------------------------------------------------------------------
(* What a call wrote, where it is, and what an unlock has verified.        *)

LEMMA CountStep == TypeOK /\ Counting /\ [Next]_vars => Counting'
<1> SUFFICES ASSUME TypeOK, Counting, [Next]_vars PROVE Counting'
  OBVIOUS
<1> USE DEF Counting, TypeOK
<1>1. CASE UNCHANGED vars
  BY <1>1 DEF vars
<1>2. ASSUME NEW p \in Process, Start(p) PROVE Counting'
  BY <1>2 DEF Start, At
<1>3. ASSUME NEW p \in Process, Call(p) PROVE Counting'
  BY <1>3 DEF Call, NewCall, At
<1>4. ASSUME NEW p \in Process, AppendStep(p) PROVE Counting'
  <2>1. CASE AcquireLock(p) \/ LockExists(p) \/ SpinAgain(p)
    BY <2>1 DEF AcquireLock, LockExists, SpinAgain, At, callVars
  <2>2. CASE GiveUp(p)
    BY <2>2 DEF GiveUp, At
  <2>3. CASE ReadTail(p)
    BY <2>3 DEF ReadTail, At
  <2>4. CASE AppendLine(p)
    <3>1. made + 1 # 0
      BY DEF TypeOK
    <3> QED
      BY <2>4, <3>1 DEF AppendLine, At
  <2>5. CASE AppendFails(p) \/ AppendTorn(p)
    BY <2>5 DEF AppendFails, AppendTorn, At, callVars
  <2>6. CASE Return(p) \/ Rethrow(p)
    BY <2>6 DEF Return, Rethrow, At
  <2> QED
    BY <1>4, <2>1, <2>2, <2>3, <2>4, <2>5, <2>6 DEF AppendStep
<1>5. ASSUME NEW p \in Process, CheckBeforeUnlock(p) PROVE Counting'
  BY <1>5 DEF CheckBeforeUnlock, Decide, NewCall
<1>6. ASSUME NEW p \in Process, WriteUnlocked(p) PROVE Counting'
  BY <1>6 DEF WriteUnlocked, At, callVars
<1>7. ASSUME NEW p \in Process, Crash(p) PROVE Counting'
  BY <1>7 DEF Crash
<1>8. CASE SelfTestLocks \/ OperatorRemovesLock \/ Rotate
  <2>1. pc' = pc /\ wrote' = wrote /\ outcome' = outcome
    BY <1>8 DEF SelfTestLocks, OperatorRemovesLock, Rotate, callVars
  <2> QED
    BY <2>1, Zenon
<1> QED
  BY <1>1, <1>2, <1>3, <1>4, <1>5, <1>6, <1>7, <1>8 DEF Next

(* How a step changes the file. *)
Puts(line) ==
  /\ line \in Line(made + 1)
  /\ line.hash \in {0, made + 1} /\ line.hash <= made' /\ made <= made'
  /\ lines' = Put(line)
  /\ closed' = FALSE \/ closed' = TRUE
  /\ archived' = archived

LEMMA EntryPuts ==
  ASSUME TypeOK, NEW p \in Process, AppendLine(p)
  PROVE  Puts(Entry(p))
<1>1. Entry(p) \in Line(made + 1) /\ Entry(p).hash = made + 1 /\ made \in Nat
  BY DEF Entry, Line, TypeOK
<1> QED
  BY <1>1 DEF AppendLine, Puts

LEMMA TornPuts ==
  ASSUME TypeOK, NEW p \in Process, LeaveTornLine(p)
  PROVE  \E line : Puts(line)
<1>1. Entry(p) \in Line(made + 1) /\ Entry(p).hash = made + 1 /\ made \in Nat
  BY DEF Entry, Line, TypeOK
<1>2. Garbage \in Line(made + 1) /\ Garbage.hash = 0
  BY <1>1 DEF Garbage, Line
<1>3. CASE lines' = Put(Garbage) /\ UNCHANGED made
  BY <1>1, <1>2, <1>3 DEF LeaveTornLine, Puts
<1>4. CASE lines' = Put(Entry(p)) /\ made' = made + 1
  BY <1>1, <1>4 DEF LeaveTornLine, Puts
<1> QED
  BY <1>3, <1>4 DEF LeaveTornLine

LEMMA FileChanges ==
  ASSUME TypeOK, [Next]_vars
  PROVE  UNCHANGED fileVars \/ Rotate \/ \E line : Puts(line)
<1>1. \/ UNCHANGED fileVars \/ Rotate
      \/ \E p \in Process : AppendLine(p) \/ LeaveTornLine(p)
  BY DEF Next, AppendStep, vars, fileVars, Start, Call, AcquireLock, LockExists, SpinAgain, GiveUp,
         ReadTail, AppendFails, AppendTorn, Return, Rethrow, CheckBeforeUnlock, WriteUnlocked,
         Crash, SelfTestLocks, OperatorRemovesLock
<1> QED
  BY <1>1, EntryPuts, TornPuts

(* What follows an archiving of the first n lines. *)
LEMMA RotateFacts ==
  ASSUME TypeOK, Rotate
  PROVE  /\ made' = made
         /\ \E n \in 1..Len(lines) :
              /\ Len(lines') = Len(lines) - n
              /\ \A i \in 1..(Len(lines) - n) : lines'[i] = lines[i + n]
              /\ closed' = (closed \/ n = Len(lines))
              /\ archived' = archived \cup ({lines[i].hash : i \in 1..n} \ {0})
<1>1. PICK n \in DOMAIN lines :
        /\ lines' = SubSeq(lines, n + 1, Len(lines))
        /\ closed' = (closed \/ n = Len(lines))
        /\ archived' = archived \cup ({lines[i].hash : i \in 1..n} \ {0})
  BY DEF Rotate
<1>2. n \in 1..Len(lines) /\ Len(lines) \in Nat /\ lines \in Seq(Line(made))
  BY DEF TypeOK, Line
<1>3. /\ Len(lines') = Len(lines) - n
      /\ \A i \in 1..(Len(lines) - n) : lines'[i] = lines[i + n]
  BY <1>1, <1>2
<1> QED
  BY <1>1, <1>2, <1>3 DEF Rotate

LEMMA PutsFacts ==
  ASSUME TypeOK, NEW line, Puts(line)
  PROVE  /\ closed => /\ Len(lines') = Len(lines) + 1
                      /\ lines'[Len(lines) + 1] = line
                      /\ \A i \in 1..Len(lines) : lines'[i] = lines[i]
         /\ ~closed => /\ Len(lines') = Len(lines)
                       /\ \A i \in 1..Len(lines) :
                            lines'[i] = IF i = Len(lines) THEN Garbage ELSE lines[i]
<1>1. lines \in Seq(Line(made)) /\ made \in Nat
  BY DEF TypeOK, Line
<1>2. lines \in Seq(Line(made + 1))
  BY <1>1, MoreHashes
<1>3. closed \in BOOLEAN /\ (lines = <<>> => closed) /\ line \in Line(made + 1) /\ lines' = Put(line)
  BY DEF Puts, TypeOK
<1>4. made + 1 \in Nat
  BY <1>1
<1>5. CASE closed
  BY <1>2, <1>3, <1>4, <1>5, PutFacts
<1>6. CASE ~closed
  BY <1>2, <1>3, <1>4, <1>6, PutFacts
<1> QED
  BY <1>5, <1>6

(* No entry is in two places. *)
LEMMA DistinctStep == TypeOK /\ Distinct /\ [Next]_vars => Distinct'
<1> SUFFICES ASSUME TypeOK, Distinct, [Next]_vars PROVE Distinct'
  OBVIOUS
<1>a. Len(lines) \in Nat /\ made \in Nat /\ archived \subseteq 1..made
  BY DEF TypeOK
<1>b. \A i \in 1..Len(lines) : lines[i].hash \in 0..made
  BY LineFields
<1>1. CASE UNCHANGED fileVars
  BY <1>1 DEF fileVars, Distinct
<1>2. CASE Rotate
  <2>1. PICK n \in 1..Len(lines) :
          /\ Len(lines') = Len(lines) - n
          /\ \A i \in 1..(Len(lines) - n) : lines'[i] = lines[i + n]
          /\ archived' = archived \cup ({lines[i].hash : i \in 1..n} \ {0})
    BY <1>2, RotateFacts
  <2>2. \A i \in 1..Len(lines') : i + n \in 1..Len(lines) /\ lines'[i] = lines[i + n]
    BY <1>a, <2>1
  <2>3. ASSUME NEW i \in 1..Len(lines') PROVE lines'[i].hash \notin archived'
    <3>1. ASSUME NEW k \in 1..n, lines[k].hash = lines[i + n].hash, lines[k].hash # 0
          PROVE  FALSE
      <4>1. k \in 1..Len(lines) /\ k # i + n
        BY <1>a, <2>1
      <4> QED
        BY <2>2, <3>1, <4>1 DEF Distinct
    <3>2. lines[i + n].hash \notin archived
      BY <2>2 DEF Distinct
    <3> QED
      BY <2>1, <2>2, <3>1, <3>2
  <2>4. ASSUME NEW i \in 1..Len(lines'), NEW j \in 1..Len(lines'),
               lines'[i].hash = lines'[j].hash, lines'[i].hash # 0
        PROVE  i = j
    <3>1. i + n = j + n
      BY <2>2, <2>4 DEF Distinct
    <3> QED
      BY <1>a, <2>1, <3>1
  <2> QED
    BY <2>3, <2>4 DEF Distinct
<1>3. ASSUME NEW line, Puts(line) PROVE Distinct'
  <2>0. archived' = archived /\ line.hash \in {0, made + 1} /\ Garbage.hash = 0
    BY <1>3 DEF Puts, Garbage
  <2>1. CASE closed
    <3>1. /\ Len(lines') = Len(lines) + 1
          /\ lines'[Len(lines) + 1] = line
          /\ \A i \in 1..Len(lines) : lines'[i] = lines[i]
      BY <1>3, <2>1, PutsFacts
    <3>2. \A i \in 1..Len(lines') : i \in 1..Len(lines) \/ i = Len(lines) + 1
      BY <1>a, <3>1
    <3> QED
      BY <1>a, <1>b, <2>0, <3>1, <3>2 DEF Distinct
  <2>2. CASE ~closed
    <3>1. /\ Len(lines') = Len(lines)
          /\ \A i \in 1..Len(lines) :
               lines'[i] = IF i = Len(lines) THEN Garbage ELSE lines[i]
      BY <1>3, <2>2, PutsFacts
    <3> QED
      BY <1>a, <1>b, <2>0, <3>1 DEF Distinct
  <2> QED
    BY <2>1, <2>2
<1> QED
  BY <1>1, <1>2, <1>3, FileChanges

(* A line that has its newline is never touched again, only archived. *)
LEMMA LineStays ==
  ASSUME TypeOK, [Next]_vars, NEW n \in 1..Len(lines), Kept(n)
  PROVE  \/ lines[n].hash \in archived'
         \/ \E m \in 1..Len(lines') :
              Kept(m)' /\ lines'[m].hash = lines[n].hash /\ (LinkedUpTo(n) => LinkedUpTo(m)')
<1>a. Len(lines) \in Nat
  BY DEF TypeOK
<1>1. CASE UNCHANGED fileVars
  <2>1. Kept(n)' /\ lines'[n].hash = lines[n].hash /\ (LinkedUpTo(n) => LinkedUpTo(n)')
    BY <1>1 DEF fileVars, Kept, LinkedUpTo
  <2> QED
    BY <1>1, <2>1 DEF fileVars
<1>2. CASE Rotate
  <2>1. PICK k \in 1..Len(lines) :
          /\ Len(lines') = Len(lines) - k
          /\ \A i \in 1..(Len(lines) - k) : lines'[i] = lines[i + k]
          /\ closed' = (closed \/ k = Len(lines))
          /\ archived' = archived \cup ({lines[i].hash : i \in 1..k} \ {0})
    BY <1>2, RotateFacts
  <2>2. CASE n <= k
    <3>1. n \in 1..k
      BY <2>2
    <3> QED
      BY <2>1, <3>1 DEF Kept
  <2>3. CASE ~(n <= k)
    <3>1. n - k \in 1..Len(lines') /\ lines'[n - k] = lines[n]
      <4>1. n - k \in 1..(Len(lines) - k) /\ (n - k) + k = n
        BY <1>a, <2>3
      <4>2. lines'[n - k] = lines[(n - k) + k]
        BY <2>1, <4>1
      <4> QED
        BY <1>a, <2>1, <4>1, <4>2
    <3>2. n - k = Len(lines') => n = Len(lines)
      <4>1. Len(lines') = Len(lines) - k /\ k \in Nat /\ n \in Nat
        BY <1>a, <2>1
      <4> QED
        BY <1>a, <4>1
    <3>3. Kept(n - k)'
      <4>1. n = Len(lines) => closed'
        BY <2>1, Zenon DEF Kept
      <4> QED
        BY <3>1, <3>2, <4>1 DEF Kept
    <3>4. ASSUME LinkedUpTo(n), NEW i \in 1..(n - k)
          PROVE  lines'[i].hash # 0 /\ (i > 1 => lines'[i].prev = lines'[i - 1].hash)
      <4>1. i + k \in 1..n /\ i + k > 1 /\ lines'[i] = lines[i + k]
        BY <1>a, <2>1
      <4>2. i > 1 => lines'[i - 1] = lines[(i + k) - 1]
        BY <1>a, <2>1
      <4> QED
        BY <3>4, <4>1, <4>2 DEF LinkedUpTo
    <3> QED
      BY <3>1, <3>3, <3>4 DEF LinkedUpTo
  <2> QED
    BY <2>2, <2>3
<1>3. ASSUME NEW line, Puts(line)
      PROVE  /\ n \in 1..Len(lines') /\ Kept(n)' /\ lines'[n].hash = lines[n].hash
             /\ LinkedUpTo(n) => LinkedUpTo(n)'
  <2>1. CASE closed
    <3>1. /\ Len(lines') = Len(lines) + 1
          /\ \A i \in 1..Len(lines) : lines'[i] = lines[i]
      BY <1>3, <2>1, PutsFacts
    <3>2. n \in 1..Len(lines') /\ n # Len(lines')
      BY <1>a, <3>1
    <3>3. \A i \in 1..n : lines'[i] = lines[i] /\ (i > 1 => lines'[i - 1] = lines[i - 1])
      BY <1>a, <3>1
    <3> QED
      BY <3>1, <3>2, <3>3 DEF Kept, LinkedUpTo
  <2>2. CASE ~closed
    <3>1. /\ Len(lines') = Len(lines)
          /\ \A i \in 1..Len(lines) :
               lines'[i] = IF i = Len(lines) THEN Garbage ELSE lines[i]
      BY <1>3, <2>2, PutsFacts
    <3>2. n # Len(lines)
      BY <2>2 DEF Kept
    <3>3. \A i \in 1..n : lines'[i] = lines[i] /\ (i > 1 => lines'[i - 1] = lines[i - 1])
      BY <1>a, <3>1, <3>2
    <3> QED
      BY <3>1, <3>2, <3>3 DEF Kept, LinkedUpTo
  <2> QED
    BY <2>1, <2>2
<1> QED
  BY <1>1, <1>2, <1>3, FileChanges

LEMMA ArchiveGrows ==
  ASSUME TypeOK, [Next]_vars PROVE archived \subseteq archived'
<1>1. CASE Rotate
  BY <1>1, RotateFacts
<1> QED
  BY <1>1, FileChanges DEF fileVars, Puts

LEMMA PresentStays ==
  ASSUME TypeOK, [Next]_vars, NEW h, Present(h) PROVE Present(h)'
BY LineStays, ArchiveGrows DEF Present

LEMMA StandingStays ==
  ASSUME TypeOK, [Next]_vars, NEW h, Standing(h) PROVE Standing(h)'
BY LineStays, ArchiveGrows DEF Standing

(* An entry put on a line of its own is there. *)
LEMMA AppendPresent ==
  ASSUME TypeOK, NEW p \in Process, AppendLine(p), closed, NEW h, h = made + 1
  PROVE  Present(h)'
<1>1. /\ Len(lines') = Len(lines) + 1 /\ closed' = TRUE /\ made \in Nat /\ Len(lines) \in Nat
      /\ lines'[Len(lines) + 1] = [hash |-> made + 1, prev |-> prev[p]]
  <2>1. made \in Nat /\ Len(lines) \in Nat
    BY DEF TypeOK
  <2> QED
    BY <2>1, AppendFacts
<1>2. PICK n \in 1..Len(lines') : n = Len(lines) + 1
  BY <1>1
<1>3. lines'[n].hash = h /\ h # 0
  BY <1>1, <1>2
<1>4. Kept(n)'
  BY <1>1, <1>3 DEF Kept
<1> QED
  BY <1>3, <1>4 DEF Present

(* What the check has read up to the last newline stands. *)
LEMMA CheckStands ==
  ASSUME TypeOK, LinkedFrom(1), LastClosed # 0
  PROVE  Standing(LastClosed)
<1> DEFINE n == IF closed THEN Len(lines) ELSE Len(lines) - 1
<1>1. n > 0 /\ lines[n].hash = LastClosed
  BY DEF LastClosed
<1>2. n \in 1..Len(lines) /\ (n = Len(lines) => closed)
  BY <1>1 DEF TypeOK
<1>3. LinkedUpTo(n)
  <2>1. 1..n \subseteq 1..Len(lines)
    BY <1>2
  <2> QED
    BY <2>1 DEF LinkedFrom, LinkedUpTo
<1>4. Kept(n)
  BY <1>1, <1>2 DEF Kept
<1> HIDE DEF n
<1> QED
  BY <1>1, <1>2, <1>3, <1>4 DEF Standing

LEMMA WroteChanges ==
  ASSUME TypeOK, [Next]_vars, NEW q \in Process
  PROVE  \/ wrote'[q] = wrote[q] /\ (q \in glued' <=> q \in glued)
         \/ wrote'[q] = 0
         \/ AppendLine(q)
<1> USE DEF TypeOK
<1>1. CASE wrote' = wrote /\ glued' = glued
  BY <1>1
<1>2. ASSUME NEW p \in Process, Call(p) \/ CheckBeforeUnlock(p) \/ Crash(p)
      PROVE  wrote'[q] = 0 \/ (wrote'[q] = wrote[q] /\ (q \in glued' <=> q \in glued))
  BY <1>2 DEF Call, CheckBeforeUnlock, Crash, NewCall
<1>3. ASSUME NEW p \in Process, AppendLine(p)
      PROVE  AppendLine(q) \/ (wrote'[q] = wrote[q] /\ (q \in glued' <=> q \in glued))
  BY <1>3 DEF AppendLine
<1>4. \/ wrote' = wrote /\ glued' = glued
      \/ \E p \in Process : Call(p) \/ CheckBeforeUnlock(p) \/ Crash(p) \/ AppendLine(p)
  BY DEF Next, AppendStep, vars, callVars, Start, AcquireLock, LockExists, SpinAgain, GiveUp,
         ReadTail, AppendFails, AppendTorn, Return, Rethrow, WriteUnlocked,
         SelfTestLocks, OperatorRemovesLock, Rotate
<1> QED
  BY <1>1, <1>2, <1>3, <1>4

LEMMA VerifiedChanges ==
  ASSUME TypeOK, [Next]_vars, NEW q \in Process, pc'[q] = "unlocking"
  PROVE  \/ pc[q] = "unlocking" /\ verified'[q] = verified[q]
         \/ LinkedFrom(1) /\ verified'[q] = LastClosed
<1> USE DEF TypeOK
<1>1. CASE UNCHANGED <<pc, verified>>
  BY <1>1
<1>2. ASSUME NEW p \in Process, CheckBeforeUnlock(p)
      PROVE  \/ pc[q] = "unlocking" /\ verified'[q] = verified[q]
             \/ LinkedFrom(1) /\ verified'[q] = LastClosed
  <2>1. IntegrityOk /\ ~Truncated => LinkedFrom(1)
    BY DEF IntegrityOk, WindowStart
  <2>2. CASE q = p
    BY <1>2, <2>1, <2>2 DEF CheckBeforeUnlock, Decide
  <2>3. CASE q # p
    BY <1>2, <2>3 DEF CheckBeforeUnlock, Decide
  <2> QED
    BY <2>2, <2>3
<1>3. ASSUME NEW p \in Process, Start(p) \/ Call(p) \/ AppendStep(p)
      PROVE  pc[q] = "unlocking" /\ verified'[q] = verified[q]
  BY <1>3 DEF Start, Call, AppendStep, AcquireLock, LockExists, SpinAgain, GiveUp, ReadTail,
              AppendLine, AppendFails, AppendTorn, Return, Rethrow, At, unlockVars
<1>4. ASSUME NEW p \in Process, WriteUnlocked(p) \/ Crash(p)
      PROVE  pc[q] = "unlocking" /\ verified'[q] = verified[q]
  BY <1>4 DEF WriteUnlocked, Crash, At
<1>5. CASE SelfTestLocks \/ OperatorRemovesLock \/ Rotate \/ UNCHANGED vars
  BY <1>5, <1>1 DEF SelfTestLocks, OperatorRemovesLock, Rotate, unlockVars, vars
<1> QED
  BY <1>2, <1>3, <1>4, <1>5 DEF Next

LEMMA RecordedStep == TypeOK /\ Recorded /\ [Next]_vars => Recorded'
<1> SUFFICES ASSUME TypeOK, Recorded, [Next]_vars PROVE Recorded'
  OBVIOUS
<1>1. ASSUME NEW q \in Process, NEW h, h = wrote'[q], h # 0, q \notin glued'
      PROVE  Present(h)'
  <2>1. CASE wrote'[q] = wrote[q] /\ q \notin glued
    <3>1. Present(h)
      BY <1>1, <2>1 DEF Recorded
    <3> QED
      BY <3>1, PresentStays
  <2>2. CASE AppendLine(q)
    <3>1. h = made + 1 /\ closed
      BY <1>1, <2>2 DEF AppendLine, TypeOK
    <3> QED
      BY <2>2, <3>1, AppendPresent
  <2> QED
    BY <1>1, <2>1, <2>2, WroteChanges
<1>2. ASSUME NEW q \in Process, NEW h, h = verified'[q], h # 0, pc'[q] = "unlocking"
      PROVE  Standing(h)'
  <2>1. Standing(h)
    BY <1>2, VerifiedChanges, CheckStands DEF Recorded
  <2> QED
    BY <2>1, StandingStays
<1> QED
  BY <1>1, <1>2 DEF Recorded, Present, Standing, Kept, LinkedUpTo

-----------------------------------------------------------------------------
(* The undamaged file.                                                     *)

(* Steps that leave the file, its archive and the hashes read from it alone, *)
(* and take nobody into the critical section.                                *)
LEMMA Quiet ==
  ASSUME TypeOK, Sound, UNCHANGED <<fileVars, lockFile, prev>>, damaged' = damaged,
         \A p \in Process : pc'[p] \in Inside => pc[p] \in Inside,
         \A p \in Process : pc'[p] = "linked" => pc[p] = "linked"
  PROVE  Sound'
BY DEF Sound, Owned, Continues, gone, ReadLast, fileVars

LEMMA SoundStep == TypeOK /\ Sound /\ [Next]_vars => Sound'
<1> SUFFICES ASSUME TypeOK, Sound, [Next]_vars PROVE Sound'
  OBVIOUS
<1>1. CASE UNCHANGED vars
  BY <1>1 DEF vars, fileVars, callVars, unlockVars, Sound, Owned, Continues, gone, ReadLast
<1>2. ASSUME NEW p \in Process,
             Start(p) \/ Call(p) \/ LockExists(p) \/ SpinAgain(p) \/ GiveUp(p)
               \/ AppendFails(p) \/ WriteUnlocked(p)
      PROVE  Sound'
  BY <1>2, Quiet DEF Start, Call, LockExists, SpinAgain, GiveUp, AppendFails, WriteUnlocked, At,
                     fileVars, callVars, TypeOK
<1>3. ASSUME NEW p \in Process, CheckBeforeUnlock(p) PROVE Sound'
  BY <1>3, Quiet DEF CheckBeforeUnlock, Decide, fileVars, TypeOK
<1>4. CASE SelfTestLocks
  BY <1>4, Quiet DEF SelfTestLocks, fileVars, callVars
<1>5. ASSUME NEW p \in Process, AcquireLock(p) PROVE Sound'
  <2>1. ~damaged => \A q \in Process : pc[q] \notin Inside
    BY <1>5 DEF AcquireLock, Sound, Owned
  <2> QED
    BY <1>5, <2>1 DEF AcquireLock, At, Sound, Owned, Continues, gone, ReadLast, fileVars, callVars, TypeOK
<1>6. ASSUME NEW p \in Process, ReadTail(p) PROVE Sound'
  <2>1. CASE damaged
    BY <1>6, <2>1 DEF ReadTail, Sound
  <2>2. CASE ~damaged
    <3>1. Owned' /\ Continues' /\ closed'
      BY <1>6, <2>2 DEF ReadTail, At, Sound, Owned, Continues, gone, fileVars, TypeOK
    <3>2. lines # <<>> => TailHash # 0 /\ TailHash = lines[Len(lines)].hash
      <4>1. lines # <<>> => Len(lines) \in 1..Len(lines)
        BY DEF TypeOK
      <4>2. lines # <<>> => lines[Len(lines)].hash = gone + Len(lines) /\ gone \in Nat
        BY <2>2, <4>1 DEF Sound, Continues
      <4> QED
        BY <4>1, <4>2 DEF TailHash, TypeOK
    <3>3. ReadLast'
      BY <1>6, <2>2, <3>2 DEF ReadTail, At, Sound, ReadLast, fileVars, TypeOK
    <3> QED
      BY <3>1, <3>3 DEF Sound
  <2> QED
    BY <2>1, <2>2
<1>7. ASSUME NEW p \in Process, AppendLine(p) PROVE Sound'
  <2>1. CASE damaged
    BY <1>7, <2>1 DEF AppendLine, Sound
  <2>2. CASE ~damaged
    <3>0. closed /\ lockFile = p /\ lines \in Seq(Line(made)) /\ made \in Nat
          /\ Len(lines) \in Nat
      BY <1>7, <2>2 DEF AppendLine, At, Sound, Owned, TypeOK, Line
    <3>1. /\ made' = made + 1 /\ archived' = archived /\ Len(lines') = Len(lines) + 1
          /\ lines'[Len(lines) + 1] = [hash |-> made + 1, prev |-> prev[p]]
          /\ \A i \in 1..Len(lines) : lines'[i] = lines[i]
          /\ closed'
      BY <1>7, <3>0, AppendFacts
    <3>2. Owned'
      BY <1>7, <2>2 DEF AppendLine, At, Sound, Owned, TypeOK
    <3>3. Continues'
      <4>1. made = gone + Len(lines) /\ gone \in Nat /\ gone' = gone
        BY <2>2, <3>0, <3>1 DEF Sound, Continues, gone
      <4>2. ASSUME NEW i \in 1..Len(lines')
            PROVE  lines'[i].hash = gone' + i /\ (i > 1 => lines'[i].prev = gone' + i - 1)
        <5>1. CASE i \in 1..Len(lines)
          BY <2>2, <3>1, <4>1, <5>1 DEF Sound, Continues
        <5>2. CASE i = Len(lines) + 1
          <6>1. lines'[i].hash = made + 1 /\ lines'[i].prev = prev[p]
            BY <3>1, <5>2
          <6>2. i > 1 => prev[p] = gone + Len(lines)
            <7>1. ASSUME i > 1 PROVE lines # <<>> /\ Len(lines) \in 1..Len(lines)
              BY <3>0, <5>2, <7>1
            <7>2. ASSUME i > 1 PROVE prev[p] = lines[Len(lines)].hash
              BY <1>7, <2>2, <7>1, <7>2 DEF AppendLine, At, Sound, ReadLast
            <7> QED
              BY <2>2, <7>1, <7>2 DEF Sound, Continues
          <6> QED
            BY <3>0, <3>1, <4>1, <5>2, <6>1, <6>2
        <5> QED
          BY <3>0, <3>1, <5>1, <5>2
      <4> QED
        BY <3>0, <3>1, <4>1, <4>2 DEF Continues
    <3>4. ReadLast'
      <4>1. \A q \in Process : pc'[q] # "linked"
        BY <1>7, <2>2, <3>0 DEF AppendLine, At, Sound, Owned, TypeOK
      <4> QED
        BY <4>1 DEF ReadLast
    <3> QED
      BY <3>1, <3>2, <3>3, <3>4 DEF Sound
  <2> QED
    BY <2>1, <2>2
<1>8. ASSUME NEW p \in Process, AppendTorn(p) PROVE Sound'
  BY <1>8 DEF AppendTorn, LeaveTornLine, Sound
<1>9. ASSUME NEW p \in Process, Return(p) \/ Rethrow(p) PROVE Sound'
  <2>1. ~damaged => \A q \in Process : pc'[q] \in Inside => pc[q] \in Inside /\ q # p /\ lockFile = p
    BY <1>9 DEF Return, Rethrow, At, Sound, Owned, TypeOK
  <2>2. ~damaged => \A q \in Process : pc'[q] \notin Inside
    BY <2>1 DEF Sound, Owned
  <2> QED
    BY <1>9, <2>2 DEF Return, Rethrow, At, Sound, Owned, Continues, gone, ReadLast, fileVars, TypeOK
<1>10. ASSUME NEW p \in Process, Crash(p) PROVE Sound'
  <2>1. CASE LeaveTornLine(p)
    BY <2>1 DEF LeaveTornLine, Sound
  <2>2. CASE UNCHANGED <<fileVars, damaged>>
    BY <1>10, <2>2 DEF Crash, Sound, Owned, Continues, gone, ReadLast, fileVars, TypeOK
  <2> QED
    BY <1>10, <2>1, <2>2 DEF Crash
<1>11. CASE OperatorRemovesLock
  BY <1>11, NobodyIsNotAProcess DEF OperatorRemovesLock, Sound, Owned, Continues, gone, ReadLast, fileVars,
              callVars, TypeOK
<1>12. CASE Rotate
  <2>1. CASE damaged
    BY <1>12, <2>1 DEF Rotate, Sound
  <2>2. CASE ~damaged
    <3>1. PICK n \in DOMAIN lines :
            /\ lines' = SubSeq(lines, n + 1, Len(lines))
            /\ closed' = (closed \/ n = Len(lines))
      BY <1>12 DEF Rotate
    <3>2. n \in 1..Len(lines) /\ Len(lines) \in Nat /\ lines \in Seq(Line(made)) /\ made \in Nat
      BY DEF TypeOK, Line
    <3>3. /\ Len(lines') = Len(lines) - n
          /\ \A i \in 1..(Len(lines) - n) : lines'[i] = lines[i + n]
      BY <3>1, <3>2
    <3>4. gone' = gone + n /\ gone \in Nat
      BY <1>12, <2>2, <3>2, <3>3 DEF Rotate, Sound, Continues, gone
    <3>5. Continues'
      <4>1. \A i \in 1..Len(lines') : i + n \in 1..Len(lines) /\ i + n > 1
        BY <3>2, <3>3
      <4>2. \A i \in 1..Len(lines') :
              lines'[i].hash = gone + (i + n) /\ lines'[i].prev = gone + (i + n) - 1
        BY <2>2, <3>3, <4>1 DEF Sound, Continues
      <4>3. \A i \in 1..Len(lines') :
              lines'[i].hash = gone' + i /\ lines'[i].prev = gone' + i - 1
        BY <3>2, <3>3, <3>4, <4>2
      <4> QED
        BY <3>2, <3>4, <4>3 DEF Continues
    <3>6. ReadLast'
      <4>1. lines' # <<>> => lines # <<>> /\ lines'[Len(lines')] = lines[Len(lines)]
        <5>0. lines' \in Seq(Line(made))
          BY <3>1, <3>2
        <5>1. lines' # <<>> => Len(lines') \in 1..Len(lines')
          BY <5>0
        <5>2. lines' # <<>> => lines'[Len(lines')] = lines[Len(lines') + n]
          BY <3>3, <5>1
        <5>3. Len(lines') + n = Len(lines)
          BY <3>2, <3>3
        <5> QED
          BY <3>2, <5>2, <5>3
      <4> QED
        BY <1>12, <2>2, <4>1 DEF Rotate, Sound, ReadLast, callVars
    <3>7. closed' /\ Owned'
      BY <1>12, <2>2, <3>1 DEF Rotate, Sound, Owned
    <3> QED
      BY <3>5, <3>6, <3>7 DEF Sound
  <2> QED
    BY <2>1, <2>2
<1> QED
  BY <1>1, <1>2, <1>3, <1>4, <1>5, <1>6, <1>7, <1>8, <1>9, <1>10, <1>11, <1>12 DEF Next, AppendStep

-----------------------------------------------------------------------------
(* The theorems.                                                           *)

LEMMA Invariance == Spec => []IInv
<1>1. IInv /\ [Next]_vars => IInv'
  BY TypeStep, SoundStep, CountStep, DistinctStep, RecordedStep DEF IInv
<1> QED
  BY <1>1, InitInv, PTL DEF Spec

\* Every variable keeps the shape TypeOK gives it, and no hash is used before it is
\* made.
THEOREM TypeCorrect == Spec => []TypeOK
<1>1. IInv => TypeOK
  BY DEF IInv
<1> QED
  BY <1>1, Invariance, PTL

\* As long as no line has been torn and no lock removed under its owner, the ledger is
\* linked from its first line to its last, for any number of processes that append,
\* fail, die, and are archived (withLock and append of core/ledger.ts).
THEOREM ChainStaysIntact == Spec => []ChainIntact
<1>1. IInv => ChainIntact
  <2> SUFFICES ASSUME IInv, ~damaged PROVE LinkedFrom(1)
    BY DEF ChainIntact
  <2>1. /\ gone \in Nat /\ Len(lines) \in Nat
        /\ \A i \in 1..Len(lines) :
             lines[i].hash = gone + i /\ (i > 1 => lines[i].prev = gone + i - 1)
    BY DEF IInv, Sound, Continues, TypeOK
  <2>2. ASSUME NEW i \in 1..Len(lines)
        PROVE  lines[i].hash # 0 /\ (i > 1 => lines[i].prev = lines[i - 1].hash)
    <3>1. i > 1 => i - 1 \in 1..Len(lines)
      BY <2>1
    <3>2. i > 1 => lines[i - 1].hash = gone + (i - 1)
      BY <2>1, <3>1
    <3> QED
      BY <2>1, <3>2
  <2> QED
    BY <2>2 DEF LinkedFrom
<1> QED
  BY <1>1, Invariance, PTL

\* Under every fault -- torn lines and locks removed under their owner included -- an
\* append (core/ledger.ts) that claims to have written has its entry, readable, on one
\* line of the file or in the archive, unless it was put on a line left without its
\* newline; one that returns persisted: false has completed no line.
THEOREM OutcomesAreHonest == Spec => []OutcomeHonest
<1>1. IInv => OutcomeHonest
  <2> SUFFICES ASSUME IInv, NEW p \in Process
               PROVE  /\ outcome[p] = "written" => OnceReadable(wrote[p]) \/ p \in glued
                      /\ outcome[p] = "unwritten" => wrote[p] = 0
    BY DEF OutcomeHonest
  <2>1. outcome[p] = "unwritten" => wrote[p] = 0
    BY DEF IInv, Counting
  <2>2. ASSUME outcome[p] = "written", p \notin glued PROVE OnceReadable(wrote[p])
    <3>1. wrote[p] # 0 /\ Present(wrote[p]) /\ DOMAIN lines = 1..Len(lines)
      BY <2>2 DEF IInv, Counting, Recorded, TypeOK
    <3>2. CASE wrote[p] \in archived
      BY <3>1, <3>2 DEF IInv, Distinct, OnceReadable
    <3>3. CASE wrote[p] \notin archived
      <4>1. PICK n \in 1..Len(lines) : lines[n].hash = wrote[p]
        BY <3>1, <3>3 DEF Present
      <4>2. {i \in DOMAIN lines : lines[i].hash = wrote[p]} = {n}
        BY <3>1, <4>1 DEF IInv, Distinct
      <4> QED
        BY <3>3, <4>2 DEF OnceReadable
    <3> QED
      BY <3>2, <3>3
  <2> QED
    BY <2>1, <2>2
<1> QED
  BY <1>1, Invariance, PTL

\* Under every fault and for every window size, what governance_unlock
\* (capabilities/governanceUnlock.ts) verified still stands when it opens the lock: its
\* last complete entry is archived, or on disk with everything before it linked from
\* the first line.
THEOREM UnlockIsInformed == Spec => []UnlockStillStands
<1>1. IInv => UnlockStillStands
  <2> SUFFICES ASSUME IInv, NEW p \in Process, pc[p] = "unlocking",
                      verified[p] \notin archived \cup {0}
               PROVE  \E n \in DOMAIN lines : lines[n].hash = verified[p] /\ LinkedUpTo(n)
    BY DEF UnlockStillStands
  <2>1. Standing(verified[p]) /\ DOMAIN lines = 1..Len(lines)
    BY DEF IInv, TypeOK, Recorded
  <2> QED
    BY <2>1 DEF Standing
<1> QED
  BY <1>1, Invariance, PTL

(* An append does not heal what is broken. *)
LEMMA PutKeepsBroken ==
  ASSUME TypeOK, ~LinkedFrom(1), NEW n \in Nat, made <= n, NEW line \in Line(n), lines' = Put(line)
  PROVE  ~LinkedFrom(1)'
<1>0. lines \in Seq(Line(n)) /\ closed \in BOOLEAN /\ (lines = <<>> => closed) /\ Len(lines) \in Nat
  <2>1. lines \in Seq(Line(made)) /\ made \in Nat
    BY DEF TypeOK, Line
  <2> QED
    BY <2>1, MoreHashes DEF TypeOK
<1>1. PICK i \in 1..Len(lines) : ~ (lines[i].hash # 0 /\ (i > 1 => lines[i].prev = lines[i - 1].hash))
  BY DEF LinkedFrom
<1>2. CASE closed
  <2>1. Len(lines') = Len(lines) + 1 /\ \A j \in 1..Len(lines) : lines'[j] = lines[j]
    BY <1>0, <1>2, PutFacts
  <2>2. lines'[i] = lines[i] /\ (i > 1 => lines'[i - 1] = lines[i - 1])
    BY <1>0, <2>1
  <2>3. i \in 1..Len(lines')
    BY <1>0, <2>1
  <2> QED
    BY <1>1, <2>2, <2>3 DEF LinkedFrom
<1>3. CASE ~closed
  <2>1. Len(lines) \in 1..Len(lines) /\ lines' = [lines EXCEPT ![Len(lines)] = Garbage]
    BY <1>0, <1>3 DEF Put
  <2>2. Len(lines') = Len(lines) /\ lines'[Len(lines)] = Garbage
    BY <1>0, <2>1
  <2>3. Garbage.hash = 0
    BY DEF Garbage
  <2> QED
    BY <1>0, <2>1, <2>2, <2>3 DEF LinkedFrom
<1> QED
  BY <1>0, <1>2, <1>3

\* Under every fault, nothing that is appended later repairs a line that is unreadable
\* or linked to the wrong predecessor: only archiving it does.
THEOREM DamageIsNotHidden == Spec => BrokenStaysBroken
<1> DEFINE Keeps == ~LinkedFrom(1) /\ Len(lines') >= Len(lines) => ~LinkedFrom(1)'
<1>1. TypeOK /\ [Next]_vars => Keeps \/ UNCHANGED vars
  <2> SUFFICES ASSUME TypeOK, [Next]_vars, ~LinkedFrom(1), Len(lines') >= Len(lines)
               PROVE  ~LinkedFrom(1)'
    OBVIOUS
  <2>1. CASE lines' = lines
    BY <2>1 DEF LinkedFrom
  <2>2. ASSUME NEW p \in Process, AppendLine(p) PROVE ~LinkedFrom(1)'
    <3>1. made \in Nat /\ Entry(p) \in Line(made + 1)
      BY DEF Entry, Line, TypeOK
    <3> QED
      BY <2>2, <3>1, PutKeepsBroken DEF AppendLine
  <2>3. ASSUME NEW p \in Process, LeaveTornLine(p) PROVE ~LinkedFrom(1)'
    <3>1. made \in Nat /\ Entry(p) \in Line(made + 1) /\ Garbage \in Line(made)
      BY DEF Entry, Garbage, Line, TypeOK
    <3> QED
      BY <2>3, <3>1, PutKeepsBroken DEF LeaveTornLine
  <2>4. CASE Rotate
    <3>1. PICK n \in DOMAIN lines : lines' = SubSeq(lines, n + 1, Len(lines))
      BY <2>4 DEF Rotate
    <3>2. n \in 1..Len(lines) /\ Len(lines) \in Nat /\ lines \in Seq(Line(made))
      BY DEF TypeOK, Line
    <3>3. Len(lines') = Len(lines) - n
      BY <3>1, <3>2
    <3> QED
      BY <3>2, <3>3
  <2>5. \/ lines' = lines \/ Rotate
        \/ \E p \in Process : AppendLine(p) \/ LeaveTornLine(p)
    BY DEF Next, AppendStep, vars, fileVars, Start, Call, AcquireLock, LockExists, SpinAgain, GiveUp,
           ReadTail, AppendFails, AppendTorn, Return, Rethrow, CheckBeforeUnlock, WriteUnlocked,
           Crash, SelfTestLocks, OperatorRemovesLock
  <2> QED
    BY <2>1, <2>2, <2>3, <2>4, <2>5
<1> QED
  BY <1>1, TypeCorrect, PTL DEF Spec, BrokenStaysBroken

-----------------------------------------------------------------------------
(* The refinement.  The three faults excluded are those under which lines   *)
(* are lost or spoiled; appends that fail, lock files that stay or are      *)
(* removed after their owner, and crashes at any step are included.         *)

LinesAreKept == {"torn", "hasty", "rotate"} \cap Faults = {}

Whole ==
  /\ ~damaged
  /\ made = Len(lines)
  /\ \A i \in 1..Len(lines) : lines[i].prev = i - 1

links == [i \in DOMAIN lines |-> lines[i].prev]
told == [p \in Process |-> AbstractStatus(p)]

\* What a process read inside the lock is the number of entries before its own.
LEMMA LinkedIsLast ==
  ASSUME IInv, Whole, NEW p \in Process, pc[p] = "linked"
  PROVE  prev[p] = Len(lines)
<1>1. made = Len(lines) /\ Len(lines) \in Nat
  BY DEF IInv, Sound, Continues, gone, Whole, TypeOK
<1>2. CASE lines = <<>>
  BY <1>1, <1>2 DEF IInv, TypeOK
<1>3. CASE lines # <<>>
  <2>1. Len(lines) \in 1..Len(lines)
    BY <1>3 DEF IInv, TypeOK
  <2>2. prev[p] = lines[Len(lines)].hash
    BY <1>3 DEF IInv, Sound, ReadLast, Whole
  <2> QED
    BY <1>1, <2>1, <2>2 DEF IInv, Sound, Continues, gone, Whole
<1> QED
  BY <1>2, <1>3

\* Only AppendLine changes the file, and nothing spoils it.
LEMMA LinesChange ==
  ASSUME LinesAreKept, IInv, [Next]_vars
  PROVE  /\ damaged' = damaged
         /\ \/ lines' = lines /\ made' = made
            \/ \E p \in Process : AppendLine(p)
<1>1. "torn" \notin Faults /\ "hasty" \notin Faults /\ "rotate" \notin Faults
  BY DEF LinesAreKept
<1> QED
  BY <1>1 DEF Next, AppendStep, vars, fileVars, Start, Call, AcquireLock, LockExists, SpinAgain,
         GiveUp, ReadTail, AppendLine, AppendFails, AppendTorn, Return, Rethrow,
         CheckBeforeUnlock, WriteUnlocked, Crash, SelfTestLocks, OperatorRemovesLock, Rotate

\* What AppendLine adds to a file that is kept.
LEMMA OneMoreLine ==
  ASSUME IInv, Whole, NEW p \in Process, AppendLine(p)
  PROVE  /\ Len(lines) \in Nat
         /\ DOMAIN lines = 1..Len(lines)
         /\ DOMAIN lines' = 1..(Len(lines) + 1)
         /\ Len(lines') = Len(lines) + 1
         /\ lines'[Len(lines) + 1].prev = Len(lines)
         /\ \A i \in 1..Len(lines) : lines'[i] = lines[i]
<1>1. pc[p] = "linked" /\ closed /\ TypeOK
  BY DEF AppendLine, At, IInv, Sound, Whole
<1>2. prev[p] = Len(lines)
  BY <1>1, LinkedIsLast
<1>3. Len(lines) \in Nat /\ DOMAIN lines = 1..Len(lines)
  BY <1>1 DEF TypeOK
<1>4. /\ lines' \in Seq(Line(made'))
      /\ Len(lines') = Len(lines) + 1
      /\ lines'[Len(lines) + 1] = [hash |-> made + 1, prev |-> prev[p]]
      /\ \A i \in 1..Len(lines) : lines'[i] = lines[i]
  BY <1>1, AppendFacts
<1>5. DOMAIN lines' = 1..Len(lines')
  BY <1>4
<1> QED
  BY <1>2, <1>3, <1>4, <1>5

\* Only lines linked to the one before them are added.
LEMMA WholeStep == LinesAreKept /\ IInv /\ Whole /\ [Next]_vars => Whole'
<1> SUFFICES ASSUME LinesAreKept, IInv, Whole, [Next]_vars PROVE Whole'
  OBVIOUS
<1>1. ~damaged'
  BY LinesChange DEF Whole
<1>2. CASE lines' = lines /\ made' = made
  BY <1>1, <1>2 DEF Whole
<1>3. ASSUME NEW p \in Process, AppendLine(p) PROVE Whole'
  <2>1. made' = made + 1
    BY <1>3 DEF AppendLine
  <2> QED
    BY <1>1, <1>3, <2>1, OneMoreLine DEF Whole
<1> QED
  BY <1>2, <1>3, LinesChange

\* An empty file and no process: the empty log, whose callers are yet to start.
LEMMA InitMaps == Init => Abstract!LogInit
<1> SUFFICES ASSUME Init PROVE Abstract!LogInit
  OBVIOUS
<1>1. links = <<>>
  BY DEF Init, links
<1>2. told = [p \in Process |-> "dead"]
  BY DEF Init, told, AbstractStatus
<1> QED
  BY <1>1, <1>2 DEF Abstract!LogInit, links, told

\* A step that leaves the file alone tells one process something, along one of the
\* abstract actions, or nobody anything.
LEMMA QuietMaps ==
  ASSUME IInv, [Next]_vars, lines' = lines, \A p \in Process : ~AppendLine(p)
  PROVE  Abstract!LogNext \/ UNCHANGED Abstract!logVars
<1>typ. /\ pc \in [Process -> Steps] /\ wrote \in [Process -> 0..made]
        /\ outcome \in [Process -> {"none", "written", "unwritten"}]
  BY DEF IInv, TypeOK
<1>same. links' = links
  BY DEF links
<1>1. ASSUME NEW p \in Process, NEW a, NEW b,
             told' = [told EXCEPT ![p] = b], told[p] = a,
             \/ a \in {"idle", "ok", "timeout"} /\ b = "pending"
             \/ a = "committed" /\ b = "ok"
             \/ a = "pending" /\ b = "timeout"
             \/ a = "dead" /\ b = "idle"
             \/ b = "dead"
      PROVE  Abstract!LogNext
  <2>1. Abstract!Call(p) \/ Abstract!Return(p) \/ Abstract!Die(p) \/ Abstract!Restart(p)
    BY <1>1, <1>same DEF Abstract!Call, Abstract!Return, Abstract!Die, Abstract!Restart,
       Abstract!Returned, links, told
  <2> QED
    BY <2>1 DEF Abstract!LogNext
<1>2. ASSUME told' = told PROVE UNCHANGED Abstract!logVars
  BY <1>2, <1>same DEF Abstract!logVars, links, told
<1>3. ASSUME NEW p \in Process, Start(p) PROVE Abstract!LogNext
  <2>1. pc[p] = "down" /\ outcome[p] = "none"
    BY <1>3 DEF Start, At, IInv, Counting
  <2>2. told' = [told EXCEPT ![p] = "idle"] /\ told[p] = "dead"
    BY <1>3, <2>1, <1>typ DEF Start, At, told, AbstractStatus
  <2> QED
    BY <2>2, <1>1
<1>4. ASSUME NEW p \in Process, Call(p) \/ CheckBeforeUnlock(p) PROVE Abstract!LogNext
  <2>1. /\ pc[p] = "idle" /\ pc'[p] \in {"waiting", "unlocking"} /\ wrote'[p] = 0
        /\ \A q \in Process \ {p} :
             pc'[q] = pc[q] /\ wrote'[q] = wrote[q] /\ outcome'[q] = outcome[q]
    BY <1>4, <1>typ DEF Call, CheckBeforeUnlock, Decide, NewCall, At
  <2>2. told[p] \in {"idle", "ok", "timeout"} /\ AbstractStatus(p)' = "pending"
    BY <2>1 DEF told, AbstractStatus
  <2>3. \A q \in Process \ {p} : AbstractStatus(q)' = AbstractStatus(q)
    BY <2>1 DEF AbstractStatus
  <2>4. told' = [told EXCEPT ![p] = "pending"]
    BY <2>2, <2>3 DEF told
  <2> QED
    BY <2>2, <2>4, <1>1
<1>5. ASSUME NEW p \in Process, GiveUp(p) PROVE Abstract!LogNext
  <2>1. pc[p] = "caught" /\ wrote[p] = 0
    BY <1>5 DEF GiveUp, At, IInv, Counting
  <2>2. told' = [told EXCEPT ![p] = "timeout"] /\ told[p] = "pending"
    BY <1>5, <2>1, <1>typ DEF GiveUp, At, told, AbstractStatus
  <2> QED
    BY <2>2, <1>1
<1>6. ASSUME NEW p \in Process, Return(p) PROVE Abstract!LogNext
  <2>1. pc[p] = "written" /\ wrote[p] # 0
    BY <1>6 DEF Return, At, IInv, Counting
  <2>2. told' = [told EXCEPT ![p] = "ok"] /\ told[p] = "committed"
    BY <1>6, <2>1, <1>typ DEF Return, At, told, AbstractStatus
  <2> QED
    BY <2>2, <1>1
<1>7. ASSUME NEW p \in Process, Crash(p) PROVE Abstract!LogNext
  <2>1. told' = [told EXCEPT ![p] = "dead"]
    BY <1>7, <1>typ DEF Crash, told, AbstractStatus
  <2> QED
    BY <2>1, <1>1
<1>8. ASSUME NEW p \in Process,
             \/ AcquireLock(p) \/ LockExists(p) \/ SpinAgain(p) \/ ReadTail(p)
             \/ AppendFails(p) \/ AppendTorn(p) \/ Rethrow(p) \/ WriteUnlocked(p)
      PROVE  told' = told
  <2>1. /\ pc[p] \notin {"idle", "down"} /\ pc'[p] \notin {"idle", "down"}
        /\ \A q \in Process \ {p} : pc'[q] = pc[q]
        /\ UNCHANGED <<wrote, outcome>>
    BY <1>8, <1>typ DEF AcquireLock, LockExists, SpinAgain, ReadTail, AppendFails, AppendTorn,
       Rethrow, WriteUnlocked, At, callVars
  <2>2. \A q \in Process : AbstractStatus(q)' = AbstractStatus(q)
    BY <2>1 DEF AbstractStatus
  <2> QED
    BY <2>2 DEF told
<1>9. CASE SelfTestLocks \/ OperatorRemovesLock \/ Rotate \/ UNCHANGED vars
  <2>1. UNCHANGED <<pc, wrote, outcome>>
    BY <1>9 DEF SelfTestLocks, OperatorRemovesLock, Rotate, vars, callVars
  <2>2. told' = told
    BY <2>1 DEF told, AbstractStatus
  <2> QED
    BY <2>2, <1>2
<1> QED
  BY <1>2, <1>3, <1>4, <1>5, <1>6, <1>7, <1>8, <1>9 DEF Next, AppendStep

\* The line is the commit.
LEMMA WriteMaps ==
  ASSUME IInv, Whole, NEW p \in Process, AppendLine(p)
  PROVE  Abstract!Commit(p)
<1>1. /\ DOMAIN lines = 1..Len(lines) /\ Len(lines) \in Nat
      /\ DOMAIN lines' = 1..(Len(lines) + 1)
      /\ lines'[Len(lines) + 1].prev = Len(lines)
      /\ \A i \in 1..Len(lines) : lines'[i] = lines[i]
  BY OneMoreLine
<1>2. links \in Seq(Nat) /\ Len(links) = Len(lines)
  <2>1. \A i \in 1..Len(lines) : lines[i].prev \in Nat
    BY <1>1 DEF Whole
  <2>2. links = [i \in 1..Len(lines) |-> lines[i].prev]
    BY <1>1 DEF links
  <2> QED
    BY <1>1, <2>1, <2>2
<1>3. links' = Append(links, Len(links))
  <2>1. /\ DOMAIN links' = 1..(Len(lines) + 1)
        /\ \A i \in 1..Len(lines) : links'[i] = links[i]
        /\ links'[Len(lines) + 1] = Len(lines)
    BY <1>1 DEF links
  <2>2. links' = [i \in 1..(Len(lines) + 1) |-> links'[i]]
    BY <1>1 DEF links
  <2> QED
    BY <1>1, <1>2, <2>1, <2>2
<1>4. told' = [told EXCEPT ![p] = "committed"] /\ told[p] = "pending"
  <2>0. /\ pc \in [Process -> Steps] /\ wrote \in [Process -> 0..made] /\ made \in Nat
        /\ pc[p] = "linked" /\ wrote[p] = 0
    BY DEF IInv, TypeOK, Counting, AppendLine, At
  <2>1. /\ pc'[p] = "written" /\ wrote'[p] # 0 /\ outcome' = outcome
        /\ \A q \in Process \ {p} : pc'[q] = pc[q] /\ wrote'[q] = wrote[q]
    BY <2>0 DEF AppendLine, At
  <2>2. AbstractStatus(p)' = "committed" /\ AbstractStatus(p) = "pending"
    BY <2>0, <2>1 DEF AbstractStatus
  <2>3. \A q \in Process \ {p} : AbstractStatus(q)' = AbstractStatus(q)
    BY <2>1 DEF AbstractStatus
  <2> QED
    BY <2>2, <2>3 DEF told
<1> QED
  BY <1>3, <1>4 DEF Abstract!Commit, links, told

\* Every step is a step of the abstract log or leaves it unchanged.
LEMMA StepMaps ==
  LinesAreKept /\ IInv /\ Whole /\ [Next]_vars => [Abstract!LogNext]_(Abstract!logVars)
<1> SUFFICES ASSUME LinesAreKept, IInv, Whole, [Next]_vars
             PROVE  Abstract!LogNext \/ UNCHANGED Abstract!logVars
  OBVIOUS
<1>1. CASE \E p \in Process : AppendLine(p)
  BY <1>1, WriteMaps DEF Abstract!LogNext
<1>2. CASE \A p \in Process : ~AppendLine(p)
  BY <1>2, LinesChange, QuietMaps
<1> QED
  BY <1>1, <1>2

\* While nothing tears, steals or archives, Ledger.append of core/ledger.ts implements
\* the same atomic append-only log as the Kintsugi record store: an entry is committed,
\* linked to the one before it, or the call leaves nothing behind and says so.
THEOREM TelemetryImplementsLog == ASSUME LinesAreKept PROVE Spec => ImplementsAppendLog
<1>1. Init => Whole
  BY DEF Init, Whole
<1>2. IInv /\ [Next]_vars => IInv'
  BY TypeStep, SoundStep, CountStep, DistinctStep, RecordedStep DEF IInv
<1>3. Spec => [](IInv /\ Whole)
  BY <1>1, <1>2, InitInv, WholeStep, PTL DEF Spec
<1> QED
  BY <1>3, InitMaps, StepMaps, PTL DEF Spec, ImplementsAppendLog, Abstract!LogSpec
=============================================================================
