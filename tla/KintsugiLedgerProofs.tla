------------------------ MODULE KintsugiLedgerProofs ------------------------
(***************************************************************************)
(* Theorems about KintsugiLedger for every set of callers, every bound and *)
(* every fault set their assumptions admit.                                *)
(***************************************************************************)
EXTENDS KintsugiLedger, SequenceTheorems, WellFoundedInduction, TLAPS

(* The lock invariant: whoever is inside owns the lock file, so the hash    *)
(* it read and the record it wrote are still the end of the ledger.  It     *)
(* holds under every fault, including an operator removing a lock file      *)
(* whose owner is gone.                                                     *)
OwnsLock == \A c \in Caller : pc[c] \in Inside => lockFile = c
ReadIsTip == \A c \in Caller : pc[c] = "linked" /\ tip # 0 => prev[c] = tip
WroteLast ==
  \A c \in Caller : pc[c] \in {"written", "tipped"} =>
    /\ mine[c] = Len(records)
    /\ mine[c] # 0
    /\ pc[c] = "written" /\ tip # 0 => records[mine[c]].prev = tip

LockInv == TypeOK /\ OwnsLock /\ ReadIsTip /\ WroteLast

\* The value that stands for "no lock file" is not a caller.
LEMMA CallerNotNobody == \A c \in Caller : c # NoCaller
  BY LedgerAssumption

(* Appending keeps what is there and puts the new record last. *)
LEMMA AppendFacts ==
  ASSUME NEW s \in Seq(RecordType), NEW r \in RecordType
  PROVE  /\ Append(s, r) \in Seq(RecordType)
         /\ Len(Append(s, r)) = Len(s) + 1
         /\ DOMAIN Append(s, r) = 1..(Len(s) + 1)
         /\ DOMAIN s = 1..Len(s)
         /\ Len(s) \in Nat
         /\ \A i \in 1..Len(s) : Append(s, r)[i] = s[i]
         /\ Append(s, r)[Len(s) + 1] = r
  OBVIOUS

\* An idle system, with its lock file absent, satisfies the lock invariant.
LEMMA InitLock == Init => LockInv
  <1> SUFFICES ASSUME Init PROVE LockInv
    OBVIOUS
  <1> USE LedgerAssumption
  <1>1. /\ records \in Seq(RecordType)
        /\ Len(records) = LegacyRecords
    <2>1. \A i \in 1..LegacyRecords : [prev |-> i - 1, ts |-> 0] \in RecordType
      BY DEF RecordType
    <2>2. QED
      BY <2>1 DEF Init
  <1>2. TypeOK
    BY <1>1 DEF Init, TypeOK, Steps, Inside
  <1>3. OwnsLock /\ ReadIsTip /\ WroteLast
    BY DEF Init, OwnsLock, ReadIsTip, WroteLast, Inside
  <1>4. QED
    BY <1>2, <1>3 DEF LockInv

\* Every step of withLedgerLock, recordLedger and the environment keeps it.
LEMMA NextLock == LockInv /\ [Next]_vars => LockInv'
  <1> SUFFICES ASSUME LockInv, [Next]_vars PROVE LockInv'
    OBVIOUS
  <1> USE LedgerAssumption, CallerNotNobody DEF LockInv
  <1>len. Len(records) \in Nat
    BY DEF TypeOK
  <1>1. ASSUME NEW c \in Caller, Begin(c) PROVE LockInv'
    BY <1>1, <1>len DEF Begin, At, TypeOK, OwnsLock, ReadIsTip, WroteLast, Steps, Inside
  <1>2. ASSUME NEW c \in Caller, AcquireLock(c) PROVE LockInv'
    BY <1>2 DEF AcquireLock, At, callVars, TypeOK, OwnsLock, ReadIsTip, WroteLast, Steps, Inside
  <1>3. ASSUME NEW c \in Caller, LockExists(c) \/ SpinAgain(c) PROVE LockInv'
    BY <1>3 DEF LockExists, SpinAgain, At, callVars, TypeOK, OwnsLock, ReadIsTip, WroteLast, Steps, Inside
  <1>4. ASSUME NEW c \in Caller, GiveUp(c) PROVE LockInv'
    BY <1>4 DEF GiveUp, At, callVars, TypeOK, OwnsLock, ReadIsTip, WroteLast, Steps, Inside
  <1>5. ASSUME NEW c \in Caller, ReadPrev(c) PROVE LockInv'
    <2>1. PICK h \in IF tip # 0 THEN {tip} ELSE ScannedLast : prev' = [prev EXCEPT ![c] = h]
      BY <1>5 DEF ReadPrev
    <2>2. h \in 0..Len(records) /\ (tip # 0 => h = tip)
      <3>1. DOMAIN records = 1..Len(records)
        BY DEF TypeOK
      <3>2. ScannedLast \subseteq 0..Len(records)
        <4> DEFINE stamps == {records[i].ts : i \in DOMAIN records} \cup torn
                   Latest(t) == \A u \in stamps : u <= t
                   byRecord == {i \in DOMAIN records : Latest(records[i].ts)}
                   byTorn == {0 : t \in {u \in torn : Latest(u)}}
        <4>1. byRecord \subseteq 0..Len(records)
          BY <3>1, <1>len
        <4>2. byTorn \subseteq 0..Len(records)
          BY <1>len
        <4>3. {0} \subseteq 0..Len(records)
          BY <1>len
        <4>4. ScannedLast = IF stamps = {} THEN {0} ELSE byRecord \cup byTorn
          BY Zenon DEF ScannedLast
        <4> HIDE DEF byRecord, byTorn, stamps
        <4>5. QED
          BY <4>1, <4>2, <4>3, <4>4
      <3>3. CASE tip # 0
        BY <2>1, <3>3 DEF TypeOK
      <3>4. CASE tip = 0
        BY <2>1, <3>2, <3>4
      <3>5. QED
        BY <3>3, <3>4, <1>len DEF TypeOK
    <2>3. TypeOK'
      BY <1>5, <2>1, <2>2 DEF ReadPrev, At, TypeOK, Steps, Inside
    <2>4. OwnsLock' /\ WroteLast'
      BY <1>5 DEF ReadPrev, At, TypeOK, OwnsLock, WroteLast, Inside
    <2>5. ReadIsTip'
      BY <1>5, <2>1, <2>2 DEF ReadPrev, At, TypeOK, ReadIsTip
    <2>6. QED
      BY <2>3, <2>4, <2>5
  <1>6. ASSUME NEW c \in Caller, WriteRecord(c) PROVE LockInv'
    <2> DEFINE r == [prev |-> prev[c], ts |-> ts[c]]
    <2>1. r \in RecordType
      BY <1>len DEF TypeOK, RecordType
    <2>2. /\ records' = Append(records, r)
          /\ pc[c] = "linked" /\ pc' = [pc EXCEPT ![c] = "written"]
          /\ mine' = [mine EXCEPT ![c] = Len(records) + 1]
          /\ taken' = [taken EXCEPT ![c] = TRUE]
          /\ UNCHANGED <<torn, tip, lockFile, clock, ts, prev, outcome>>
      BY <1>6 DEF WriteRecord, At
    <2>3. /\ records' \in Seq(RecordType)
          /\ Len(records') = Len(records) + 1
          /\ records'[Len(records) + 1] = r
      BY <2>1, <2>2, AppendFacts DEF TypeOK
    <2>4. TypeOK'
      BY <2>2, <2>3, <1>len DEF TypeOK, Steps, Inside
    <2>5. OwnsLock'
      BY <2>2 DEF TypeOK, OwnsLock, Inside
    <2>6. ReadIsTip'
      BY <2>2 DEF TypeOK, ReadIsTip
    <2>7. \A d \in Caller : pc[d] \in {"written", "tipped"} => d = c
      BY <2>2 DEF OwnsLock, Inside
    <2>8. WroteLast'
      BY <2>2, <2>3, <2>7, <1>len DEF TypeOK, WroteLast, ReadIsTip
    <2>9. QED
      BY <2>4, <2>5, <2>6, <2>8
  <1>7. ASSUME NEW c \in Caller, Collide(c) PROVE LockInv'
    BY <1>7 DEF Collide, At, callVars, TypeOK, OwnsLock, ReadIsTip, WroteLast, Steps, Inside
  <1>8. ASSUME NEW c \in Caller, WriteRecordFails(c) PROVE LockInv'
    BY <1>8, ZenonT(30)
       DEF WriteRecordFails, LeaveTornFile, At, TypeOK, OwnsLock, ReadIsTip, WroteLast, Steps, Inside
  <1>9. ASSUME NEW c \in Caller, WriteChainTip(c) PROVE LockInv'
    <2>1. /\ pc[c] = "written" /\ pc' = [pc EXCEPT ![c] = "tipped"]
          /\ tip' = mine[c]
          /\ UNCHANGED <<records, torn, lockFile, clock, callVars, outcome>>
      BY <1>9 DEF WriteChainTip, At
    <2>2. TypeOK'
      BY <2>1 DEF TypeOK, callVars, Steps, Inside
    <2>3. OwnsLock'
      BY <2>1 DEF TypeOK, OwnsLock, Inside
    <2>4. \A d \in Caller : pc[d] \in Inside => d = c
      BY <2>1 DEF OwnsLock, Inside
    <2>5. ReadIsTip' /\ WroteLast'
      BY <2>1, <2>4 DEF TypeOK, ReadIsTip, WroteLast, callVars, Inside
    <2>6. QED
      BY <2>2, <2>3, <2>5
  <1>10. ASSUME NEW c \in Caller, WriteChainTipFails(c) PROVE LockInv'
    BY <1>10 DEF WriteChainTipFails, At, callVars, TypeOK, OwnsLock, ReadIsTip, WroteLast, Steps, Inside
  <1>11. ASSUME NEW c \in Caller, ReleaseAndReturn(c) PROVE LockInv'
    <2>1. \A d \in Caller : pc[d] \in Inside => d = c
      BY <1>11 DEF ReleaseAndReturn, At, OwnsLock, Inside
    <2>2. QED
      BY <1>11, <2>1 DEF ReleaseAndReturn, Unlock, At, callVars, TypeOK, OwnsLock, ReadIsTip, WroteLast, Steps, Inside
  <1>12. ASSUME NEW c \in Caller, ReleaseAndRethrow(c) PROVE LockInv'
    <2>1. \A d \in Caller : pc[d] \in Inside => d = c
      BY <1>12 DEF ReleaseAndRethrow, At, OwnsLock, Inside
    <2>2. QED
      BY <1>12, <2>1 DEF ReleaseAndRethrow, Unlock, At, callVars, TypeOK, OwnsLock, ReadIsTip, WroteLast, Steps, Inside
  <1>13. ASSUME NEW c \in Caller, Crash(c) PROVE LockInv'
    BY <1>13, ZenonT(30)
       DEF Crash, LeaveTornFile, TypeOK, OwnsLock, ReadIsTip, WroteLast, Steps, Inside
  <1>14. CASE OperatorRemovesLock
    BY <1>14 DEF OperatorRemovesLock, callVars, TypeOK, OwnsLock, ReadIsTip, WroteLast, Steps, Inside
  <1>15. CASE Tick
    BY <1>15 DEF Tick, callVars, TypeOK, OwnsLock, ReadIsTip, WroteLast
  <1>16. CASE UNCHANGED vars
    BY <1>16 DEF vars, TypeOK, OwnsLock, ReadIsTip, WroteLast
  <1>17. QED
    BY <1>1, <1>2, <1>3, <1>4, <1>5, <1>6, <1>7, <1>8, <1>9, <1>10, <1>11, <1>12,
       <1>13, <1>14, <1>15, <1>16 DEF Next, RecordLedger, CriticalSection

(* Whoever is inside the critical section owns the lock file, and what it   *)
(* read and wrote is still the end of the ledger.                           *)
LEMMA LockInvariant == Spec => []LockInv
  BY InitLock, NextLock, PTL DEF Spec

(* Every variable keeps its type; in particular the chain tip and every     *)
(* hash a caller has read name a record that is on disk.                    *)
THEOREM TypeCorrect == Spec => []TypeOK
  <1>1. LockInv => TypeOK
    BY DEF LockInv
  <1>2. QED
    BY <1>1, LockInvariant, PTL

-----------------------------------------------------------------------------
(* What the lock file and the chain tip guarantee under every fault.        *)

\* Only WriteRecord changes the records, and only WriteChainTip the tip.
LEMMA RecordsChange ==
  ASSUME LockInv, [Next]_vars
  PROVE  \/ UNCHANGED records
         \/ \E c \in Caller : WriteRecord(c)
  BY DEF Next, vars, RecordLedger, CriticalSection, Begin, AcquireLock, LockExists,
     SpinAgain, GiveUp, ReadPrev, Collide, WriteRecordFails, WriteChainTip,
     WriteChainTipFails, ReleaseAndReturn, ReleaseAndRethrow, Crash,
     OperatorRemovesLock, Tick

\* Only writeChainTip moves the chain tip, to the record just written.
LEMMA TipChange ==
  ASSUME LockInv, [Next]_vars
  PROVE  \/ UNCHANGED tip
         \/ \E c \in Caller : WriteChainTip(c)
  BY DEF Next, vars, RecordLedger, CriticalSection, Begin, AcquireLock, LockExists,
     SpinAgain, GiveUp, ReadPrev, Collide, WriteRecordFails, WriteRecord,
     WriteChainTipFails, ReleaseAndReturn, ReleaseAndRethrow, Crash,
     OperatorRemovesLock, Tick

\* Every record file written while there is a chain tip extends that tip.
THEOREM AppendsExtendTip == Spec => AppendExtendsTip
  <1>1. ASSUME LockInv, [Next]_vars, Len(records') > Len(records), tip # 0
        PROVE  records'[Len(records')].prev = tip
    <2>1. records \in Seq(RecordType) /\ Len(records) \in Nat
      BY <1>1 DEF LockInv, TypeOK
    <2>2. PICK c \in Caller : WriteRecord(c)
      BY <1>1, <2>1, RecordsChange
    <2> DEFINE r == [prev |-> prev[c], ts |-> ts[c]]
    <2>3. pc[c] = "linked" /\ records' = Append(records, r)
      BY <2>2 DEF WriteRecord, At
    <2>4. r \in RecordType
      BY <1>1, <2>1 DEF LockInv, TypeOK, RecordType
    <2>5. records'[Len(records')] = r
      BY <2>1, <2>3, <2>4, AppendFacts
    <2>6. prev[c] = tip
      BY <1>1, <2>3 DEF LockInv, ReadIsTip
    <2>7. QED
      BY <2>5, <2>6
  <1>2. LockInv /\ [Next]_vars =>
          [(Len(records') > Len(records) /\ tip # 0)
              => records'[Len(records')].prev = tip]_vars
    BY <1>1
  <1>3. QED
    BY <1>2, LockInvariant, PTL DEF Spec, AppendExtendsTip

\* The chain tip only ever moves to a record linked to it.
THEOREM TipMovesAlongChain == Spec => TipFollowsChain
  <1>1. ASSUME LockInv, [Next]_vars, tip' # tip
        PROVE  tip' \in DOMAIN records' /\ (tip # 0 => records'[tip'].prev = tip)
    <2>1. records \in Seq(RecordType) /\ Len(records) \in Nat
      BY <1>1 DEF LockInv, TypeOK
    <2>2. PICK c \in Caller : WriteChainTip(c)
      BY <1>1, TipChange
    <2>3. pc[c] = "written" /\ tip' = mine[c] /\ records' = records
      BY <2>2 DEF WriteChainTip, At
    <2>4. /\ mine[c] = Len(records)
          /\ mine[c] # 0
          /\ tip # 0 => records[mine[c]].prev = tip
      BY <1>1, <2>3 DEF LockInv, WroteLast
    <2>5. QED
      BY <2>1, <2>3, <2>4
  <1>2. LockInv /\ [Next]_vars =>
          [tip' # tip => /\ tip' \in DOMAIN records'
                         /\ tip # 0 => records'[tip'].prev = tip]_vars
    BY <1>1
  <1>3. QED
    BY <1>2, LockInvariant, PTL DEF Spec, TipFollowsChain

\* Unless somebody removes its lock file by hand, a dead owner keeps every later call
\* out: nothing is written on top of what it left half done, under every other fault.
THEOREM DeadOwnersFreeze == "operator" \notin Faults => (Spec => DeadOwnerFreezesLedger)
  <1> SUFFICES ASSUME "operator" \notin Faults
               PROVE  Spec => DeadOwnerFreezesLedger
    OBVIOUS
  <1>1. ASSUME LockInv, [Next]_vars, lockFile # NoCaller, pc[lockFile] = "dead"
        PROVE  UNCHANGED <<records, tip, lockFile>>
    <2>1. \A c \in Caller : pc[c] \notin Inside
      BY <1>1 DEF LockInv, OwnsLock, Inside
    <2>2. CASE \E c \in Caller : CriticalSection(c)
      BY <2>1, <2>2 DEF CriticalSection, At, Inside, ReadPrev, WriteRecord, Collide,
         WriteRecordFails, WriteChainTip, WriteChainTipFails, ReleaseAndReturn,
         ReleaseAndRethrow
    <2>3. CASE \/ \E c \in Caller : Begin(c) \/ AcquireLock(c) \/ LockExists(c)
                                    \/ SpinAgain(c) \/ GiveUp(c) \/ Crash(c)
               \/ Tick \/ UNCHANGED vars
      BY <1>1, <2>3 DEF Begin, AcquireLock, LockExists, SpinAgain, GiveUp, Crash,
         Tick, vars
    <2>4. QED
      BY <1>1, <2>2, <2>3 DEF Next, RecordLedger, OperatorRemovesLock
  <1>2. LockInv /\ [Next]_vars =>
          [(lockFile # NoCaller /\ pc[lockFile] = "dead")
              => UNCHANGED <<records, tip, lockFile>>]_vars
    BY <1>1
  <1>3. QED
    BY <1>2, LockInvariant, PTL DEF Spec, DeadOwnerFreezesLedger

-----------------------------------------------------------------------------
(* The chain.  It cannot fork as long as no write of the chain tip fails    *)
(* and nobody removes a lock file by hand: a process that dies between the  *)
(* record and the tip takes the lock with it.  A ledger that is older than  *)
(* the chain tip must not leave the directory scan a choice.                *)
SafeEnvironment ==
  /\ "tip" \notin Faults
  /\ "operator" \notin Faults
  /\ LegacyRecords \in {0, 1}
  /\ LegacyRecords = 1 => "record" \notin Faults

Linked == \A i \in 1..Len(records) : records[i].prev = i - 1

OwnerInDoubt == lockFile # NoCaller /\ pc[lockFile] \in {"written", "dead"}

TipCurrent ==
  \/ tip = Len(records)
  \/ tip = 0 /\ Len(records) = 1 /\ LegacyRecords = 1 /\ torn = {}
  \/ OwnerInDoubt

ReadIsLast == \A c \in Caller : pc[c] = "linked" => prev[c] = Len(records)

ChainInv == Linked /\ TipCurrent /\ ReadIsLast

\* A ledger that begins empty, or with one record, is a single chain.
LEMMA InitChain == SafeEnvironment /\ Init => ChainInv
  <1> SUFFICES ASSUME SafeEnvironment, Init PROVE ChainInv
    OBVIOUS
  <1>1. Len(records) = LegacyRecords /\ Linked
    BY LedgerAssumption DEF Init, Linked
  <1>2. QED
    BY <1>1 DEF Init, SafeEnvironment, ChainInv, TipCurrent, ReadIsLast

\* With the tip file missing, the directory scan finds the only record there is.
LEMMA ScanFindsLast ==
  ASSUME LockInv,
         \/ Len(records) = 0
         \/ Len(records) = 1 /\ torn = {}
  PROVE  ScannedLast \subseteq {Len(records)}
  <1> DEFINE stamps == {records[i].ts : i \in DOMAIN records} \cup torn
             Latest(t) == \A u \in stamps : u <= t
             byRecord == {i \in DOMAIN records : Latest(records[i].ts)}
             byTorn == {0 : t \in {u \in torn : Latest(u)}}
  <1>1. DOMAIN records = 1..Len(records)
    BY DEF LockInv, TypeOK
  <1>2. ScannedLast = IF stamps = {} THEN {0} ELSE byRecord \cup byTorn
    BY Zenon DEF ScannedLast
  <1>3. CASE Len(records) = 0
    <2>1. byRecord = {} /\ byTorn \subseteq {0}
      BY <1>1, <1>3
    <2>2. QED
      BY <1>2, <1>3, <2>1
  <1>4. CASE Len(records) = 1 /\ torn = {}
    <2>1. 1 \in DOMAIN records /\ byRecord \subseteq {1} /\ byTorn = {}
      BY <1>1, <1>4
    <2>2. records[1].ts \in stamps
      BY <2>1
    <2>3. QED
      BY <1>2, <1>4, <2>1, <2>2
  <1>5. QED
    BY <1>3, <1>4

\* In a safe environment each step keeps the records linked one after the other,
\* with the tip on the last whenever nobody is between record and tip.
LEMMA NextChain ==
  SafeEnvironment /\ LockInv /\ ChainInv /\ [Next]_vars => ChainInv'
  <1> SUFFICES ASSUME SafeEnvironment, LockInv, ChainInv, [Next]_vars PROVE ChainInv'
    OBVIOUS
  <1> USE LedgerAssumption, CallerNotNobody
  <1>seq. /\ records \in Seq(RecordType) /\ Len(records) \in Nat
          /\ DOMAIN records = 1..Len(records)
          /\ pc \in [Caller -> Steps]
    BY DEF LockInv, TypeOK
  <1>1. ASSUME NEW c \in Caller,
               \/ Begin(c) \/ LockExists(c) \/ SpinAgain(c) \/ GiveUp(c) \/ AcquireLock(c)
        PROVE ChainInv'
    <2>1. UNCHANGED <<records, torn, tip>> /\ (UNCHANGED prev)
      BY <1>1 DEF Begin, LockExists, SpinAgain, GiveUp, AcquireLock, callVars
    <2>2. \A d \in Caller : pc'[d] = "linked" => pc[d] = "linked"
      BY <1>1, <1>seq DEF Begin, LockExists, SpinAgain, GiveUp, AcquireLock, At
    <2>3. OwnerInDoubt => OwnerInDoubt'
      BY <1>1, <1>seq DEF Begin, LockExists, SpinAgain, GiveUp, AcquireLock, At,
         OwnerInDoubt, LockInv, TypeOK
    <2>4. QED
      BY <2>1, <2>2, <2>3 DEF ChainInv, Linked, TipCurrent, ReadIsLast
  <1>2. ASSUME NEW c \in Caller, ReadPrev(c) PROVE ChainInv'
    <2>1. /\ pc[c] = "locked" /\ pc' = [pc EXCEPT ![c] = "linked"]
          /\ UNCHANGED <<records, torn, tip, lockFile>>
      BY <1>2 DEF ReadPrev, At
    <2>2. PICK h \in IF tip # 0 THEN {tip} ELSE ScannedLast : prev' = [prev EXCEPT ![c] = h]
      BY <1>2 DEF ReadPrev
    <2>3. lockFile = c /\ ~OwnerInDoubt
      BY <2>1 DEF LockInv, OwnsLock, OwnerInDoubt, Inside
    <2>4. h = Len(records)
      <3>1. CASE tip # 0
        BY <2>2, <2>3, <3>1 DEF ChainInv, TipCurrent
      <3>2. CASE tip = 0
        BY <2>2, <2>3, <3>2, ScanFindsLast DEF ChainInv, TipCurrent
      <3>3. QED
        BY <3>1, <3>2
    <2>5. ReadIsLast'
      BY <2>1, <2>2, <2>4, <1>seq DEF ChainInv, ReadIsLast, LockInv, TypeOK
    <2>6. QED
      BY <2>1, <2>3, <2>5 DEF ChainInv, Linked, TipCurrent
  <1>3. ASSUME NEW c \in Caller, WriteRecord(c) PROVE ChainInv'
    <2> DEFINE r == [prev |-> prev[c], ts |-> ts[c]]
    <2>1. /\ pc[c] = "linked" /\ pc' = [pc EXCEPT ![c] = "written"]
          /\ records' = Append(records, r)
          /\ UNCHANGED lockFile
      BY <1>3 DEF WriteRecord, At
    <2>2. r \in RecordType
      BY <1>seq DEF LockInv, TypeOK, RecordType
    <2>3. prev[c] = Len(records)
      BY <2>1 DEF ChainInv, ReadIsLast
    <2>4. /\ Len(records') = Len(records) + 1
          /\ \A i \in 1..Len(records) : records'[i] = records[i]
          /\ records'[Len(records) + 1] = r
      BY <2>1, <2>2, <1>seq, AppendFacts
    <2>5. Linked'
      BY <2>3, <2>4, <1>seq DEF ChainInv, Linked
    <2>6. lockFile = c /\ \A d \in Caller : pc[d] \in Inside => d = c
      BY <2>1 DEF LockInv, OwnsLock, Inside
    <2>7. OwnerInDoubt'
      BY <2>1, <2>6, <1>seq DEF OwnerInDoubt
    <2>8. ReadIsLast'
      BY <2>1, <2>6, <1>seq DEF ReadIsLast, Inside
    <2>9. QED
      BY <2>5, <2>7, <2>8 DEF ChainInv, TipCurrent
  <1>4. ASSUME NEW c \in Caller, WriteRecordFails(c) \/ Collide(c) PROVE ChainInv'
    <2>1. /\ pc[c] = "linked" /\ pc' = [pc EXCEPT ![c] = "threw"]
          /\ UNCHANGED <<records, tip, lockFile, prev>>
      BY <1>4 DEF WriteRecordFails, Collide, At, callVars
    <2>2. LegacyRecords = 1 => torn' = torn
      BY <1>4 DEF WriteRecordFails, Collide, SafeEnvironment
    <2>3. ~OwnerInDoubt
      BY <2>1 DEF LockInv, OwnsLock, OwnerInDoubt, Inside
    <2>4. QED
      BY <2>1, <2>2, <2>3, <1>seq DEF ChainInv, Linked, TipCurrent, ReadIsLast
  <1>5. ASSUME NEW c \in Caller, WriteChainTip(c) PROVE ChainInv'
    <2>1. /\ pc[c] = "written" /\ pc' = [pc EXCEPT ![c] = "tipped"]
          /\ tip' = mine[c]
          /\ UNCHANGED <<records, prev>>
      BY <1>5 DEF WriteChainTip, At, callVars
    <2>2. mine[c] = Len(records)
      BY <2>1 DEF LockInv, WroteLast
    <2>3. QED
      BY <2>1, <2>2, <1>seq DEF ChainInv, Linked, TipCurrent, ReadIsLast
  <1>6. ASSUME NEW c \in Caller, ReleaseAndReturn(c) \/ ReleaseAndRethrow(c) PROVE ChainInv'
    <2>1. /\ pc[c] \in {"tipped", "threw"}
          /\ \E to \in {"idle", "caught"} : pc' = [pc EXCEPT ![c] = to]
          /\ UNCHANGED <<records, torn, tip, prev>>
      BY <1>6 DEF ReleaseAndReturn, ReleaseAndRethrow, At, callVars
    <2>2. ~OwnerInDoubt
      BY <2>1 DEF LockInv, OwnsLock, OwnerInDoubt, Inside
    <2>3. QED
      BY <2>1, <2>2, <1>seq DEF ChainInv, Linked, TipCurrent, ReadIsLast
  <1>7. ASSUME NEW c \in Caller, WriteChainTipFails(c) PROVE ChainInv'
    BY <1>7 DEF WriteChainTipFails, SafeEnvironment
  <1>8. ASSUME NEW c \in Caller, Crash(c) PROVE ChainInv'
    <2>1. /\ pc' = [pc EXCEPT ![c] = "dead"]
          /\ UNCHANGED <<records, tip, lockFile, prev>>
      BY <1>8 DEF Crash
    <2>2. UNCHANGED torn \/ pc[c] = "linked"
      BY <1>8 DEF Crash
    <2>3. CASE lockFile = c
      <3>1. OwnerInDoubt'
        BY <2>1, <2>3, <1>seq DEF OwnerInDoubt
      <3>2. QED
        BY <2>1, <3>1, <1>seq DEF ChainInv, Linked, TipCurrent, ReadIsLast
    <2>4. CASE lockFile # c
      <3>1. UNCHANGED torn
        BY <2>2, <2>4 DEF LockInv, OwnsLock, Inside
      <3>2. OwnerInDoubt => OwnerInDoubt'
        BY <2>1, <2>4, <1>seq DEF OwnerInDoubt, LockInv, TypeOK
      <3>3. QED
        BY <2>1, <3>1, <3>2, <1>seq DEF ChainInv, Linked, TipCurrent, ReadIsLast
    <2>5. QED
      BY <2>3, <2>4
  <1>9. CASE OperatorRemovesLock
    BY <1>9 DEF OperatorRemovesLock, SafeEnvironment
  <1>10. CASE Tick \/ UNCHANGED vars
    BY <1>10 DEF Tick, vars, callVars, ChainInv, Linked, TipCurrent, OwnerInDoubt, ReadIsLast
  <1>11. QED
    BY <1>1, <1>2, <1>3, <1>4, <1>5, <1>6, <1>7, <1>8, <1>9, <1>10
       DEF Next, RecordLedger, CriticalSection

\* Both invariants hold in every reachable state of a safe environment.
LEMMA ChainInvariant == ASSUME SafeEnvironment PROVE Spec => [](LockInv /\ ChainInv)
  BY InitLock, NextLock, InitChain, NextChain, PTL DEF Spec

\* The ledger never forks, whatever calls overlap and wherever processes die.
THEOREM ChainNeverForks == ASSUME SafeEnvironment PROVE Spec => []ChainIntact
  <1>1. ASSUME LockInv, ChainInv PROVE ChainIntact
    <2>0. records \in Seq(RecordType)
      BY <1>1 DEF LockInv, TypeOK
    <2>1. /\ DOMAIN records = 1..Len(records) /\ Len(records) \in Nat
          /\ \A i \in DOMAIN records : records[i].prev = i - 1
      BY <1>1, <2>0 DEF ChainInv, Linked
    <2>2. OneGenesis
      <3>1. SUFFICES ASSUME records # <<>> PROVE \E i \in DOMAIN records : Genesis = {i}
        BY DEF OneGenesis
      <3>2. Len(records) \in Nat \ {0}
        BY <2>0, <3>1, EmptySeq
      <3>3. 1 \in DOMAIN records /\ Genesis = {1}
        BY <2>1, <3>2 DEF Genesis
      <3>4. QED
        BY <3>3
    <2>3. NoDangling
      BY <2>1 DEF NoDangling
    <2>4. NoFork
      BY <2>1 DEF NoFork, Children
    <2>5. QED
      BY <2>2, <2>3, <2>4 DEF ChainIntact
  <1>2. LockInv /\ ChainInv => ChainIntact
    BY <1>1
  <1>3. QED
    BY <1>2, ChainInvariant, PTL

-----------------------------------------------------------------------------
(* The walk.  It misses a record only where the fork check has already      *)
(* spoken: links lead back to older records, so the first record the walk   *)
(* missed would hang on a visited one, as another than its first child.     *)
(* This is an induction on the records, by their least counterexample.      *)

\* A non-empty set of natural numbers has a least element.
LEMMA LeastNat ==
  ASSUME NEW T \in SUBSET Nat, T # {}
  PROVE  \E m \in T : \A k \in T : m <= k
  <1> DEFINE R == OpToRel(<, Nat)
  <1>1. IsWellFoundedOn(R, Nat)
    BY NatLessThanWellFounded
  <1>2. \A x, y \in Nat : y < x => <<y, x>> \in R
    BY DEF OpToRel
  <1> HIDE DEF R
  <1>3. \E x \in T : \A y \in T : ~(<<y, x>> \in R)
    BY <1>1, WFMin
  <1>4. \E x \in T : \A y \in T : ~(y < x)
    BY <1>2, <1>3
  <1>5. QED
    BY <1>4

LinksBack == \A i \in DOMAIN records : records[i].prev < i

\* The recursion of the walk, over any ledger whose links lead back and in which
\* no two records hang on the same one: every record is visited.
LEMMA WalkReachesAll ==
  ASSUME records \in Seq(RecordType), LinksBack, NoFork
  PROVE  Walked = DOMAIN records
  <1> DEFINE D == DOMAIN records
             Visit(f, i) ==
               \/ records[i].prev = 0
               \/ /\ records[i].prev \in 1..(i - 1)
                  /\ f[records[i].prev]
                  /\ FirstChild(records[i].prev) = i
             on == CHOOSE f : f = [i \in D |-> Visit(f, i)]
  <1>1. Walked = {i \in D : on[i]}
    BY DEF Walked
  <1>2. D \in SUBSET Nat /\ \A i \in D : i \in Nat \ {0} /\ 1..(i - 1) \subseteq D
    OBVIOUS
  <1>3. \A i \in D : records[i].prev \in Nat
    <2>1. \A i \in 1..Len(records) : records[i] \in RecordType
      OBVIOUS
    <2>2. QED
      BY <2>1 DEF RecordType
  <1>4. ASSUME NEW i \in D, records[i].prev # 0
        PROVE  records[i].prev \in 1..(i - 1) /\ FirstChild(records[i].prev) = i
    <2>1. records[i].prev \in 1..(i - 1)
      BY <1>2, <1>3, <1>4 DEF LinksBack
    <2>2. Children(records[i].prev) = {i}
      BY <1>2, <2>1 DEF Children, NoFork
    <2>3. QED
      BY <1>2, <2>1, <2>2 DEF FirstChild
  \* The recursive definition denotes something: the constant TRUE satisfies it.
  <1>5. on = [i \in D |-> Visit(on, i)]
    <2> DEFINE all == [i \in D |-> TRUE]
    <2>1. \A i \in D : Visit(all, i)
      <3>1. SUFFICES ASSUME NEW i \in D, records[i].prev # 0 PROVE Visit(all, i)
        OBVIOUS
      <3>2. records[i].prev \in D
        BY <1>2, <1>4, <3>1
      <3>3. QED
        BY <1>4, <3>1, <3>2
    <2>2. all = [i \in D |-> Visit(all, i)]
      BY <2>1
    <2> HIDE DEF all, Visit
    <2>3. QED
      BY <2>2
  \* It denotes nothing else: there is no least record it misses.
  <1>6. \A i \in D : on[i]
    <2> DEFINE Missed == {i \in D : ~on[i]}
    <2> HIDE DEF on
    <2>1. SUFFICES ASSUME Missed # {} PROVE FALSE
      OBVIOUS
    <2>2. Missed \in SUBSET Nat
      BY <1>2
    <2> HIDE DEF Missed
    <2>3. PICK m \in Missed : \A k \in Missed : m <= k
      BY <2>1, <2>2, LeastNat
    <2>4. m \in D /\ ~Visit(on, m)
      BY <1>5, <2>3 DEF Missed
    <2>5. records[m].prev \in 1..(m - 1) /\ FirstChild(records[m].prev) = m
      BY <1>4, <2>4
    <2>6. records[m].prev \in D /\ records[m].prev < m
      BY <1>2, <2>4, <2>5
    <2>7. on[records[m].prev]
      BY <1>2, <2>3, <2>4, <2>6 DEF Missed
    <2>8. QED
      BY <2>4, <2>5, <2>7
  <1>7. QED
    BY <1>1, <1>6

\* Links lead back to older records under every fault: what a caller read is on
\* disk before its own record is.
LEMMA LinksLeadBack == Spec => [](LockInv /\ LinksBack)
  <1>1. Init => LinksBack
    BY LedgerAssumption DEF Init, LinksBack
  <1>2. ASSUME LockInv, LinksBack, [Next]_vars PROVE LinksBack'
    <2>1. CASE UNCHANGED records
      BY <1>2, <2>1 DEF LinksBack
    <2>2. ASSUME NEW c \in Caller, WriteRecord(c) PROVE LinksBack'
      <3> DEFINE r == [prev |-> prev[c], ts |-> ts[c]]
      <3>1. records' = Append(records, r) /\ records \in Seq(RecordType)
        BY <1>2, <2>2 DEF WriteRecord, LockInv, TypeOK
      <3>2. r \in RecordType /\ r.prev \in 0..Len(records)
        BY <1>2, <3>1 DEF LockInv, TypeOK, RecordType
      <3> HIDE DEF r
      <3>3. QED
        BY <1>2, <3>1, <3>2, AppendFacts DEF LinksBack
    <2>3. QED
      BY <1>2, <2>1, <2>2, RecordsChange
  <1>3. QED
    BY <1>1, <1>2, InitLock, NextLock, PTL DEF Spec

\* Under every fault, a ledger without a fork has no record off the chain: of the
\* validator's warnings, "not reachable from genesis" never comes alone.
ForkOrReached == NoFork => AllReached

THEOREM UnreachedMeansForked == Spec => []ForkOrReached
  <1>1. ASSUME LockInv, LinksBack PROVE ForkOrReached
    <2>1. records \in Seq(RecordType)
      BY <1>1 DEF LockInv, TypeOK
    <2>2. QED
      BY <1>1, <2>1, WalkReachesAll DEF ForkOrReached, AllReached
  <1>2. LockInv /\ LinksBack => ForkOrReached
    BY <1>1
  <1>3. QED
    BY <1>2, LinksLeadBack, PTL

\* What the other fork checks amount to, over any ledger whose links lead back: each
\* record is linked to the one written before it.  Otherwise take the first record
\* that is not: it hangs where an older record hangs already, or is a second genesis.
LEMMA CleanIsInOrder ==
  ASSUME records \in Seq(RecordType), LinksBack, ChainIntact
  PROVE  Linked
  <1> DEFINE Astray == {i \in DOMAIN records : records[i].prev # i - 1}
  <1>1. /\ DOMAIN records = 1..Len(records)
        /\ Len(records) \in Nat
        /\ \A i \in 1..Len(records) : records[i].prev \in Nat
    <2>1. \A i \in 1..Len(records) : records[i] \in RecordType
      BY ElementOfSeq
    <2>2. QED
      BY <2>1 DEF RecordType
  <1>2. SUFFICES ASSUME Astray # {} PROVE FALSE
    BY <1>1 DEF Linked
  <1>3. Astray \in SUBSET Nat
    BY <1>1
  <1> HIDE DEF Astray
  <1>4. PICK m \in Astray : \A k \in Astray : m <= k
    BY <1>2, <1>3, LeastNat
  <1>5. m \in 1..Len(records) /\ records[m].prev # m - 1 /\ records[m].prev < m
    BY <1>1, <1>4 DEF Astray, LinksBack
  <1> DEFINE h == records[m].prev
  <1>6. /\ h \in Nat /\ h + 1 < m
        /\ h + 1 \in DOMAIN records
    BY <1>1, <1>5
  <1>7. records[h + 1].prev = h
    <2>1. h + 1 \notin Astray
      BY <1>4, <1>5, <1>6
    <2>2. records[h + 1].prev = (h + 1) - 1
      BY <1>6, <2>1 DEF Astray
    <2>3. QED
      BY <1>6, <2>2
  <1>8. CASE h = 0
    <2>1. m \in Genesis /\ h + 1 \in Genesis
      BY <1>1, <1>5, <1>6, <1>7, <1>8 DEF Genesis
    <2>2. records # <<>>
      BY <1>1, <1>5
    <2>3. QED
      BY <1>6, <2>1, <2>2 DEF ChainIntact, OneGenesis
  <1>9. CASE h # 0
    <2>1. h \in DOMAIN records
      BY <1>1, <1>6, <1>9
    <2>2. m \in Children(h) /\ h + 1 \in Children(h)
      BY <1>1, <1>5, <1>6, <1>7 DEF Children
    <2>3. QED
      BY <1>6, <2>1, <2>2 DEF ChainIntact, NoFork
  <1>10. QED
    BY <1>8, <1>9

\* Under every fault, a ledger that validateLedgerChain finds nothing to say about is
\* the chain in the order of writing: its warnings leave no disorder unreported.
CleanOrReported == ChainIntact => Linked

THEOREM CleanMeansInOrder == Spec => []CleanOrReported
  <1>1. LockInv /\ LinksBack => CleanOrReported
    BY CleanIsInOrder DEF CleanOrReported, LockInv, TypeOK
  <1>2. QED
    BY <1>1, LinksLeadBack, PTL

\* In a safe environment the walk visits every record that was ever written.
THEOREM EveryRecordReached == ASSUME SafeEnvironment PROVE Spec => []NothingOffChain
  <1>1. ChainIntact /\ ForkOrReached => NothingOffChain
    BY DEF ChainIntact, ForkOrReached, NothingOffChain
  <1>2. QED
    BY <1>1, ChainNeverForks, UnreachedMeansForked, PTL

-----------------------------------------------------------------------------
(* What callers are told.  A failing chain-tip write is the one thing that   *)
(* lets a call report a timeout after its record was written.                *)
NoTipFault == "tip" \notin Faults

OutcomeInv ==
  \A c \in Caller :
    /\ pc[c] \in {"waiting", "locked", "linked", "threw", "caught"} => mine[c] = 0
    /\ pc[c] \notin {"idle", "dead"} => outcome[c] = "idle"
    /\ outcome[c] = "ok" => mine[c] # 0
    /\ outcome[c] = "timeout" => mine[c] = 0

\* Nobody has been told anything yet.
LEMMA InitOutcome == Init => OutcomeInv
  BY DEF Init, OutcomeInv

\* Only the tip write can throw after the record file is there, so without that
\* fault a caller is told "timeout" only when it has written nothing.
LEMMA NextOutcome == NoTipFault /\ LockInv /\ OutcomeInv /\ [Next]_vars => OutcomeInv'
  <1> SUFFICES ASSUME NoTipFault, LockInv, OutcomeInv, [Next]_vars PROVE OutcomeInv'
    OBVIOUS
  <1>typ. /\ pc \in [Caller -> Steps]
          /\ mine \in [Caller -> 0..Len(records)]
          /\ outcome \in [Caller -> {"idle", "ok", "timeout"}]
          /\ Len(records) \in Nat
    BY DEF LockInv, TypeOK
  <1>1. ASSUME NEW c \in Caller, Begin(c) PROVE OutcomeInv'
    BY <1>1, <1>typ DEF Begin, At, OutcomeInv
  <1>2. ASSUME NEW c \in Caller, AcquireLock(c) \/ LockExists(c) \/ SpinAgain(c)
        PROVE OutcomeInv'
    BY <1>2, <1>typ DEF AcquireLock, LockExists, SpinAgain, At, callVars, OutcomeInv
  <1>3. ASSUME NEW c \in Caller, GiveUp(c) PROVE OutcomeInv'
    BY <1>3, <1>typ DEF GiveUp, At, callVars, OutcomeInv
  <1>4. ASSUME NEW c \in Caller, ReadPrev(c) PROVE OutcomeInv'
    BY <1>4, <1>typ DEF ReadPrev, At, OutcomeInv
  <1>5. ASSUME NEW c \in Caller, WriteRecord(c) PROVE OutcomeInv'
    BY <1>5, <1>typ DEF WriteRecord, At, OutcomeInv
  <1>6. ASSUME NEW c \in Caller, Collide(c) \/ WriteRecordFails(c) PROVE OutcomeInv'
    BY <1>6, <1>typ DEF Collide, WriteRecordFails, At, callVars, OutcomeInv
  <1>7. ASSUME NEW c \in Caller, WriteChainTip(c) PROVE OutcomeInv'
    BY <1>7, <1>typ DEF WriteChainTip, At, callVars, OutcomeInv
  <1>8. ASSUME NEW c \in Caller, WriteChainTipFails(c) PROVE OutcomeInv'
    BY <1>8 DEF WriteChainTipFails, NoTipFault
  <1>9. ASSUME NEW c \in Caller, ReleaseAndReturn(c) PROVE OutcomeInv'
    <2>1. mine[c] # 0
      BY <1>9 DEF ReleaseAndReturn, At, LockInv, WroteLast
    <2>2. QED
      BY <1>9, <2>1, <1>typ DEF ReleaseAndReturn, At, callVars, OutcomeInv
  <1>10. ASSUME NEW c \in Caller, ReleaseAndRethrow(c) PROVE OutcomeInv'
    BY <1>10, <1>typ DEF ReleaseAndRethrow, At, callVars, OutcomeInv
  <1>11. ASSUME NEW c \in Caller, Crash(c) PROVE OutcomeInv'
    BY <1>11, <1>typ DEF Crash, OutcomeInv
  <1>12. CASE OperatorRemovesLock \/ Tick \/ UNCHANGED vars
    BY <1>12 DEF OperatorRemovesLock, Tick, vars, callVars, OutcomeInv
  <1>13. QED
    BY <1>1, <1>2, <1>3, <1>4, <1>5, <1>6, <1>7, <1>8, <1>9, <1>10, <1>11, <1>12
       DEF Next, RecordLedger, CriticalSection

\* "ok" means the record is on disk, "timeout" that it is not.
THEOREM OutcomesAreHonest == ASSUME NoTipFault PROVE Spec => []OutcomeHonest
  <1>1. LockInv /\ OutcomeInv => OutcomeHonest
    <2> SUFFICES ASSUME LockInv, OutcomeInv, NEW c \in Caller
                 PROVE  /\ outcome[c] = "ok" => mine[c] \in DOMAIN records
                        /\ outcome[c] = "timeout" => mine[c] = 0
      BY DEF OutcomeHonest
    <2>1. /\ DOMAIN records = 1..Len(records)
          /\ Len(records) \in Nat
          /\ mine[c] \in 0..Len(records)
      BY DEF LockInv, TypeOK
    <2>2. QED
      BY <2>1 DEF OutcomeInv
  <1>2. Spec => [](LockInv /\ OutcomeInv)
    BY InitLock, NextLock, InitOutcome, NextOutcome, PTL DEF Spec
  <1>3. QED
    BY <1>1, <1>2, PTL

-----------------------------------------------------------------------------
(* The refinement.                                                          *)

links == [i \in DOMAIN records |-> records[i].prev]
told == [c \in Caller |-> AbstractStatus(c)]

\* The initial records are the log an abstract behaviour starts from.
LEMMA InitMaps == Init => Abstract!LogInit
  <1> SUFFICES ASSUME Init PROVE Abstract!LogInit
    OBVIOUS
  <1>1. /\ DOMAIN records = 1..LegacyRecords
        /\ \A i \in 1..LegacyRecords : records[i].prev = i - 1
        /\ LegacyRecords \in Nat
    BY LedgerAssumption DEF Init
  <1>2. /\ Len(links) = LegacyRecords
        /\ \A i \in 1..LegacyRecords : links[i] = i - 1
    BY <1>1 DEF links
  <1>3. told = [c \in Caller |-> "idle"]
    BY DEF Init, told, AbstractStatus
  <1>4. QED
    BY <1>2, <1>3 DEF Abstract!LogInit, links, told

\* A step that leaves the records alone changes what one caller has been told
\* along one of the abstract actions, or nothing.
LEMMA QuietMaps ==
  ASSUME LockInv, OutcomeInv, NoTipFault, [Next]_vars, UNCHANGED records
  PROVE  Abstract!LogNext \/ UNCHANGED Abstract!logVars
  <1>typ. /\ pc \in [Caller -> Steps]
          /\ mine \in [Caller -> 0..Len(records)]
          /\ outcome \in [Caller -> {"idle", "ok", "timeout"}]
    BY DEF LockInv, TypeOK
  <1>same. links' = links
    BY DEF links
  <1>1. ASSUME NEW c \in Caller, NEW a, NEW b,
               told' = [told EXCEPT ![c] = b],
               told[c] = a,
               \/ a \in {"idle", "ok", "timeout"} /\ b = "pending"
               \/ a = "committed" /\ b = "ok"
               \/ a = "pending" /\ b = "timeout"
               \/ b = "dead"
        PROVE  Abstract!LogNext
    <2>1. Abstract!Call(c) \/ Abstract!Return(c) \/ Abstract!Die(c)
      BY <1>1, <1>same DEF Abstract!Call, Abstract!Return, Abstract!Die,
         Abstract!Returned, links, told
    <2>2. QED
      BY <2>1 DEF Abstract!LogNext
  <1>2. ASSUME told' = told PROVE UNCHANGED Abstract!logVars
    BY <1>2, <1>same DEF Abstract!logVars, links, told
  <1>3. ASSUME NEW c \in Caller, Begin(c) PROVE Abstract!LogNext
    <2>1. told' = [told EXCEPT ![c] = "pending"] /\ told[c] = outcome[c]
      BY <1>3, <1>typ DEF Begin, At, told, AbstractStatus
    <2>2. QED
      BY <2>1, <1>1, <1>typ
  <1>4. ASSUME NEW c \in Caller, GiveUp(c) PROVE Abstract!LogNext
    <2>1. mine[c] = 0 /\ pc[c] = "caught"
      BY <1>4 DEF GiveUp, At, OutcomeInv
    <2>2. told' = [told EXCEPT ![c] = "timeout"] /\ told[c] = "pending"
      BY <1>4, <2>1, <1>typ DEF GiveUp, At, callVars, told, AbstractStatus
    <2>3. QED
      BY <2>2, <1>1
  <1>5. ASSUME NEW c \in Caller, ReleaseAndReturn(c) PROVE Abstract!LogNext
    <2>1. mine[c] # 0 /\ pc[c] = "tipped"
      BY <1>5 DEF ReleaseAndReturn, At, LockInv, WroteLast
    <2>2. told' = [told EXCEPT ![c] = "ok"] /\ told[c] = "committed"
      BY <1>5, <2>1, <1>typ DEF ReleaseAndReturn, At, callVars, told, AbstractStatus
    <2>3. QED
      BY <2>2, <1>1
  <1>6. ASSUME NEW c \in Caller, Crash(c) PROVE Abstract!LogNext
    <2>1. told' = [told EXCEPT ![c] = "dead"]
      BY <1>6, <1>typ DEF Crash, told, AbstractStatus
    <2>2. QED
      BY <2>1, <1>1
  <1>7. ASSUME NEW c \in Caller,
               \/ AcquireLock(c) \/ LockExists(c) \/ SpinAgain(c) \/ ReadPrev(c)
               \/ Collide(c) \/ WriteRecordFails(c) \/ WriteChainTip(c)
               \/ ReleaseAndRethrow(c)
        PROVE  told' = told
    <2>1. /\ pc[c] \notin {"idle", "dead"} /\ pc'[c] \notin {"idle", "dead"}
          /\ \A d \in Caller \ {c} : pc'[d] = pc[d]
          /\ UNCHANGED <<mine, outcome>>
      BY <1>7, <1>typ DEF AcquireLock, LockExists, SpinAgain, ReadPrev, Collide,
         WriteRecordFails, WriteChainTip, ReleaseAndRethrow, At, callVars
    <2>2. \A d \in Caller : AbstractStatus(d)' = AbstractStatus(d)
      BY <2>1 DEF AbstractStatus
    <2>3. QED
      BY <2>2 DEF told
  <1>8. ASSUME NEW c \in Caller, WriteRecord(c) PROVE FALSE
    <2>1. records' = Append(records, [prev |-> prev[c], ts |-> ts[c]])
      BY <1>8 DEF WriteRecord
    <2>2. records \in Seq(RecordType) /\ [prev |-> prev[c], ts |-> ts[c]] \in RecordType
      BY DEF LockInv, TypeOK, RecordType
    <2>3. Len(records') = Len(records) + 1 /\ Len(records) \in Nat
      BY <2>1, <2>2, AppendFacts
    <2>4. QED
      BY <2>3
  <1>9. ASSUME NEW c \in Caller, WriteChainTipFails(c) PROVE FALSE
    BY <1>9 DEF WriteChainTipFails, NoTipFault
  <1>10. CASE OperatorRemovesLock \/ Tick \/ UNCHANGED vars
    <2>1. UNCHANGED <<pc, mine, outcome>>
      BY <1>10 DEF OperatorRemovesLock, Tick, vars, callVars
    <2>2. told' = told
      BY <2>1 DEF told, AbstractStatus
    <2>3. QED
      BY <2>2, <1>2
  <1>11. QED
    BY <1>2, <1>3, <1>4, <1>5, <1>6, <1>7, <1>8, <1>9, <1>10
       DEF Next, RecordLedger, CriticalSection

\* Writing the record file is the commit.
LEMMA WriteMaps ==
  ASSUME LockInv, ChainInv, OutcomeInv, NEW c \in Caller, WriteRecord(c)
  PROVE  Abstract!Commit(c)
  <1> DEFINE r == [prev |-> prev[c], ts |-> ts[c]]
  <1>1. /\ pc[c] = "linked" /\ pc' = [pc EXCEPT ![c] = "written"]
        /\ records' = Append(records, r)
        /\ mine' = [mine EXCEPT ![c] = Len(records) + 1]
        /\ UNCHANGED outcome
    BY DEF WriteRecord, At
  <1>2. /\ records \in Seq(RecordType)
        /\ Len(records) \in Nat
        /\ DOMAIN records = 1..Len(records)
        /\ r \in RecordType
        /\ pc \in [Caller -> Steps]
        /\ mine \in [Caller -> 0..Len(records)]
    BY DEF LockInv, TypeOK, RecordType
  <1>3. prev[c] = Len(records) /\ mine[c] = 0
    BY <1>1 DEF ChainInv, ReadIsLast, OutcomeInv
  <1>4. links \in Seq(Nat) /\ Len(links) = Len(records)
    <2>1. \A i \in 1..Len(records) : records[i].prev \in Nat
      <3>1. \A i \in 1..Len(records) : records[i] \in RecordType
        BY <1>2, ElementOfSeq
      <3>2. QED
        BY <3>1 DEF RecordType
    <2>2. links = [i \in 1..Len(records) |-> records[i].prev]
      BY <1>2 DEF links
    <2>3. QED
      BY <1>2, <2>1, <2>2
  <1>5. links' = Append(links, Len(links))
    <2>1. /\ DOMAIN records' = 1..(Len(records) + 1)
          /\ \A i \in 1..Len(records) : records'[i] = records[i]
          /\ records'[Len(records) + 1] = r
      BY <1>1, <1>2, AppendFacts
    <2>2. /\ DOMAIN links' = 1..(Len(records) + 1)
          /\ \A i \in 1..Len(records) : links'[i] = links[i]
          /\ links'[Len(records) + 1] = Len(records)
      BY <2>1, <1>2, <1>3 DEF links
    <2>3. links' = [i \in 1..(Len(records) + 1) |-> links'[i]]
      BY <2>1 DEF links
    <2>4. QED
      BY <2>2, <2>3, <1>2, <1>4
  <1>6. told' = [told EXCEPT ![c] = "committed"] /\ told[c] = "pending"
    <2>1. mine'[c] # 0 /\ pc'[c] = "written"
      BY <1>1, <1>2
    <2>2. \A d \in Caller \ {c} : pc'[d] = pc[d] /\ mine'[d] = mine[d] /\ outcome'[d] = outcome[d]
      BY <1>1, <1>2
    <2>3. AbstractStatus(c)' = "committed" /\ AbstractStatus(c) = "pending"
      BY <1>1, <1>3, <2>1 DEF AbstractStatus
    <2>4. \A d \in Caller \ {c} : AbstractStatus(d)' = AbstractStatus(d)
      BY <2>2 DEF AbstractStatus
    <2>5. QED
      BY <2>3, <2>4 DEF told
  <1>7. QED
    BY <1>5, <1>6 DEF Abstract!Commit, links, told

\* Every step is a step of the abstract log or leaves it unchanged.
LEMMA StepMaps ==
  SafeEnvironment /\ LockInv /\ ChainInv /\ OutcomeInv /\ [Next]_vars
    => [Abstract!LogNext]_(Abstract!logVars)
  <1> SUFFICES ASSUME SafeEnvironment, LockInv, ChainInv, OutcomeInv, [Next]_vars
               PROVE  Abstract!LogNext \/ UNCHANGED Abstract!logVars
    OBVIOUS
  <1>1. CASE UNCHANGED records
    BY <1>1, QuietMaps DEF SafeEnvironment, NoTipFault
  <1>2. CASE \E c \in Caller : WriteRecord(c)
    BY <1>2, WriteMaps DEF Abstract!LogNext
  <1>3. QED
    BY <1>1, <1>2, RecordsChange

\* In a safe environment the record store is an atomic append-only log.
THEOREM LedgerImplementsLog == ASSUME SafeEnvironment PROVE Spec => ImplementsAppendLog
  <1>1. SafeEnvironment => NoTipFault
    BY DEF SafeEnvironment, NoTipFault
  <1>2. Spec => [](LockInv /\ ChainInv /\ OutcomeInv)
    BY <1>1, InitLock, NextLock, InitChain, NextChain, InitOutcome, NextOutcome, PTL DEF Spec
  <1>3. QED
    BY <1>2, InitMaps, StepMaps, PTL DEF Spec, ImplementsAppendLog, Abstract!LogSpec
=============================================================================
