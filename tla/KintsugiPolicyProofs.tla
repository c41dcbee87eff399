------------------------ MODULE KintsugiPolicyProofs ------------------------
(***************************************************************************)
(* Theorems about KintsugiPolicy, for any number of processes, every fault *)
(* set and every bound: that the policy in force can always be restored;   *)
(* that until two operations overlap it is the recorded one and was        *)
(* loosened only when confirmed; and what loosens it when they do overlap. *)
(***************************************************************************)
EXTENDS KintsugiPolicy, SequenceTheorems, TLAPS

(* What an operation holds on to: its policy has a snapshot from the moment *)
(* it may become the active one, and the anchor it read is on disk.         *)
SnapshotHeld ==
  \A p \in Process :
    /\ pc[p] \in {"activate", "record", "applied", "anchor", "entry"} => job[p].after \in history
    /\ pc[p] = "initActivate" => Default \in history
    /\ pc[p] = "entry" => job[p].head \in DOMAIN records

StoreInv == TypeOK /\ SnapshotFirst /\ SnapshotHeld

\* The value that stands for "no active.policy.json" is not a policy.
LEMMA NoPolicyIsNone == NoPolicy \notin Policy /\ Default \in Policy
  BY DEF NoPolicy, Policy, Patch, Default

\* What getKintsugiPolicy returns is always a policy.
LEMMA ReadIsPolicy == TypeOK => ReadPolicy \in Policy
  BY NoPolicyIsNone DEF TypeOK, ReadPolicy

(* Appending keeps what is there and puts the new element last. *)
LEMMA AppendFacts ==
  ASSUME NEW S, NEW s \in Seq(S), NEW e \in S
  PROVE  /\ Append(s, e) \in Seq(S)
         /\ Len(Append(s, e)) = Len(s) + 1
         /\ DOMAIN Append(s, e) = 1..(Len(s) + 1)
         /\ DOMAIN s = 1..Len(s)
         /\ Len(s) \in Nat
         /\ \A i \in 1..Len(s) : Append(s, e)[i] = s[i]
         /\ Append(s, e)[Len(s) + 1] = e
  OBVIOUS

\* A record adds at most the policy after its change to those recorded.
LEMMA RecordedGrows ==
  ASSUME records \in Seq(RecordType), NEW r \in RecordType, records' = Append(records, r)
  PROVE  /\ RecordedAfter' \subseteq RecordedAfter \cup {r.after}
         /\ DOMAIN records \subseteq DOMAIN records'
         /\ records' \in Seq(RecordType)
         /\ records' # <<>>
  <1> USE AppendFacts
  <1>1. /\ DOMAIN records' = 1..(Len(records) + 1) /\ DOMAIN records = 1..Len(records)
        /\ Len(records) \in Nat /\ Len(records') = Len(records) + 1
        /\ records' \in Seq(RecordType)
    OBVIOUS
  <1>2. \A i \in 1..(Len(records) + 1) :
          records'[i] = IF i = Len(records) + 1 THEN r ELSE records[i]
    BY <1>1
  <1>3. RecordedAfter' \subseteq RecordedAfter \cup {r.after}
    <2> SUFFICES ASSUME NEW i \in DOMAIN records', records'[i].change
                 PROVE  records'[i].after \in RecordedAfter \cup {r.after}
      BY DEF RecordedAfter, ChangeRecords
    <2>1. CASE i = Len(records) + 1
      BY <2>1, <1>1, <1>2
    <2>2. CASE i # Len(records) + 1
      <3>1. i \in DOMAIN records /\ records[i].change /\ records'[i].after = records[i].after
        BY <2>2, <1>1, <1>2
      <3>2. QED
        BY <3>1 DEF RecordedAfter, ChangeRecords
    <2>3. QED
      BY <2>1, <2>2
  <1>4. QED
    BY <1>1, <1>3

(* A step of p that writes no file keeps SnapshotFirst; one that only adds  *)
(* snapshots and records keeps what the other processes hold.               *)
LEMMA OthersHold ==
  ASSUME SnapshotHeld, NEW p \in Process,
         history \subseteq history', DOMAIN records \subseteq DOMAIN records',
         \A q \in Process \ {p} : pc'[q] = pc[q] /\ job'[q] = job[q],
         pc'[p] \in {"activate", "record", "applied", "anchor", "entry"} => job'[p].after \in history',
         pc'[p] = "initActivate" => Default \in history',
         pc'[p] = "entry" => job'[p].head \in DOMAIN records'
  PROVE  SnapshotHeld'
  <1> SUFFICES ASSUME NEW q \in Process
               PROVE  /\ pc'[q] \in {"activate", "record", "applied", "anchor", "entry"} => job'[q].after \in history'
                      /\ pc'[q] = "initActivate" => Default \in history'
                      /\ pc'[q] = "entry" => job'[q].head \in DOMAIN records'
    BY DEF SnapshotHeld
  <1>1. CASE q = p
    BY <1>1
  <1>2. CASE q # p
    BY <1>2 DEF SnapshotHeld
  <1>3. QED
    BY <1>1, <1>2

\* A step that leaves the files alone.
LEMMA FilesUntouched ==
  ASSUME StoreInv, NEW p \in Process, UNCHANGED <<active, history, records, entries>>,
         torn' \in BOOLEAN, unrecorded' \in BOOLEAN, overlap' \in BOOLEAN,
         NEW to \in Steps, pc' = [pc EXCEPT ![p] = to],
         NEW j \in JobType, job' = [job EXCEPT ![p] = j],
         to \in {"activate", "record", "applied", "anchor", "entry"} => j.after \in history,
         to = "initActivate" => Default \in history,
         to = "entry" => j.head \in DOMAIN records
  PROVE  StoreInv'
  <1>1. pc' \in [Process -> Steps] /\ job' \in [Process -> JobType]
    BY DEF StoreInv, TypeOK
  <1>2. TypeOK'
    BY <1>1 DEF StoreInv, TypeOK
  <1>3. SnapshotFirst'
    BY DEF StoreInv, SnapshotFirst, RecordedAfter, ChangeRecords
  <1>4. /\ pc'[p] = to /\ job'[p] = j
        /\ \A q \in Process \ {p} : pc'[q] = pc[q] /\ job'[q] = job[q]
    BY DEF StoreInv, TypeOK
  <1>5. SnapshotHeld'
    BY <1>4, OthersHold DEF StoreInv
  <1>6. QED
    BY <1>2, <1>3, <1>5 DEF StoreInv

\* The empty store satisfies the invariant.
LEMMA InitStore == Init => StoreInv
  <1> SUFFICES ASSUME Init PROVE StoreInv
    OBVIOUS
  <1>1. NoJob \in JobType
    BY NoPolicyIsNone DEF NoJob, JobType, Patch
  <1>2. records \in Seq(RecordType) /\ entries \in Seq(EntryType)
    BY DEF Init
  <1>3. pc \in [Process -> Steps] /\ job \in [Process -> JobType]
    BY <1>1 DEF Init, Steps
  <1>4. TypeOK
    BY <1>2, <1>3 DEF Init, TypeOK
  <1>5. SnapshotFirst /\ SnapshotHeld
    BY DEF Init, SnapshotFirst, SnapshotHeld, RecordedAfter, ChangeRecords
  <1>6. QED
    BY <1>4, <1>5 DEF StoreInv

\* The end of a capability drops what it held, whatever it did.
LEMMA AbandonKeeps ==
  ASSUME StoreInv, NEW p \in Process, Abandon(p), overlap' \in BOOLEAN
  PROVE  StoreInv'
  <1>1. NoJob \in JobType
    BY NoPolicyIsNone DEF NoJob, JobType, Patch
  <1>2. torn' \in BOOLEAN /\ unrecorded' \in BOOLEAN
    BY DEF Abandon, MayTear, StoreInv, TypeOK
  <1>3. QED
    BY <1>1, <1>2, FilesUntouched DEF Abandon, Finish, Steps

\* Every step of every process keeps it.
LEMMA NextStore == StoreInv /\ [Next]_vars => StoreInv'
  <1> SUFFICES ASSUME StoreInv, [Next]_vars PROVE StoreInv'
    OBVIOUS
  <1> USE NoPolicyIsNone
  <1>1. ReadPolicy \in Policy
    BY ReadIsPolicy DEF StoreInv
  <1>2. CASE UNCHANGED vars
    BY <1>2 DEF vars, StoreInv, TypeOK, SnapshotFirst, SnapshotHeld, RecordedAfter, ChangeRecords
  <1>3. ASSUME NEW p \in Process, Capability(p) \/ Crash(p), overlap' \in BOOLEAN
        PROVE  StoreInv'
    <2>0. /\ overlap' \in BOOLEAN
          /\ job[p] \in JobType /\ job = [job EXCEPT ![p] = job[p]]
          /\ \A to : \A q \in Process \ {p} : [pc EXCEPT ![p] = to][q] = pc[q]
          /\ \A j : \A q \in Process \ {p} : [job EXCEPT ![p] = j][q] = job[q]
          /\ \A to : [pc EXCEPT ![p] = to][p] = to
          /\ torn \in BOOLEAN /\ unrecorded \in BOOLEAN
      BY <1>3 DEF StoreInv, TypeOK
    <2>1. CASE StartFix(p)
      <3>1. PICK j \in JobType : job' = [job EXCEPT ![p] = j]
        <4>1. PICK x \in Patch, ok \in BOOLEAN :
                job' = [job EXCEPT ![p] = [NoJob EXCEPT !.op = "fix", !.patch = x,
                                             !.confirm = ok, !.saw = ReadPolicy]]
          BY <2>1, PolicyAssumption DEF StartFix, Start
        <4>2. [NoJob EXCEPT !.op = "fix", !.patch = x, !.confirm = ok, !.saw = ReadPolicy] \in JobType
          BY <1>1 DEF JobType, NoJob
        <4>3. QED
          BY <4>1, <4>2
      <3>2. UNCHANGED <<store, unrecorded>>
        BY <2>1 DEF StartFix, Start
      <3>3. PICK to \in {"init", "decide"} : pc' = [pc EXCEPT ![p] = to]
        BY <2>1 DEF StartFix, Start, At
      <3>4. QED
        BY <1>3, <2>0, <3>1, <3>2, <3>3, FilesUntouched DEF store, Steps
    <2>2. CASE StartRollback(p)
      <3>1. PICK j \in JobType : job' = [job EXCEPT ![p] = j]
        <4>1. PICK k \in 1..Len(entries), ok \in BOOLEAN :
                job' = [job EXCEPT ![p] = [NoJob EXCEPT !.op = "rollback", !.target = k,
                                             !.confirm = ok, !.saw = ReadPolicy]]
          BY <2>2 DEF StartRollback, Start
        <4>2. k \in Nat
          BY DEF StoreInv, TypeOK
        <4>3. [NoJob EXCEPT !.op = "rollback", !.target = k, !.confirm = ok, !.saw = ReadPolicy] \in JobType
          BY <1>1, <4>2 DEF JobType, NoJob, Patch
        <4>4. QED
          BY <4>1, <4>3
      <3>2. UNCHANGED <<store, unrecorded>>
        BY <2>2 DEF StartRollback, Start
      <3>3. PICK to \in {"init", "decide"} : pc' = [pc EXCEPT ![p] = to]
        BY <2>2 DEF StartRollback, Start, At
      <3>4. QED
        BY <1>3, <2>0, <3>1, <3>2, <3>3, FilesUntouched DEF store, Steps
    <2>3. CASE StartBaseline(p)
      <3>1. [NoJob EXCEPT !.op = "baseline", !.saw = ReadPolicy] \in JobType
        BY <1>1 DEF JobType, NoJob, Patch
      <3>2. QED
        BY <1>3, <2>0, <2>3, <3>1, FilesUntouched DEF StartBaseline, Start, At, store, Steps
    <2>4. CASE PolicyExists(p)
      BY <1>3, <2>0, <2>4, FilesUntouched DEF PolicyExists, At, store, Steps
    <2>5. CASE PolicyMissing(p)
      BY <1>3, <2>0, <2>5, FilesUntouched DEF PolicyMissing, At, store, Steps
    <2>6. CASE InitSnapshot(p)
      <3>1. TypeOK' /\ SnapshotFirst'
        BY <2>0, <2>6 DEF InitSnapshot, At, StoreInv, TypeOK, Steps, SnapshotFirst, RecordedAfter, ChangeRecords
      <3>2. QED
        BY <1>3, <2>0, <2>6, <3>1, OthersHold DEF InitSnapshot, At, StoreInv
    <2>7. CASE InitActivate(p)
      <3>1. Default \in history
        BY <1>3, <2>7 DEF InitActivate, At, StoreInv, SnapshotHeld
      <3>2. TypeOK' /\ SnapshotFirst'
        BY <2>0, <2>7, <3>1 DEF InitActivate, At, StoreInv, TypeOK, Steps, SnapshotFirst, RecordedAfter, ChangeRecords
      <3>3. QED
        BY <1>3, <2>0, <2>7, <3>2, OthersHold DEF InitActivate, At, StoreInv
    <2>8. CASE InitFails(p)
      <3>1. torn' \in BOOLEAN
        BY <2>0, <2>8 DEF InitFails, MayTear
      <3>2. QED
        BY <1>3, <2>0, <2>8, <3>1, FilesUntouched DEF InitFails, At, Steps
    <2>9. CASE ApplyFix(p) \/ ApplyRollback(p) \/ ApplyBaseline(p)
      <3>1. PICK b \in Policy, a \in Policy : Decide(p, b, a)
        <4>1. CASE ApplyFix(p)
          <5>1. Patched(p) \in Policy
            BY <1>1, <2>0 DEF Patched, JobType, Policy
          <5>2. QED
            BY <1>1, <4>1, <5>1 DEF ApplyFix
        <4>2. CASE ApplyRollback(p)
          <5>1. job[p].target \in 1..Len(entries)
            BY <4>2 DEF ApplyRollback, RollbackAllowed, Candidates
          <5>2. entries[job[p].target] \in EntryType
            BY <5>1, ElementOfSeq DEF StoreInv, TypeOK
          <5>3. QED
            BY <1>1, <4>2, <5>2 DEF ApplyRollback, EntryType
        <4>3. CASE ApplyBaseline(p)
          BY <2>0, <4>3 DEF ApplyBaseline, JobType
        <4>4. QED
          BY <2>9, <4>1, <4>2, <4>3
      <3>2. [job[p] EXCEPT !.before = b, !.after = a] \in JobType
        BY <2>0 DEF JobType
      <3>3. job' = [job EXCEPT ![p] = [job[p] EXCEPT !.before = b, !.after = a]]
        BY <3>1, <2>0, <1>3 DEF Decide, StoreInv, TypeOK
      <3>4. QED
        BY <1>3, <2>0, <3>1, <3>2, <3>3, FilesUntouched DEF Decide, At, store, Steps
    <2>10. CASE Refuse(p)
      <3>1. NoJob \in JobType
        BY DEF NoJob, JobType, Patch
      <3>2. QED
        BY <1>3, <2>0, <2>10, <3>1, FilesUntouched DEF Refuse, At, store, Steps
    <2>11. CASE Snapshot(p)
      <3>1. job[p].after \in Policy
        BY <2>0 DEF JobType
      <3>2. TypeOK' /\ SnapshotFirst'
        BY <2>0, <2>11, <3>1 DEF Snapshot, At, StoreInv, TypeOK, Steps, SnapshotFirst, RecordedAfter, ChangeRecords
      <3>3. QED
        BY <1>3, <2>0, <2>11, <3>2, OthersHold DEF Snapshot, At, StoreInv
    <2>12. CASE Activate(p)
      <3>1. job[p].after \in history /\ job[p].after \in Policy
        BY <1>3, <2>0, <2>12 DEF Activate, At, StoreInv, SnapshotHeld, JobType
      <3>2. PICK to \in {"anchor", "record"} : pc' = [pc EXCEPT ![p] = to]
        BY <2>12 DEF Activate, At
      <3>3. TypeOK' /\ SnapshotFirst'
        BY <2>0, <2>12, <3>1, <3>2 DEF Activate, StoreInv, TypeOK, Steps, SnapshotFirst, RecordedAfter, ChangeRecords
      <3>4. QED
        BY <1>3, <2>0, <2>12, <3>1, <3>2, <3>3, OthersHold DEF Activate, StoreInv
    <2>13. ASSUME NEW r \in RecordType, r.after = job[p].after,
                  records' = Append(records, r), unrecorded' \in BOOLEAN,
                  pc[p] \in {"record", "applied", "anchor"},
                  NEW to \in {"idle", "applied", "entry"}, pc' = [pc EXCEPT ![p] = to],
                  NEW j \in JobType, job' = [job EXCEPT ![p] = j],
                  to # "idle" => j.after = job[p].after,
                  to = "entry" => j.head \in DOMAIN records',
                  UNCHANGED <<torn, active, history, entries>>
           PROVE  StoreInv'
      <3>1. /\ RecordedAfter' \subseteq RecordedAfter \cup {r.after}
            /\ DOMAIN records \subseteq DOMAIN records'
            /\ records' \in Seq(RecordType)
        BY <2>13, RecordedGrows DEF StoreInv, TypeOK
      <3>2. job[p].after \in history
        BY <1>3, <2>13 DEF StoreInv, SnapshotHeld
      <3>3. SnapshotFirst'
        BY <2>13, <3>1, <3>2 DEF StoreInv, SnapshotFirst
      <3>4. TypeOK'
        BY <2>0, <2>13, <3>1 DEF StoreInv, TypeOK, Steps
      <3>5. job'[p] = j /\ pc'[p] = to
        BY <1>3, <2>13 DEF StoreInv, TypeOK
      <3>6. SnapshotHeld'
        BY <1>3, <2>0, <2>13, <3>1, <3>2, <3>5, OthersHold DEF StoreInv
      <3>7. QED
        BY <3>3, <3>4, <3>6 DEF StoreInv
    <2>14. ChangeRecord(p) \in RecordType /\ OtherRecord(p) \in RecordType /\ NoJob \in JobType
      BY <2>0 DEF ChangeRecord, OtherRecord, RecordType, JobType, NoJob, Patch
    <2>15. CASE RecordFix(p)
      BY <2>0, <2>13, <2>14, <2>15 DEF RecordFix, At, Finish, ChangeRecord
    <2>16. CASE RecordRollback(p)
      BY <2>0, <2>13, <2>14, <2>16 DEF RecordRollback, At, ChangeRecord
    <2>17. CASE RecordApplied(p)
      BY <2>0, <2>13, <2>14, <2>17 DEF RecordApplied, At, Finish, OtherRecord
    <2>18. CASE Anchor(p)
      <3> DEFINE j == [job[p] EXCEPT !.head = Len(records')]
      <3>1. job' = [job EXCEPT ![p] = j]
        BY <2>0, <2>18, <1>3 DEF Anchor, StoreInv, TypeOK
      <3>2. CASE records = <<>>
        <4>1. records' = Append(records, OtherRecord(p))
          BY <2>18, <3>2 DEF Anchor
        <4>2. Len(records') \in DOMAIN records' /\ Len(records') \in Nat
          BY <4>1, <2>14, AppendFacts DEF StoreInv, TypeOK
        <4>3. j \in JobType /\ j.after = job[p].after /\ j.head = Len(records')
          BY <2>0, <4>2 DEF JobType
        <4>4. OtherRecord(p).after = job[p].after
          BY DEF OtherRecord
        <4> HIDE DEF j
        <4>5. QED
          BY <2>0, <2>13, <2>14, <2>18, <3>1, <4>1, <4>2, <4>3, <4>4 DEF Anchor, At
      <3>3. CASE records # <<>>
        <4>1. records' = records
          BY <2>18, <3>3 DEF Anchor
        <4>2. Len(records) \in DOMAIN records /\ Len(records) \in Nat
          BY <3>3, EmptySeq DEF StoreInv, TypeOK
        <4>3. j \in JobType /\ j.after = job[p].after /\ j.head = Len(records)
          BY <2>0, <4>1, <4>2 DEF JobType
        <4>4. job[p].after \in history
          BY <1>3, <2>18 DEF Anchor, At, StoreInv, SnapshotHeld
        <4>5. pc' = [pc EXCEPT ![p] = "entry"] /\ UNCHANGED <<torn, active, history, entries, unrecorded>>
          BY <2>18 DEF Anchor, At
        <4> HIDE DEF j
        <4>6. torn' \in BOOLEAN /\ unrecorded' \in BOOLEAN
          BY <4>5 DEF StoreInv, TypeOK
        <4>7. j \in JobType /\ j.after \in history /\ j.head \in DOMAIN records
          BY <4>2, <4>3, <4>4
        <4>8. "entry" \in Steps /\ "entry" # "initActivate" /\ p \in Process
          BY <1>3 DEF Steps
        <4>9. UNCHANGED <<active, history, records, entries>>
          BY <4>1, <4>5
        <4>10. QED
          BY <2>0, <3>1, <4>5, <4>6, <4>7, <4>8, <4>9, FilesUntouched
      <3>4. QED
        BY <3>2, <3>3
    <2>19. CASE WriteEntry(p)
      <3> DEFINE e == [policy |-> job[p].after, head |-> job[p].head]
      <3>1. e.policy \in history /\ e.head \in DOMAIN records
        BY <1>3, <2>19 DEF WriteEntry, At, StoreInv, SnapshotHeld
      <3>2. e \in EntryType
        BY <2>0, <3>1 DEF EntryType, JobType, StoreInv, TypeOK
      <3>3. /\ entries' = Append(entries, e)
            /\ UNCHANGED <<torn, active, history, records, unrecorded>>
            /\ pc' = [pc EXCEPT ![p] = "idle"] /\ job' = [job EXCEPT ![p] = NoJob]
        BY <2>19 DEF WriteEntry, At, Finish
      <3> HIDE DEF e
      <3>4. /\ entries' \in Seq(EntryType)
            /\ \A k \in DOMAIN entries' : (k \in DOMAIN entries /\ entries'[k] = entries[k]) \/ entries'[k] = e
        <4>1. entries \in Seq(EntryType)
          BY DEF StoreInv, TypeOK
        <4>2. QED
          BY <3>2, <3>3, <4>1, AppendFacts
      <3>5. TypeOK'
        BY <2>0, <2>14, <3>3, <3>4 DEF StoreInv, TypeOK, Steps
      <3>6. SnapshotFirst'
        BY <3>1, <3>3, <3>4 DEF StoreInv, SnapshotFirst, RecordedAfter, ChangeRecords
      <3>7. SnapshotHeld'
        <4>1. SnapshotHeld /\ pc'[p] = "idle" /\ records' = records /\ history' = history
          BY <2>0, <3>3 DEF StoreInv
        <4>2. \A q \in Process \ {p} : pc'[q] = pc[q] /\ job'[q] = job[q]
          BY <2>0, <3>3
        <4>3. QED
          BY <1>3, <4>1, <4>2, OthersHold
      <3>8. QED
        BY <3>5, <3>6, <3>7 DEF StoreInv
    <2>20. CASE WriteFails(p) \/ AppendFails(p) \/ Crash(p)
      BY <1>3, <2>20, AbandonKeeps DEF WriteFails, AppendFails, Crash
    <2>21. QED
      BY <1>3, <2>1, <2>2, <2>3, <2>4, <2>5, <2>6, <2>7, <2>8, <2>9, <2>10, <2>11, <2>12,
         <2>15, <2>16, <2>17, <2>18, <2>19, <2>20 DEF Capability
  <1>4. Next => overlap' \in BOOLEAN
    BY DEF Next
  <1>5. QED
    BY <1>2, <1>3, <1>4 DEF Next

\* Every variable always has its type, however many processes run.
THEOREM PolicyTypeCorrect == Spec => []TypeOK
  <1>1. StoreInv => TypeOK
    BY DEF StoreInv
  <1>2. QED
    BY InitStore, NextStore, <1>1, PTL DEF Spec

\* Whatever is in force, recorded or marked known good has a snapshot it can be
\* restored from, with any number of processes and any fault.
THEOREM SnapshotsComeFirst == Spec => []SnapshotFirst
  <1>1. StoreInv => SnapshotFirst
    BY DEF StoreInv
  <1>2. QED
    BY InitStore, NextStore, <1>1, PTL DEF Spec

-----------------------------------------------------------------------------
(* Operations that overlap.  What each decided is confirmed where it        *)
(* loosens the policy it decided on.                                        *)

Decided(p) ==
  pc[p] \in {"snapshot", "activate"} =>
    (IsLoosening(job[p].before, job[p].after) => job[p].confirm)

\* One step of an operation keeps its own decision, and touches no other's.
LEMMA NextDecided ==
  StoreInv /\ (\A p \in Process : Decided(p)) /\ [Next]_vars => (\A p \in Process : Decided(p))'
  <1> SUFFICES ASSUME StoreInv, \A p \in Process : Decided(p), [Next]_vars
               PROVE  \A p \in Process : Decided(p)'
    OBVIOUS
  <1>1. CASE UNCHANGED vars
    BY <1>1 DEF vars, Decided
  <1>2. ASSUME NEW p \in Process, Capability(p) \/ Crash(p), NEW q \in Process
        PROVE  Decided(q)'
    <2>0. /\ DOMAIN pc = Process
          /\ DOMAIN job = Process
          /\ job[p] \in JobType
      BY DEF StoreInv, TypeOK
    <2>1. CASE ApplyFix(p) \/ ApplyRollback(p) \/ ApplyBaseline(p)
      <3>1. PICK before, after :
              /\ Decide(p, before, after)
              /\ IsLoosening(before, after) => job[p].confirm
        <4>1. CASE ApplyFix(p)
          BY <4>1 DEF ApplyFix, FixAllowed
        <4>2. CASE ApplyRollback(p)
          BY <4>2 DEF ApplyRollback, RollbackAllowed
        <4>3. CASE ApplyBaseline(p)
          BY <4>3 DEF ApplyBaseline, IsLoosening
        <4>4. QED
          BY <2>1, <4>1, <4>2, <4>3
      <3>2. /\ pc' = [pc EXCEPT ![p] = "snapshot"]
            /\ job' = [job EXCEPT ![p].before = before, ![p].after = after]
        BY <3>1 DEF Decide, At
      <3>3. job'[p].before = before /\ job'[p].after = after /\ job'[p].confirm = job[p].confirm
        BY <2>0, <3>2 DEF JobType
      <3>4. CASE q = p
        BY <3>1, <3>3, <3>4 DEF Decided
      <3>5. CASE q # p
        BY <2>0, <3>2, <3>5 DEF Decided
      <3>6. QED
        BY <3>4, <3>5
    <2>2. CASE Snapshot(p)
      BY <2>0, <2>2 DEF Snapshot, At, Decided
    <2>3. CASE ~(ApplyFix(p) \/ ApplyRollback(p) \/ ApplyBaseline(p)) /\ ~Snapshot(p)
      <3>1. /\ pc'[p] \notin {"snapshot", "activate"}
            /\ q # p => pc'[q] = pc[q] /\ job'[q] = job[q]
        BY <1>2, <2>0, <2>3 DEF Capability, Crash, StartFix, StartRollback, StartBaseline, Start,
           PolicyExists, PolicyMissing, InitSnapshot, InitActivate, InitFails, Refuse, Activate,
           RecordFix, RecordRollback, RecordApplied, Anchor, WriteEntry, WriteFails, AppendFails,
           Abandon, Finish, At
      <3>2. QED
        BY <3>1 DEF Decided
    <2>4. QED
      BY <2>1, <2>2, <2>3
  <1>3. QED
    BY <1>1, <1>2 DEF Next

\* However operations overlap, one that loosens the policy in force without being
\* confirmed decided on a policy that was no longer in force when it activated its own
\* (proposeFixes, baselinePre and rollbackKnownGood read, decide and write unlocked).
THEOREM OnlyStaleDecisionsLoosen == Spec => UnconfirmedIsStale
  <1> DEFINE Explained ==
        Loosened =>
          \E p \in Process :
               /\ pc[p] = "activate" /\ pc'[p] # "activate"
               /\ active' = job[p].after
               /\ job[p].confirm \/ job[p].before # ReadPolicy
  <1>1. Init => \A p \in Process : Decided(p)
    BY DEF Init, Decided
  <1>2. StoreInv /\ (\A p \in Process : Decided(p)) /\ [Next]_vars => [Explained]_vars
    <2> SUFFICES ASSUME StoreInv, \A p \in Process : Decided(p),
                        NEW p \in Process, Capability(p) \/ Crash(p),
                        active' # active, IsLoosening(ReadPolicy, active')
                 PROVE  /\ pc[p] = "activate" /\ pc'[p] # "activate"
                        /\ active' = job[p].after
                        /\ job[p].confirm \/ job[p].before # ReadPolicy
      BY DEF Next, Loosened
    <2>1. CASE Activate(p)
      <3>1. pc[p] = "activate" /\ pc'[p] # "activate" /\ active' = job[p].after
        BY <2>1 DEF Activate, At, StoreInv, TypeOK
      <3>2. QED
        BY <3>1 DEF Decided
    <2>2. CASE InitActivate(p)
      BY <2>2 DEF InitActivate, IsLoosening, Default
    <2>3. CASE ~Activate(p) /\ ~InitActivate(p)
      <3>1. UNCHANGED active
        BY <2>3 DEF Capability, Crash, StartFix, StartRollback, StartBaseline, Start, PolicyExists,
           PolicyMissing, InitSnapshot, InitFails, ApplyFix, ApplyRollback, ApplyBaseline, Decide,
           Refuse, Snapshot, RecordFix, RecordRollback, RecordApplied, Anchor, WriteEntry,
           WriteFails, AppendFails, Abandon, store
      <3>2. QED
        BY <3>1
    <2>4. QED
      BY <2>1, <2>2, <2>3
  <1>3. QED
    BY InitStore, NextStore, NextDecided, <1>1, <1>2, PTL DEF Spec, UnconfirmedIsStale

-----------------------------------------------------------------------------
(* Operations that do not overlap: at most one process works on the policy. *)

(* Between an activation and its record the policy in force is the one      *)
(* about to be recorded, and the one before it was in force; otherwise the  *)
(* policy in force is the recorded one.  What an operation read stays true  *)
(* until it acts on it.                                                     *)
InForce == (\A p \in Process : pc[p] # "record") => unrecorded \/ LastRecorded(ReadPolicy)
StillTrue(p) ==
  /\ pc[p] = "record" => job[p].after = ReadPolicy /\ (unrecorded \/ LastRecorded(job[p].before))
  /\ pc[p] \in {"init", "initSnapshot", "initActivate", "decide"} => job[p].saw = ReadPolicy
  /\ pc[p] \in {"initSnapshot", "initActivate"} => active = NoPolicy
  /\ pc[p] \in {"snapshot", "activate"} =>
       /\ job[p].before = ReadPolicy
       /\ job[p].op = "baseline" => job[p].after = job[p].before
       /\ IsLoosening(job[p].before, job[p].after) => job[p].confirm

SoloInv == InForce /\ \A p \in Process : StillTrue(p)

\* Until two operations have overlapped.
AloneInv == ~overlap => ~TwoBusy /\ SoloInv

\* A step of a process begins, continues or ends its own operation and no other's.
LEMMA StepIsOwn ==
  ASSUME StoreInv, NEW p \in Process, Capability(p) \/ Crash(p)
  PROVE  /\ pc[p] # "idle" \/ pc'[p] # "idle"
         /\ \A q \in Process \ {p} : pc'[q] = pc[q]
  <1>1. DOMAIN pc = Process
    BY DEF StoreInv, TypeOK
  <1>2. CASE StartFix(p) \/ StartRollback(p) \/ StartBaseline(p)
    BY <1>1, <1>2 DEF StartFix, StartRollback, StartBaseline, Start, At
  <1>3. CASE ~(StartFix(p) \/ StartRollback(p) \/ StartBaseline(p))
    BY <1>1, <1>3 DEF Capability, Crash, PolicyExists, PolicyMissing, InitSnapshot, InitActivate,
       InitFails, ApplyFix, ApplyRollback, ApplyBaseline, Decide, Refuse, Snapshot, Activate,
       RecordFix, RecordRollback, RecordApplied, Anchor, WriteEntry, WriteFails, AppendFails,
       Abandon, At
  <1>4. QED
    BY <1>2, <1>3

\* The policy after an appended change is the last recorded one.
LEMMA ChangeIsLast ==
  ASSUME records \in Seq(RecordType), NEW r \in RecordType, r.change,
         records' = Append(records, r)
  PROVE  \A v : v = r.after => LastRecorded(v)'
  <1> USE AppendFacts
  <1>1. /\ DOMAIN records' = 1..(Len(records) + 1) /\ Len(records) \in Nat
        /\ records'[Len(records) + 1] = r
    OBVIOUS
  <1>2. Len(records) + 1 \in ChangeRecords' /\ \A j \in ChangeRecords' : j <= Len(records) + 1
    BY <1>1 DEF ChangeRecords
  <1>3. QED
    BY <1>1, <1>2 DEF LastRecorded

\* An appended record of another kind leaves the last recorded policy alone.
LEMMA OtherKeepsLast ==
  ASSUME records \in Seq(RecordType), NEW r \in RecordType, ~r.change,
         records' = Append(records, r)
  PROVE  \A v : LastRecorded(v) => LastRecorded(v)'
  <1> USE AppendFacts
  <1>1. /\ DOMAIN records' = 1..(Len(records) + 1) /\ Len(records) \in Nat
        /\ DOMAIN records = 1..Len(records)
        /\ \A i \in 1..(Len(records) + 1) :
              records'[i] = IF i = Len(records) + 1 THEN r ELSE records[i]
    OBVIOUS
  <1>2. ChangeRecords' = ChangeRecords /\ \A i \in ChangeRecords : records'[i] = records[i]
    BY <1>1 DEF ChangeRecords
  <1>3. QED
    BY <1>2 DEF LastRecorded

\* Nothing recorded and nothing in force is a consistent start.
LEMMA InitAlone == Init => AloneInv
  BY DEF Init, AloneInv, TwoBusy, SoloInv, InForce, StillTrue, LastRecorded, ChangeRecords, ReadPolicy

\* A step of the only process in an operation keeps it.
LEMMA NextAlone == StoreInv /\ AloneInv /\ [Next]_vars => AloneInv'
  <1> SUFFICES ASSUME StoreInv, AloneInv, [Next]_vars PROVE AloneInv'
    OBVIOUS
  <1> USE NoPolicyIsNone
  <1>1. CASE UNCHANGED vars
    BY <1>1 DEF vars, AloneInv, TwoBusy, SoloInv, InForce, StillTrue, LastRecorded, ChangeRecords, ReadPolicy
  <1>2. ASSUME NEW p \in Process, Capability(p) \/ Crash(p), ~overlap, ~TwoBusy'
        PROVE  SoloInv'
    <2>0. /\ \A q \in Process \ {p} : pc[q] = "idle" /\ pc'[q] = "idle"
          /\ \A to : [pc EXCEPT ![p] = to][p] = to
          /\ \A j : [job EXCEPT ![p] = j][p] = j
          /\ StillTrue(p)
          /\ pc[p] # "record" => unrecorded \/ LastRecorded(ReadPolicy)
      <3>1. ~TwoBusy /\ SoloInv
        BY <1>2 DEF AloneInv
      <3>2. \A q \in Process \ {p} : pc[q] = "idle" /\ pc'[q] = "idle"
        BY <1>2, <3>1, StepIsOwn DEF TwoBusy
      <3>3. pc[p] # "record" => \A q \in Process : pc[q] # "record"
        BY <3>2
      <3>4. StillTrue(p) /\ (pc[p] # "record" => unrecorded \/ LastRecorded(ReadPolicy))
        BY <1>2, <3>1, <3>3 DEF SoloInv, InForce
      <3>5. /\ \A to : [pc EXCEPT ![p] = to][p] = to
            /\ \A j : [job EXCEPT ![p] = j][p] = j
        BY <1>2 DEF StoreInv, TypeOK
      <3>6. QED
        BY <3>2, <3>4, <3>5
    <2>1. SUFFICES /\ pc'[p] # "record" => unrecorded' \/ LastRecorded(ReadPolicy)'
                   /\ StillTrue(p)'
      <3>1. \A q \in Process \ {p} : StillTrue(q)'
        BY <2>0 DEF StillTrue
      <3>2. QED
        BY <1>2, <2>1, <3>1 DEF SoloInv, InForce
    <2>2. UNCHANGED <<active, records>> =>
            ReadPolicy' = ReadPolicy /\ \A v : LastRecorded(v)' <=> LastRecorded(v)
      BY DEF ReadPolicy, LastRecorded, ChangeRecords
    <2>3. CASE StartFix(p) \/ StartRollback(p) \/ StartBaseline(p)
      <3>1. /\ pc[p] = "idle" /\ pc'[p] \in {"init", "decide"} /\ job'[p].saw = ReadPolicy
            /\ UNCHANGED <<active, records, unrecorded>>
        <4>1. PICK op, next :
                Start(p, op, next) /\ op.saw = ReadPolicy /\ next \in {"init", "decide"}
          <5>1. CASE StartFix(p)
            BY <5>1 DEF StartFix, NoJob
          <5>2. CASE StartRollback(p)
            BY <5>2 DEF StartRollback, NoJob
          <5>3. CASE StartBaseline(p)
            BY <5>3 DEF StartBaseline, NoJob
          <5>4. QED
            BY <2>3, <5>1, <5>2, <5>3
        <4>2. QED
          BY <2>0, <4>1 DEF Start, At, store
      <3>2. QED
        BY <2>0, <2>2, <3>1 DEF StillTrue
    <2>4. CASE PolicyExists(p) \/ PolicyMissing(p) \/ InitSnapshot(p) \/ InitFails(p)
      <3>1. /\ pc[p] \in {"init", "initSnapshot", "initActivate"}
            /\ pc'[p] \in {"decide", "initSnapshot", "initActivate"}
            /\ pc'[p] \in {"initSnapshot", "initActivate"} => active = NoPolicy
            /\ UNCHANGED <<active, records, job, unrecorded>>
        BY <2>0, <2>4 DEF PolicyExists, PolicyMissing, InitSnapshot, InitFails, At, store, StillTrue
      <3>2. QED
        BY <2>0, <2>2, <3>1 DEF StillTrue
    <2>5. CASE InitActivate(p)
      <3>1. /\ pc[p] = "initActivate" /\ pc'[p] = "decide"
            /\ UNCHANGED <<records, job, unrecorded>> /\ active' = Default
        BY <2>0, <2>5 DEF InitActivate, At
      <3>2. ReadPolicy' = ReadPolicy
        BY <2>0, <3>1 DEF ReadPolicy, StillTrue
      <3>3. QED
        BY <2>0, <3>1, <3>2 DEF StillTrue, LastRecorded, ChangeRecords
    <2>6. CASE ApplyFix(p) \/ ApplyRollback(p) \/ ApplyBaseline(p)
      <3>1. PICK b, a :
              /\ Decide(p, b, a) /\ b = ReadPolicy
              /\ job[p].op = "baseline" => a = b
              /\ IsLoosening(b, a) => job[p].confirm
        <4>1. CASE ApplyFix(p)
          BY <4>1 DEF ApplyFix, FixAllowed
        <4>2. CASE ApplyRollback(p)
          BY <4>2 DEF ApplyRollback, RollbackAllowed
        <4>3. CASE ApplyBaseline(p)
          <5>1. job[p].saw = ReadPolicy
            BY <2>0, <4>3 DEF ApplyBaseline, Decide, At, StillTrue
          <5>2. ~IsLoosening(job[p].saw, job[p].saw)
            BY DEF IsLoosening
          <5>3. QED
            BY <4>3, <5>1, <5>2 DEF ApplyBaseline
        <4>4. QED
          BY <2>6, <4>1, <4>2, <4>3
      <3>2. /\ pc[p] = "decide" /\ pc'[p] = "snapshot"
            /\ UNCHANGED <<active, records, unrecorded>>
            /\ job'[p].before = b /\ job'[p].after = a
            /\ job'[p].op = job[p].op /\ job'[p].confirm = job[p].confirm
        BY <1>2, <2>0, <3>1 DEF Decide, At, store, StoreInv, TypeOK, JobType
      <3>3. QED
        BY <2>0, <2>2, <3>1, <3>2 DEF StillTrue, IsLoosening
    <2>7. CASE Refuse(p)
      <3>1. pc[p] = "decide" /\ pc'[p] = "idle" /\ UNCHANGED <<active, records, unrecorded>>
        BY <2>0, <2>7 DEF Refuse, At, store
      <3>2. QED
        BY <2>0, <2>2, <3>1 DEF StillTrue
    <2>8. CASE Snapshot(p)
      <3>1. pc[p] = "snapshot" /\ pc'[p] = "activate" /\ UNCHANGED <<active, records, job, unrecorded>>
        BY <2>0, <2>8 DEF Snapshot, At
      <3>2. QED
        BY <2>0, <2>2, <3>1 DEF StillTrue
    <2>9. CASE Activate(p)
      <3>1. /\ pc[p] = "activate" /\ active' = job[p].after
            /\ pc'[p] = (IF job[p].op = "baseline" THEN "anchor" ELSE "record")
            /\ UNCHANGED <<records, job, unrecorded>>
        BY <2>0, <2>9 DEF Activate, At
      <3>2. active' \in Policy
        BY <1>2, <3>1 DEF StoreInv, TypeOK, JobType
      <3>3. ReadPolicy' = job[p].after
        BY <3>1, <3>2 DEF ReadPolicy
      <3>4. \A v : LastRecorded(v)' <=> LastRecorded(v)
        BY <3>1 DEF LastRecorded, ChangeRecords
      <3>5. QED
        BY <2>0, <3>1, <3>3, <3>4 DEF StillTrue
    <2>10. records \in Seq(RecordType) /\ job[p] \in JobType
      BY <1>2 DEF StoreInv, TypeOK
    <2>11. CASE RecordFix(p) \/ RecordRollback(p)
      <3>1. /\ pc[p] = "record" /\ pc'[p] \in {"idle", "applied"}
            /\ UNCHANGED active /\ unrecorded' = FALSE
            /\ records' = Append(records, ChangeRecord(p))
        BY <2>0, <2>11 DEF RecordFix, RecordRollback, At
      <3>2. PICK r \in RecordType : r = ChangeRecord(p)
        BY <2>10 DEF ChangeRecord, RecordType, JobType
      <3>3. r.change /\ r.after = ReadPolicy
        BY <2>0, <3>1, <3>2 DEF ChangeRecord, StillTrue
      <3>4. ReadPolicy' = ReadPolicy
        BY <3>1 DEF ReadPolicy
      <3>5. \A v : v = r.after => LastRecorded(v)'
        BY <2>10, <3>1, <3>2, <3>3, ChangeIsLast
      <3>6. LastRecorded(ReadPolicy)'
        BY <3>3, <3>4, <3>5 DEF LastRecorded
      <3>7. QED
        BY <3>1, <3>6 DEF StillTrue
    <2>12. CASE RecordApplied(p) \/ Anchor(p)
      <3>1. /\ pc[p] \in {"applied", "anchor"} /\ pc'[p] \in {"idle", "entry"}
            /\ UNCHANGED <<active, unrecorded>>
            /\ records' = records \/ records' = Append(records, OtherRecord(p))
        <4>1. records = <<>> => Append(records, OtherRecord(p)) = <<OtherRecord(p)>>
          BY <2>10
        <4>2. CASE RecordApplied(p)
          BY <2>0, <4>2 DEF RecordApplied, At
        <4>3. CASE Anchor(p)
          <5>1. records' = records \/ records' = Append(records, OtherRecord(p))
            BY <4>1, <4>3 DEF Anchor
          <5>2. QED
            BY <2>0, <4>3, <5>1 DEF Anchor, At
        <4>4. QED
          BY <2>12, <4>2, <4>3
      <3>2. PICK r \in RecordType : r = OtherRecord(p) /\ ~r.change
        <4>1. OtherRecord(p) \in RecordType
          BY <2>10 DEF OtherRecord, RecordType, JobType
        <4>2. ~OtherRecord(p).change
          BY DEF OtherRecord
        <4>3. QED
          BY <4>1, <4>2
      <3>3. \A v : LastRecorded(v) => LastRecorded(v)'
        <4>1. CASE records' = records
          BY <4>1 DEF LastRecorded, ChangeRecords
        <4>2. CASE records' = Append(records, r)
          BY <2>10, <3>2, <4>2, OtherKeepsLast
        <4>3. QED
          BY <3>1, <3>2, <4>1, <4>2
      <3>4. ReadPolicy' = ReadPolicy
        BY <3>1 DEF ReadPolicy
      <3>5. QED
        BY <2>0, <3>1, <3>3, <3>4 DEF StillTrue
    <2>13. CASE WriteEntry(p)
      <3>1. pc[p] = "entry" /\ pc'[p] = "idle" /\ UNCHANGED <<active, records, unrecorded>>
        BY <2>0, <2>13 DEF WriteEntry, At
      <3>2. QED
        BY <2>0, <2>2, <3>1 DEF StillTrue
    <2>14. CASE WriteFails(p) \/ AppendFails(p) \/ Crash(p)
      <3>1. /\ pc'[p] = "idle" /\ UNCHANGED <<active, records>>
            /\ unrecorded' = (unrecorded \/ (pc[p] = "record" /\ job[p].before # job[p].after))
        BY <2>0, <2>14 DEF WriteFails, AppendFails, Crash, Abandon
      <3>2. QED
        BY <2>0, <2>2, <3>1 DEF StillTrue
    <2>15. QED
      BY <1>2, <2>3, <2>4, <2>5, <2>6, <2>7, <2>8, <2>9, <2>11, <2>12, <2>13, <2>14 DEF Capability
  <1>3. CASE Next /\ ~overlap'
    <2>1. PICK p \in Process : Capability(p) \/ Crash(p)
      BY <1>3 DEF Next
    <2>2. ~overlap /\ ~TwoBusy'
      BY <1>3 DEF Next
    <2>3. QED
      BY <1>2, <2>1, <2>2 DEF AloneInv
  <1>4. QED
    BY <1>1, <1>3 DEF AloneInv

\* Until two operations overlap, the policy in force is the one of the last change
\* record, unless a change was cut short between the two.
THEOREM PolicyInForceIsRecorded == Spec => []ActiveIsRecorded
  <1>1. AloneInv => ActiveIsRecorded
    BY DEF AloneInv, SoloInv, InForce, ActiveIsRecorded, Quiet
  <1>2. QED
    BY InitStore, NextStore, InitAlone, NextAlone, <1>1, PTL DEF Spec

\* Until two operations overlap, no unconfirmed operation loosens the policy.
THEOREM LooseningNeedsConfirmation == Spec => LooseningIsConfirmed
  <1> DEFINE Confirmed ==
        Loosened /\ ~overlap => \E p \in Process : pc[p] = "activate" /\ job[p].confirm
  <1>1. StoreInv /\ AloneInv /\ [Next]_vars => [Confirmed]_vars
    <2> SUFFICES ASSUME SoloInv, NEW p \in Process, Capability(p) \/ Crash(p),
                        active' # active, IsLoosening(ReadPolicy, active')
                 PROVE  pc[p] = "activate" /\ job[p].confirm
      BY DEF Next, Loosened, AloneInv
    <2>1. StillTrue(p)
      BY DEF SoloInv
    <2>2. CASE Activate(p)
      BY <2>1, <2>2 DEF Activate, At, StillTrue
    <2>3. CASE InitActivate(p)
      BY <2>3 DEF InitActivate, IsLoosening, Default
    <2>4. CASE ~Activate(p) /\ ~InitActivate(p)
      <3>1. UNCHANGED active
        BY <2>4 DEF Capability, Crash, StartFix, StartRollback, StartBaseline, Start, PolicyExists,
             PolicyMissing, InitSnapshot, InitFails, ApplyFix, ApplyRollback, ApplyBaseline, Decide,
             Refuse, Snapshot, RecordFix, RecordRollback, RecordApplied, Anchor, WriteEntry,
             WriteFails, AppendFails, Abandon, store
      <3>2. QED
        BY <3>1
    <2>5. QED
      BY <2>2, <2>3, <2>4
  <1>2. QED
    BY InitStore, NextStore, InitAlone, NextAlone, <1>1, PTL DEF Spec, LooseningIsConfirmed
=============================================================================
