--------------------------- MODULE SentinelProofs ---------------------------
(***************************************************************************)
(* Proofs about Sentinel, for any number of processes that scan and review *)
(* at once, any selection of the rules and every fault.                    *)
(*                                                                         *)
(* The invariant is about one process.  Covered: what has held since its   *)
(* scan began still has its check ahead, or has been found, or is in the   *)
(* file.  Informed: a review that nothing overlapped knows every decision  *)
(* in a file that can be read, so it decides nothing twice.  Listed: what  *)
(* was in the file as a review began, it has read, if it can be read.      *)
(* Counted: what a lone review has read and written accounts for what is   *)
(* left open.                                                              *)
(***************************************************************************)
EXTENDS Sentinel, FiniteSetTheorems, SequenceTheorems, TLAPS

\* What a process has in its hands at each stage.
IsScan(w) ==
  /\ w.stage \in {"checks", "raising", "reported"}
  /\ DOMAIN w = {"stage", "at", "left", "found", "held"}
  /\ w.at \in 0..MaxTime
  /\ w.left \in Seq(Rules)
  /\ w.found \in Seq(Rules)
  /\ w.stage = "checks" => w.left # <<>>
  /\ w.stage = "raising" => w.found # <<>>

\* Open infractions: some lines of the file, each with its id.
Lines(open) == open \in [DOMAIN open -> Ids] /\ IsFiniteSet(DOMAIN open)

IsReview(w) ==
  \/ /\ w.stage \in {"opened", "reconciled"}
     /\ DOMAIN w = {"stage", "open", "asked", "listed", "alone"}
     /\ Lines(w.open)
     /\ w.asked \in Seq(Ids)
  \/ /\ w.stage = "deciding"
     /\ DOMAIN w = {"stage", "open", "todo", "already", "written", "alone"}
     /\ Lines(w.open)
     /\ w.todo \in Seq(Ids)
     /\ w.written \in 0..Cardinality(Range(w.open) \cap w.already)
  \/ /\ w.stage = "answered"
     /\ DOMAIN w = {"stage", "remaining", "alone"}
     /\ w.remaining \in Nat

Covered(w, writes) ==
  /\ w.stage = "checks" => w.held \subseteq Holding \cap (Range(w.left) \cup Range(w.found))
  /\ w.stage = "raising" =>
       /\ writes
       /\ \A rule \in w.held : rule \in Range(w.found) \/ <<rule, w.at>> \in Range(raised)
  /\ w.stage = "reported" /\ writes =>
       \A rule \in w.held : <<rule, w.at>> \in Range(raised)

Informed(w) ==
  w.stage = "deciding" /\ w.alone /\ "dispositions" \notin unreadable =>
    decided \subseteq w.already

Listed(w) ==
  w.stage = "opened" => w.listed \subseteq Range(w.open) \/ "infractions" \in unreadable

Left == Range(raised) \ decided

StillOpen == Restrict(raised, {i \in DOMAIN raised : raised[i] \notin decided})

Accounts(w) ==
  /\ w.stage = "opened" => w.open = raised
  /\ w.stage = "reconciled" => w.open = StillOpen
  /\ w.stage = "deciding" =>
       /\ w.already = decided
       /\ Range(w.open) \subseteq Range(raised)
       /\ w.written + Cardinality(Left) = Cardinality(DOMAIN w.open)
  /\ w.stage = "answered" => w.remaining = Cardinality(Left)

Counted(w) ==
  (/\ w.stage \in {"opened", "reconciled", "deciding", "answered"}
   /\ w.alone /\ unreadable = {} /\ IsInjective(raised)) => Accounts(w)

Sound(r) ==
  /\ {"stage", "write"} \subseteq DOMAIN run[r]
  /\ (work[r].stage # "resting") <=> (run[r].stage = "working")
  /\ work[r] = Resting \/ IsScan(work[r]) \/ IsReview(work[r])
  /\ Covered(work[r], run[r].write)
  /\ Informed(work[r])
  /\ Listed(work[r])
  /\ Counted(work[r])

FilesOK ==
  /\ DOMAIN work = Run
  /\ DOMAIN run = Run
  /\ other \subseteq OtherRules
  /\ raised \in Seq(Ids)
  /\ decided \in SUBSET Ids
  /\ unreadable \in SUBSET {"infractions", "dispositions"}
  /\ clock \in 0..MaxTime

IInv == FilesOK /\ OneDecisionEach /\ \A r \in Run : Sound(r)

-----------------------------------------------------------------------------
(* Sequences.                                                              *)

\* The first element of a sequence and those after it are its elements.
LEMMA HeadAndTail ==
  ASSUME NEW S, NEW s \in Seq(S), s # <<>>
  PROVE  /\ Head(s) \in S /\ Tail(s) \in Seq(S)
         /\ Range(s) = {Head(s)} \cup Range(Tail(s))
         /\ Len(s) > 1 <=> Tail(s) # <<>>
<1>1. /\ Head(s) = s[1] /\ Head(s) \in S /\ Tail(s) \in Seq(S)
      /\ Len(s) \in Nat \ {0} /\ Len(Tail(s)) = Len(s) - 1
      /\ \A i \in 1..Len(Tail(s)) : Tail(s)[i] = s[i + 1]
  BY EmptySeq, HeadTailProperties
<1>2. Len(s) > 1 <=> Tail(s) # <<>>
  <2>1. Tail(s) # <<>> => Len(Tail(s)) \in Nat \ {0}
    BY <1>1, EmptySeq
  <2>2. Tail(s) = <<>> => Len(Tail(s)) = 0
    BY EmptySeq
  <2> QED
    BY <1>1, <2>1, <2>2
<1>3. Range(s) = {s[i] : i \in 1..Len(s)}
      /\ Range(Tail(s)) = {Tail(s)[i] : i \in 1..Len(Tail(s))}
  BY <1>1, RangeEquality
<1>4. ASSUME NEW i \in 1..Len(s) PROVE s[i] \in {Head(s)} \cup Range(Tail(s))
  <2>1. CASE i = 1
    BY <1>1, <2>1
  <2>2. CASE i # 1
    <3>1. i - 1 \in 1..Len(Tail(s)) /\ (i - 1) + 1 = i
      BY <1>1, <2>2
    <3>2. Tail(s)[i - 1] = s[i]
      BY <1>1, <3>1
    <3> QED
      BY <1>3, <3>1, <3>2
  <2> QED
    BY <2>1, <2>2
<1>5. ASSUME NEW i \in 1..Len(Tail(s)) PROVE Tail(s)[i] \in Range(s)
  <2>1. i + 1 \in 1..Len(s)
    BY <1>1
  <2> QED
    BY <1>1, <1>3, <2>1
<1>6. Head(s) \in Range(s)
  BY <1>1, <1>3
<1> QED
  BY <1>1, <1>2, <1>3, <1>4, <1>5, <1>6

LEMMA NoElements == Range(<<>>) = {}
BY DEF Range

\* The rules that an instance checks are what the sequence of them contains.
LEMMA ChecksOfRules == Checks \in Seq(Rules) /\ Checks # <<>>
BY SeqOfRange, SentinelAssumption DEF Rules

-----------------------------------------------------------------------------
(* Lines and ids.                                                          *)

LEMMA LinesAndIds ==
  ASSUME NEW open, Lines(open)
  PROVE  /\ IsFiniteSet(Range(open))
         /\ Cardinality(Range(open)) <= Cardinality(DOMAIN open)
         /\ IsInjective(open) => Cardinality(Range(open)) = Cardinality(DOMAIN open)
<1> DEFINE S == DOMAIN open
           T == Range(open)
<1>1. open \in Surjection(S, T) /\ IsFiniteSet(S)
  BY DEF Lines, Range, Surjection
<1>2. IsInjective(open) => open \in Injection(S, T)
  BY <1>1 DEF Surjection, Injection, IsInjective
<1> HIDE DEF S, T
<1>3. /\ IsFiniteSet(T) /\ Cardinality(T) <= Cardinality(S)
      /\ Cardinality(T) = Cardinality(S) <=> open \in Injection(S, T)
  BY <1>1, FS_Surjection
<1> QED
  BY <1>2, <1>3 DEF S, T

LEMMA SequenceIsLines == ASSUME NEW s \in Seq(Ids) PROVE Lines(s)
<1>1. Len(s) \in Nat /\ DOMAIN s = 1..Len(s) /\ s \in [1..Len(s) -> Ids]
  OBVIOUS
<1>2. IsFiniteSet(1..Len(s))
  BY <1>1, FS_Interval
<1> QED
  BY <1>1, <1>2 DEF Lines

LEMMA LinesStayLines ==
  ASSUME NEW open, Lines(open), NEW some \in SUBSET DOMAIN open
  PROVE  Lines(Restrict(open, some))
BY FS_Subset DEF Lines, Restrict

LEMMA LeftIsFinite == ASSUME raised \in Seq(Ids) PROVE IsFiniteSet(Left)
<1>1. IsFiniteSet(Range(raised))
  BY SequenceIsLines, LinesAndIds
<1> QED
  BY <1>1, FS_Subset DEF Left

\* Where no two lines have an id in common, as many lines as ids are left.
LEMMA StillOpenIsLeft ==
  ASSUME raised \in Seq(Ids), IsInjective(raised)
  PROVE  /\ Range(StillOpen) = Left
         /\ Cardinality(DOMAIN StillOpen) = Cardinality(Left)
         /\ Cardinality(Left) \in Nat
<1>1. Lines(StillOpen)
  BY SequenceIsLines, LinesStayLines DEF StillOpen
<1>2. Range(StillOpen) = Left /\ IsInjective(StillOpen)
  BY DEF StillOpen, Left, Restrict, Range, IsInjective
<1> QED
  BY <1>1, <1>2, LinesAndIds, FS_CardinalityType

-----------------------------------------------------------------------------
(* One process moves, the others are disturbed at most.                    *)

Bystander(q) ==
  /\ run'[q] = run[q]
  /\ \/ work'[q] = work[q] /\ UNCHANGED <<decided, raised>>
     \/ work'[q] = IF Reviewing(q) THEN [work[q] EXCEPT !.alone = FALSE] ELSE work[q]

LEMMA HoldingStays ==
  ASSUME UNCHANGED <<governance, other>>
  PROVE  Holding' = Holding
<1>1. \A rule : Holds(rule)' = Holds(rule)
  BY DEF Holds, governance, AllowlistEmpty, JudgmentActive, GenesisMissing, LockActive,
         ReceiptsBroken, PolicyUnreadable
<1> QED
  BY <1>1 DEF Holding

LEMMA OthersStaySound ==
  ASSUME NEW q \in Run, Sound(q), Bystander(q), Holding' = Holding,
         Range(raised) \subseteq Range(raised'), unreadable \subseteq unreadable'
  PROVE  Sound(q)'
<1>1. CASE work'[q] = work[q] /\ (Reviewing(q) => UNCHANGED <<decided, raised>>)
  <2>1. Covered(work[q], run[q].write)'
    BY <1>1 DEF Sound, Covered, Bystander
  <2>2. Informed(work[q])'
    BY <1>1 DEF Sound, Informed, Reviewing
  <2>3. Counted(work[q])'
    BY <1>1 DEF Sound, Counted, Accounts, Left, StillOpen, Reviewing
  <2>4. Listed(work[q])'
    BY <1>1 DEF Sound, Listed
  <2> QED
    BY <1>1, <2>1, <2>2, <2>3, <2>4 DEF Sound, Bystander, IsScan, IsReview
<1>2. CASE Reviewing(q) /\ work'[q] = [work[q] EXCEPT !.alone = FALSE]
  <2>1. IsReview(work[q])
    BY <1>2 DEF Sound, Reviewing, IsScan, Resting
  <2>2. IsReview(work'[q]) /\ work'[q].stage = work[q].stage /\ work'[q].alone = FALSE
    BY <1>2, <2>1 DEF IsReview
  <2>3. Covered(work[q], run[q].write)' /\ Informed(work[q])' /\ Counted(work[q])'
    BY <1>2, <2>2 DEF Covered, Informed, Counted, Reviewing
  <2>4. Listed(work[q])'
    <3>1. work[q].stage = "opened" => work'[q].open = work[q].open /\ work'[q].listed = work[q].listed
      BY <1>2, <2>1 DEF IsReview
    <3> QED
      BY <2>2, <3>1 DEF Sound, Listed
  <2> QED
    BY <2>2, <2>3, <2>4 DEF Sound, Bystander, IsReview
<1> QED
  BY <1>1, <1>2 DEF Bystander

LEMMA OneMoves ==
  ASSUME IInv, NEW r \in Run, \A q \in Run \ {r} : Bystander(q),
         UNCHANGED <<governance, other>>, Range(raised) \subseteq Range(raised'),
         unreadable \subseteq unreadable', FilesOK', again' = {}, Sound(r)'
  PROVE  IInv'
<1>1. \A q \in Run : Sound(q)'
  BY HoldingStays, OthersStaySound DEF IInv
<1> QED
  BY <1>1 DEF IInv, OneDecisionEach

-----------------------------------------------------------------------------
(* The scan.                                                               *)

LEMMA StartScanStep == ASSUME IInv, NEW r \in Run, StartScan(r) PROVE IInv'
<1> DEFINE w == [stage |-> "checks", at |-> clock, left |-> Checks, found |-> <<>>,
                 held |-> Holding]
<1>1. Sound(r) /\ FilesOK /\ run[r].stage = "checked"
  BY DEF IInv, StartScan
<1>2. /\ run' = [run EXCEPT ![r] = [@ EXCEPT !.stage = "working"]]
      /\ work' = [work EXCEPT ![r] = w]
      /\ UNCHANGED <<governance, other, raised, decided, unreadable, clock, again>>
  BY DEF StartScan, Enter
<1>3. \A q \in Run \ {r} : Bystander(q)
  BY <1>1, <1>2 DEF FilesOK, Bystander
<1>4. run'[r].stage = "working" /\ work'[r] = w /\ {"stage", "write"} \subseteq DOMAIN run'[r]
  BY <1>1, <1>2 DEF FilesOK, Sound
<1>5. IsScan(work'[r])
  BY <1>1, <1>4, ChecksOfRules DEF IsScan, FilesOK
<1>6. Covered(work[r], run[r].write)' /\ Informed(work[r])' /\ Listed(work[r])' /\ Counted(work[r])'
  <2>1. Holding \subseteq Range(Checks) /\ Holding' = Holding
    BY <1>2, HoldingStays DEF Holding, Rules
  <2> QED
    BY <1>4, <2>1 DEF Covered, Informed, Listed, Counted
<1>7. Sound(r)'
  BY <1>4, <1>5, <1>6 DEF Sound
<1>8. FilesOK'
  BY <1>1, <1>2 DEF FilesOK
<1> QED
  BY <1>2, <1>3, <1>7, <1>8, OneMoves DEF IInv, OneDecisionEach

LEMMA InAScan ==
  ASSUME NEW r \in Run, Sound(r), Scanning(r)
  PROVE  IsScan(work[r])
BY DEF Sound, Scanning, IsReview, Resting

LEMMA InAReview ==
  ASSUME NEW r \in Run, Sound(r), Reviewing(r)
  PROVE  IsReview(work[r])
BY DEF Sound, Reviewing, IsScan, Resting

LEMMA LookStep == ASSUME IInv, NEW r \in Run, Look(r) PROVE IInv'
<1> DEFINE w == work[r]
           rule == Head(w.left)
           found == w.found \o (IF Holds(rule) THEN <<rule>> ELSE <<>>)
           stage == IF Len(w.left) > 1 THEN "checks"
                    ELSE IF run[r].write /\ found # <<>> THEN "raising" ELSE "reported"
<1>1. Sound(r) /\ FilesOK /\ w.stage = "checks" /\ IsScan(w)
  BY InAScan DEF IInv, Look, Scanning
<1>2. /\ work' = [work EXCEPT ![r] =
              [w EXCEPT !.left = Tail(w.left), !.found = found, !.stage = stage]]
      /\ run' = run
      /\ UNCHANGED <<governance, other, raised, decided, unreadable, clock, again>>
  BY DEF Look
<1>3. /\ w.left \in Seq(Rules) /\ w.left # <<>> /\ w.found \in Seq(Rules)
      /\ w.held \subseteq Holding \cap (Range(w.left) \cup Range(w.found))
  BY <1>1 DEF IsScan, Sound, Covered
<1>4. /\ rule \in Rules /\ Tail(w.left) \in Seq(Rules)
      /\ Range(w.left) = {rule} \cup Range(Tail(w.left))
      /\ Len(w.left) > 1 <=> Tail(w.left) # <<>>
  BY <1>3, HeadAndTail
<1> HIDE DEF rule
<1>5. /\ found \in Seq(Rules)
      /\ Range(found) = Range(w.found) \cup (IF Holds(rule) THEN {rule} ELSE {})
  <2>1. CASE Holds(rule)
    <3> DEFINE one == <<rule>>
               before == w.found
    <3>1. found = before \o one /\ before \in Seq(Rules)
      BY <1>3, <2>1
    <3>2. one \in Seq(Rules) /\ Range(one) = {rule}
      BY <1>4 DEF Range
    <3> HIDE DEF one, before
    <3>3. before \o one \in Seq(Rules) /\ Range(before \o one) = Range(before) \cup Range(one)
      BY <3>1, <3>2, RangeConcatenation, ConcatProperties
    <3> QED
      BY <2>1, <3>1, <3>2, <3>3 DEF before
  <2>2. CASE ~Holds(rule)
    BY <1>3, <2>2, ConcatEmptySeq
  <2> QED
    BY <2>1, <2>2
<1>6. w.held \subseteq Holding \cap (Range(Tail(w.left)) \cup Range(found))
  BY <1>3, <1>4, <1>5 DEF Holding
<1> HIDE DEF found, stage
<1>7. \A q \in Run \ {r} : Bystander(q)
  BY <1>1, <1>2 DEF FilesOK, Bystander
<1>8. /\ work'[r].stage = stage /\ work'[r].left = Tail(w.left) /\ work'[r].found = found
      /\ work'[r].held = w.held /\ work'[r].at = w.at
      /\ DOMAIN work'[r] = {"stage", "at", "left", "found", "held"}
  <2>1. work'[r] = [w EXCEPT !.left = Tail(w.left), !.found = found, !.stage = stage]
    BY <1>1, <1>2 DEF FilesOK
  <2> QED
    BY <1>1, <2>1 DEF IsScan
<1>9. IsScan(work'[r])
  BY <1>1, <1>4, <1>5, <1>8 DEF IsScan, stage
<1>10. Covered(work[r], run[r].write)' /\ Informed(work[r])' /\ Listed(work[r])' /\ Counted(work[r])'
  <2>1. Holding' = Holding
    BY <1>2, HoldingStays
  <2>2. stage = "checks" =>
          work'[r].held \subseteq Holding' \cap (Range(work'[r].left) \cup Range(work'[r].found))
    BY <1>6, <1>8, <2>1
  <2>3. stage # "checks" => w.held \subseteq Range(found)
    BY <1>4, <1>6, NoElements DEF stage
  <2>4. stage = "reported" /\ run[r].write => w.held = {}
    BY <1>4, <2>3, NoElements DEF stage
  <2>5. stage = "raising" => run[r].write
    BY DEF stage
  <2>6. stage \in {"checks", "raising", "reported"}
    BY DEF stage
  <2> QED
    BY <1>2, <1>8, <2>2, <2>3, <2>4, <2>5, <2>6 DEF Covered, Informed, Listed, Counted
<1>11. Sound(r)'
  BY <1>1, <1>2, <1>8, <1>9, <1>10 DEF Sound, stage
<1>12. FilesOK'
  BY <1>1, <1>2 DEF FilesOK
<1> QED
  BY <1>2, <1>7, <1>11, <1>12, OneMoves DEF IInv, OneDecisionEach

LEMMA RaiseStep == ASSUME IInv, NEW r \in Run, Raise(r) PROVE IInv'
<1> DEFINE w == work[r]
           id == <<Head(w.found), w.at>>
           rest == Tail(w.found)
           stage == IF rest = <<>> THEN "reported" ELSE "raising"
<1>1. Sound(r) /\ FilesOK /\ w.stage = "raising" /\ IsScan(w)
  BY InAScan DEF IInv, Raise, Scanning
<1>2. /\ work' = Disturbed(r, [w EXCEPT !.found = rest, !.stage = stage])
      /\ raised' = Append(raised, id)
      /\ run' = run
      /\ UNCHANGED <<governance, other, decided, unreadable, clock, again>>
  BY DEF Raise
<1>3. /\ Head(w.found) \in Rules /\ rest \in Seq(Rules)
      /\ Range(w.found) = {Head(w.found)} \cup Range(rest)
  BY <1>1, HeadAndTail DEF IsScan
<1>4. id \in Ids
  BY <1>1, <1>3 DEF IsScan, Ids
<1> HIDE DEF id
<1>5. raised' \in Seq(Ids) /\ Range(raised') = Range(raised) \cup {id}
  <2>1. raised \in Seq(Ids) /\ raised' = raised \o <<id>>
    BY <1>1, <1>2, <1>4, AppendIsConcat DEF FilesOK
  <2>2. <<id>> \in Seq(Ids) /\ Range(<<id>>) = {id}
    BY <1>4 DEF Range
  <2>3. raised' \in Seq(Ids) /\ Range(raised') = Range(raised) \cup Range(<<id>>)
    BY <2>1, <2>2, RangeConcatenation, ConcatProperties
  <2> QED
    BY <2>2, <2>3
<1>6. \A q \in Run \ {r} : Bystander(q)
  BY <1>1, <1>2 DEF FilesOK, Bystander, Disturbed
<1>7. /\ work'[r].stage = stage /\ work'[r].left = w.left /\ work'[r].found = rest
      /\ work'[r].held = w.held /\ work'[r].at = w.at
      /\ DOMAIN work'[r] = {"stage", "at", "left", "found", "held"}
      /\ DOMAIN work' = Run
  BY <1>1, <1>2 DEF Disturbed, IsScan
<1>8. IsScan(work'[r])
  BY <1>1, <1>3, <1>7 DEF IsScan
<1>9. Covered(work[r], run[r].write)' /\ Informed(work[r])' /\ Listed(work[r])' /\ Counted(work[r])'
  <2>1. \A rule \in w.held : rule \in Range(rest) \/ <<rule, w.at>> \in Range(raised')
    BY <1>1, <1>3, <1>5 DEF Sound, Covered, id
  <2>2. rest = <<>> => \A rule \in w.held : <<rule, w.at>> \in Range(raised')
    BY <2>1, NoElements
  <2>3. run[r].write
    BY <1>1 DEF Sound, Covered
  <2> QED
    BY <1>2, <1>7, <2>1, <2>2, <2>3 DEF Covered, Informed, Listed, Counted
<1>10. Sound(r)'
  BY <1>1, <1>2, <1>7, <1>8, <1>9 DEF Sound
<1>11. FilesOK'
  BY <1>1, <1>2, <1>5, <1>7 DEF FilesOK
<1>12. Range(raised) \subseteq Range(raised')
  BY <1>5
<1> QED
  BY <1>2, <1>6, <1>10, <1>11, <1>12, OneMoves DEF IInv, OneDecisionEach

-----------------------------------------------------------------------------
(* The review.                                                             *)

\* A capability of this module returns, or dies.
LEMMA ExitStep ==
  ASSUME IInv, NEW r \in Run, Exit(r),
         UNCHANGED <<governance, other, raised, decided, clock, again>>,
         unreadable \subseteq unreadable', unreadable' \subseteq {"infractions", "dispositions"}
  PROVE  IInv'
<1>1. FilesOK /\ run' = [run EXCEPT ![r] = Idle] /\ work' = [work EXCEPT ![r] = Resting]
  BY DEF IInv, Exit
<1>2. \A q \in Run \ {r} : Bystander(q)
  BY <1>1 DEF FilesOK, Bystander
<1>3. run'[r] = Idle /\ work'[r] = Resting
  BY <1>1 DEF FilesOK
<1>4. Sound(r)'
  BY <1>3 DEF Sound, Idle, Resting, Covered, Informed, Listed, Counted
<1>5. FilesOK'
  BY <1>1 DEF FilesOK
<1> QED
  BY <1>2, <1>4, <1>5, OneMoves DEF IInv, OneDecisionEach

\* A step of a review that leaves the files alone.
LEMMA ReviewMoves ==
  ASSUME IInv, NEW r \in Run, Reviewing(r), \E w : work' = [work EXCEPT ![r] = w],
         IsReview(work'[r]), work'[r].stage # "opened", Informed(work[r])', Counted(work[r])',
         UNCHANGED <<governance, run, other, raised, decided, unreadable, clock, again>>
  PROVE  IInv'
<1>1. FilesOK /\ Sound(r) /\ Reviewing(r)'
  BY DEF IInv, IsReview, Reviewing
<1>2. \A q \in Run \ {r} : Bystander(q)
  BY <1>1 DEF FilesOK, Bystander
<1>3. Covered(work[r], run[r].write)'
  BY <1>1 DEF Covered, Reviewing
<1>4. Sound(r)'
  BY <1>1, <1>3 DEF Sound, Reviewing, Listed
<1>5. FilesOK'
  BY <1>1 DEF FilesOK
<1> QED
  BY <1>2, <1>4, <1>5, OneMoves DEF IInv, OneDecisionEach

LEMMA ReconcileStep == ASSUME IInv, NEW r \in Run, Reconcile(r) PROVE IInv'
<1>1. Sound(r) /\ FilesOK /\ work[r].stage = "opened" /\ Reviewing(r)
  BY DEF IInv, Reconcile, Reviewing
<1>2. CASE Exit(r)
  BY <1>1, <1>2, ExitStep DEF Reconcile, FilesOK
<1>3. CASE ~Exit(r)
  <2> DEFINE open == Undecided(work[r].open)
             w == [work[r] EXCEPT !.open = open, !.stage = "reconciled"]
  <2>1. work' = [work EXCEPT ![r].open = open, ![r].stage = "reconciled"]
        /\ UNCHANGED <<governance, run, other, raised, decided, unreadable, clock, again>>
    BY <1>3 DEF Reconcile
  <2>0. Lines(open)
    BY <1>1, InAReview, LinesStayLines DEF IsReview, Undecided
  <2>a. unreadable = {} /\ work[r].open = raised => open = StillOpen
    BY DEF Undecided, Dispositions, StillOpen
  <2> HIDE DEF open
  <2>2. work' = [work EXCEPT ![r] = w]
    BY <1>1, <2>1 DEF FilesOK
  <2>3. /\ IsReview(w) /\ w.stage = "reconciled"
        /\ w.open = open /\ w.alone = work[r].alone
    BY <1>1, <2>0, InAReview DEF IsReview
  <2> HIDE DEF w
  <2>4. work'[r] = w
    BY <1>1, <2>2 DEF FilesOK
  <2>5. Informed(work[r])'
    BY <2>3, <2>4 DEF Informed
  <2>6. Counted(work[r])'
    <3>1. UNCHANGED <<raised, decided, unreadable>> /\ StillOpen' = StillOpen
      BY <2>1 DEF StillOpen
    <3>2. Counted(work[r])
      BY <1>1 DEF Sound
    <3> QED
      BY <1>1, <2>a, <2>3, <2>4, <3>1, <3>2 DEF Counted, Accounts
  <2> QED
    BY <1>1, <2>1, <2>2, <2>3, <2>4, <2>5, <2>6, ReviewMoves
<1> QED
  BY <1>2, <1>3

LEMMA RereadStep == ASSUME IInv, NEW r \in Run, Reread(r) PROVE IInv'
<1> DEFINE w == [stage |-> "deciding", open |-> work[r].open, todo |-> work[r].asked,
                 already |-> Dispositions, written |-> 0, alone |-> work[r].alone]
<1>1. Sound(r) /\ Reviewing(r) /\ work[r].stage = "reconciled"
  BY DEF IInv, Reread, Reviewing
<1>2. work' = [work EXCEPT ![r] = w]
      /\ UNCHANGED <<governance, run, other, raised, decided, unreadable, clock, again>>
  BY DEF Reread
<1>3. IsReview(w)
  <2>1. /\ IsReview(work[r]) /\ Lines(work[r].open) /\ work[r].asked \in Seq(Ids)
    BY <1>1, InAReview DEF IsReview
  <2>2. 0 \in 0..Cardinality(Range(w.open) \cap w.already)
    <3> DEFINE known == Range(w.open) \cap w.already
    <3>1. IsFiniteSet(known)
      BY <2>1, LinesAndIds, FS_Intersection
    <3> HIDE DEF known
    <3>2. Cardinality(known) \in Nat
      BY <3>1, FS_CardinalityType
    <3> QED
      BY <3>2 DEF known
  <2> QED
    BY <2>1, <2>2 DEF IsReview
<1>4. /\ w.already = Dispositions /\ w.stage = "deciding" /\ w.open = work[r].open
      /\ w.written = 0 /\ w.alone = work[r].alone
  OBVIOUS
<1> HIDE DEF w
<1>5. work'[r] = w
  BY <1>2 DEF IInv, FilesOK
<1>6. Informed(work[r])'
  BY <1>2, <1>4, <1>5 DEF Informed, Dispositions
<1>7. Counted(work[r])'
  <2>1. SUFFICES ASSUME w.alone, unreadable = {}, IsInjective(raised)
                 PROVE  /\ w.already = decided
                        /\ Range(w.open) \subseteq Range(raised)
                        /\ w.written + Cardinality(Left) = Cardinality(DOMAIN w.open)
    BY <1>2, <1>4, <1>5 DEF Counted, Accounts, Left
  <2>2. w.open = StillOpen
    BY <1>1, <1>4, <2>1 DEF Sound, Counted, Accounts
  <2>3. raised \in Seq(Ids)
    BY DEF IInv, FilesOK
  <2>4. Range(StillOpen) = Left /\ Cardinality(DOMAIN StillOpen) = Cardinality(Left)
        /\ Cardinality(Left) \in Nat
    BY <2>1, <2>3, StillOpenIsLeft
  <2>5. w.already = decided
    BY <1>4, <2>1 DEF Dispositions
  <2> QED
    BY <1>4, <2>2, <2>4, <2>5 DEF Left
<1> QED
  BY <1>1, <1>2, <1>3, <1>4, <1>5, <1>6, <1>7, ReviewMoves

LEMMA AnswerStep == ASSUME IInv, NEW r \in Run, Answer(r) PROVE IInv'
<1> DEFINE w == [stage |-> "answered", remaining |-> Remaining(work[r]),
                 alone |-> work[r].alone]
<1>1. Reviewing(r) /\ Sound(r) /\ work[r].stage = "deciding"
  BY DEF Answer, Reviewing, IInv
<1>2. work' = [work EXCEPT ![r] = w]
      /\ UNCHANGED <<governance, run, other, raised, decided, unreadable, clock, again>>
  BY DEF Answer
<1>3. /\ Remaining(work[r]) \in Nat
      /\ \A n \in Nat : work[r].written + n = Cardinality(DOMAIN work[r].open)
                       => Remaining(work[r]) = n
  <2> DEFINE open == work[r].open
             already == work[r].already
             n == Cardinality(Range(open) \cap already)
  <2>1. Lines(open) /\ work[r].written \in 0..n
    BY <1>1, InAReview DEF IsReview
  <2> HIDE DEF open, already
  <2>2. /\ IsFiniteSet(DOMAIN open) /\ IsFiniteSet(Range(open))
        /\ Cardinality(Range(open)) <= Cardinality(DOMAIN open)
    BY <2>1, LinesAndIds DEF Lines
  <2>3. /\ Cardinality(DOMAIN open) \in Nat /\ Cardinality(Range(open)) \in Nat
        /\ n \in Nat /\ n <= Cardinality(Range(open))
    BY <2>2, FS_CardinalityType, FS_Intersection
  <2> HIDE DEF n
  <2> QED
    BY <2>1, <2>2, <2>3 DEF Remaining, open
<1>4. IsReview(w) /\ w.stage = "answered" /\ w.remaining = Remaining(work[r])
      /\ w.alone = work[r].alone
  BY <1>3 DEF IsReview
<1> HIDE DEF w
<1>5. work'[r] = w
  BY <1>2 DEF IInv, FilesOK
<1>6. Informed(work[r])'
  BY <1>4, <1>5 DEF Informed
<1>7. Counted(work[r])'
  <2>1. raised \in Seq(Ids)
    BY DEF IInv, FilesOK
  <2>2. Cardinality(Left) \in Nat /\ Left' = Left
    BY <1>2, <2>1, LeftIsFinite, FS_CardinalityType DEF Left
  <2>3. Counted(work[r])
    BY <1>1 DEF Sound
  <2> QED
    BY <1>1, <1>2, <1>3, <1>4, <1>5, <2>2, <2>3 DEF Counted, Accounts
<1> QED
  BY <1>1, <1>2, <1>4, <1>5, <1>6, <1>7, ReviewMoves

LEMMA StartReviewStep ==
  ASSUME IInv, NEW r \in Run, NEW asked \in Submissions, StartReview(r, asked)
  PROVE  IInv'
<1>1. Sound(r) /\ FilesOK /\ run[r].stage = "checked"
  BY DEF IInv, StartReview, MayWrite
<1>2. /\ run' = [run EXCEPT ![r] = [@ EXCEPT !.stage = "working"]]
      /\ UNCHANGED <<governance, other, raised, decided, unreadable, clock, again>>
  BY DEF StartReview, Enter
<1>3. PICK alone \in BOOLEAN :
        work' = Disturbed(r, [stage |-> "opened", open |-> Open, asked |-> asked,
                              listed |-> Range(raised), alone |-> alone])
  BY DEF StartReview
<1>4. \A q \in Run \ {r} : Bystander(q)
  BY <1>1, <1>2, <1>3 DEF FilesOK, Bystander, Disturbed
<1>5. /\ run'[r].stage = "working" /\ {"stage", "write"} \subseteq DOMAIN run'[r]
      /\ work'[r] = [stage |-> "opened", open |-> Open, asked |-> asked,
                     listed |-> Range(raised), alone |-> alone]
      /\ DOMAIN work' = Run
  BY <1>1, <1>2, <1>3 DEF FilesOK, Sound, Disturbed
<1>6. asked \in Seq(Ids)
  <2>1. Range(raised) \subseteq Ids
    BY <1>1, RangeOfSeq DEF FilesOK
  <2>2. \/ asked = <<>>
        \/ \E i \in Range(raised) : asked = <<i>>
        \/ \E i, j \in Range(raised) : asked = <<i, j>>
    BY DEF Submissions
  <2>3. ASSUME NEW i \in Ids, NEW j \in Ids
        PROVE  <<>> \in Seq(Ids) /\ <<i>> \in Seq(Ids) /\ <<i, j>> \in Seq(Ids)
    OBVIOUS
  <2>4. CASE asked = <<>>
    BY <2>4
  <2>5. CASE \E i \in Range(raised) : asked = <<i>>
    BY <2>1, <2>3, <2>5
  <2>6. CASE \E i, j \in Range(raised) : asked = <<i, j>>
    BY <2>1, <2>3, <2>6
  <2> QED
    BY <2>2, <2>4, <2>5, <2>6
<1>7. IsReview(work'[r]) /\ work'[r].stage = "opened"
  <2>1. Open \in Seq(Ids)
    BY <1>1, EmptySeq DEF Open, FilesOK
  <2>2. Lines(Open)
    BY <2>1, SequenceIsLines
  <2> QED
    BY <1>5, <1>6, <2>2 DEF IsReview
<1>8. Sound(r)'
  <2>1. unreadable' = {} => work'[r].open = raised'
    BY <1>2, <1>5 DEF Open
  <2>2. Counted(work[r])'
    BY <1>7, <2>1 DEF Counted, Accounts
  <2>3. Listed(work[r])'
    BY <1>2, <1>5 DEF Listed, Open
  <2> QED
    BY <1>5, <1>7, <2>2, <2>3 DEF Sound, Covered, Informed
<1>9. FilesOK'
  BY <1>1, <1>2, <1>5 DEF FilesOK
<1> QED
  BY <1>2, <1>4, <1>8, <1>9, OneMoves DEF IInv, OneDecisionEach

LEMMA DecideStep == ASSUME IInv, NEW r \in Run, Decide(r) PROVE IInv'
<1> DEFINE w == work[r]
           id == Head(w.todo)
<1>1. /\ Sound(r) /\ FilesOK /\ Reviewing(r) /\ w.stage = "deciding" /\ w.todo # <<>>
      /\ UNCHANGED <<governance, run, other, raised, unreadable, clock>>
  BY DEF IInv, Decide, Reviewing
<1>2. /\ DOMAIN w = {"stage", "open", "todo", "already", "written", "alone"}
      /\ w.todo \in Seq(Ids) /\ Lines(w.open)
      /\ w.written \in 0..Cardinality(Range(w.open) \cap w.already)
  BY <1>1, InAReview DEF IsReview
<1>3. id \in Ids /\ Tail(w.todo) \in Seq(Ids)
  BY <1>1, <1>2, HeadAndTail
<1>4. CASE work' = [work EXCEPT ![r].todo = Tail(@)] /\ UNCHANGED <<decided, again>>
  <2>1. work' = [work EXCEPT ![r] = [w EXCEPT !.todo = Tail(w.todo)]]
    BY <1>1, <1>2, <1>4 DEF FilesOK
  <2>2. /\ work'[r].stage = "deciding" /\ work'[r].todo = Tail(w.todo)
        /\ work'[r].alone = w.alone /\ work'[r].already = w.already
        /\ work'[r].open = w.open /\ work'[r].written = w.written
        /\ DOMAIN work'[r] = DOMAIN w
    BY <1>1, <1>2, <2>1 DEF FilesOK
  <2>3. IsReview(work'[r])
    BY <1>2, <1>3, <2>2 DEF IsReview
  <2>4. Informed(work[r])'
    BY <1>1, <1>4, <2>2 DEF Sound, Informed
  <2>5. Counted(work[r])'
    <3>1. UNCHANGED <<raised, decided, unreadable, Left, StillOpen>>
      BY <1>1, <1>4 DEF Left, StillOpen
    <3> QED
      BY <1>1, <2>2, <3>1 DEF Sound, Counted, Accounts
  <2> QED
    BY <1>1, <1>4, <2>1, <2>2, <2>3, <2>4, <2>5, ReviewMoves
<1>5. CASE id \in Range(w.open) /\ id \notin w.already /\ Record(r)
  <2>1. /\ decided' = decided \cup {id}
        /\ again' = (IF id \in decided /\ w.alone /\ "dispositions" \notin unreadable
                     THEN again \cup {id} ELSE again)
        /\ work' = Disturbed(r, [w EXCEPT !.todo = Tail(w.todo),
                                          !.already = w.already \cup {id},
                                          !.written = w.written + 1])
    BY <1>5 DEF Record
  <2>2. again' = {}
    BY <1>1, <1>5, <2>1 DEF Sound, Informed, IInv, OneDecisionEach
  <2>3. \A q \in Run \ {r} : Bystander(q)
    BY <1>1, <2>1 DEF FilesOK, Bystander, Disturbed
  <2>4. /\ work'[r].stage = "deciding" /\ work'[r].todo = Tail(w.todo)
        /\ work'[r].alone = w.alone /\ work'[r].already = w.already \cup {id}
        /\ work'[r].open = w.open /\ work'[r].written = w.written + 1
        /\ DOMAIN work'[r] = DOMAIN w /\ DOMAIN work' = Run
    BY <1>1, <1>2, <2>1 DEF Disturbed
  <2>5. IsReview(work'[r])
    <3> DEFINE open == w.open
               known == Range(open) \cap w.already
               after == Range(open) \cap (w.already \cup {id})
    <3>1. after = known \cup {id} /\ id \notin known
      BY <1>5
    <3>2. IsFiniteSet(known)
      BY <1>2, LinesAndIds, FS_Intersection
    <3> HIDE DEF known, after
    <3>3. Cardinality(after) = Cardinality(known) + 1 /\ Cardinality(known) \in Nat
      BY <3>1, <3>2, FS_AddElement, FS_CardinalityType
    <3>4. w.written + 1 \in 0..Cardinality(after)
      BY <1>2, <3>3 DEF known
    <3> QED
      BY <1>2, <1>3, <2>4, <3>4 DEF IsReview, after
  <2>6. Informed(work[r])'
    BY <1>1, <2>1, <2>4 DEF Sound, Informed
  <2>7. Covered(work[r], run[r].write)'
    BY <2>4 DEF Covered
  <2>c. Counted(work[r])'
    <3>1. SUFFICES ASSUME w.alone, unreadable = {}, IsInjective(raised)
                   PROVE  /\ w.already \cup {id} = decided'
                          /\ Range(w.open) \subseteq Range(raised)
                          /\ w.written + 1 + Cardinality(Left') = Cardinality(DOMAIN w.open)
      BY <1>1, <2>4 DEF Counted, Accounts
    <3>2. /\ w.already = decided
          /\ Range(w.open) \subseteq Range(raised)
          /\ w.written + Cardinality(Left) = Cardinality(DOMAIN w.open)
      BY <1>1, <3>1 DEF Sound, Counted, Accounts
    <3>3. Left' = Left \ {id} /\ id \in Left
      BY <1>1, <1>5, <2>1, <3>2 DEF Left
    <3>4. IsFiniteSet(Left)
      BY <1>1, LeftIsFinite DEF FilesOK
    <3>5. Cardinality(Left') = Cardinality(Left) - 1 /\ Cardinality(Left) \in Nat
      BY <3>3, <3>4, FS_RemoveElement, FS_CardinalityType
    <3>6. w.written \in Nat
      BY <1>2
    <3> QED
      BY <2>1, <3>2, <3>5, <3>6
  <2>8. Sound(r)'
    BY <1>1, <2>4, <2>5, <2>6, <2>7, <2>c DEF Sound, Listed
  <2>9. FilesOK'
    BY <1>1, <1>3, <2>1, <2>4 DEF FilesOK
  <2> QED
    BY <1>1, <2>2, <2>3, <2>8, <2>9, OneMoves
<1> QED
  BY <1>4, <1>5 DEF Decide

-----------------------------------------------------------------------------
(* Steps of neither.                                                       *)

\* No step of Onboarding touches a process that is in a capability of this module.
LEMMA OnboardingLeavesWork ==
  ASSUME OnboardingNext, FilesOK, \A q \in Run : Sound(q)
  PROVE  /\ DOMAIN run' = Run
         /\ \A q \in Run : /\ {"stage", "write"} \subseteq DOMAIN run'[q]
                           /\ run[q].stage = "working" => run'[q].write = run[q].write
                           /\ run'[q].stage = "working" <=> run[q].stage = "working"
<1>1. DOMAIN run = Run /\ \A q \in Run : {"stage", "write"} \subseteq DOMAIN run[q]
  BY DEF FilesOK, Sound
<1> DEFINE Leaves == /\ DOMAIN run' = Run
                     /\ \A q \in Run : /\ {"stage", "write"} \subseteq DOMAIN run'[q]
                                       /\ run[q].stage = "working" => run'[q].write = run[q].write
                                       /\ run'[q].stage = "working" <=> run[q].stage = "working"
<1>2. CASE UNCHANGED run
  BY <1>1, <1>2
<1>3. ASSUME NEW r \in Run, NEW h, run[r].stage # "working", run' = [run EXCEPT ![r] = h],
             {"stage", "write"} \subseteq DOMAIN h, h.stage # "working"
      PROVE  Leaves
  BY <1>1, <1>3
<1>4. ASSUME NEW r \in Run, NEW to, run[r].stage # "working", to # "working",
             run' = [run EXCEPT ![r].stage = to]
      PROVE  Leaves
  BY <1>1, <1>4
<1>5. ASSUME NEW r \in Run, run[r].stage # "working", run' = Spoiled(r, "checked")
      PROVE  Leaves
  BY <1>1, <1>5 DEF Spoiled
<1>6. ASSUME NEW r \in Run, NEW write \in BOOLEAN, Begin(r, write) PROVE Leaves
  <2> DEFINE h == [Idle EXCEPT !.stage = "started", !.write = write, !.policy = allowlist]
  <2>1. run[r].stage # "working" /\ run' = [run EXCEPT ![r] = h]
    BY <1>6 DEF Begin
  <2>2. {"stage", "write"} \subseteq DOMAIN h /\ h.stage # "working"
    BY DEF Idle
  <2> HIDE DEF h
  <2> QED
    BY <1>3, <2>1, <2>2
<1>7. ASSUME NEW r \in Run, Again(r) \/ Seal(r) \/ SealFails(r) \/ Verify(r) \/ OpenMarker(r)
                            \/ MarkerFails(r) \/ ClearFails(r) \/ Admit(r)
      PROVE  Leaves
  <2>1. run[r].stage # "working" /\ \E to \in Stages \ {"working"} : run' = [run EXCEPT ![r].stage = to]
    BY <1>7 DEF Again, Seal, SealFails, Verify, OpenMarker, MarkerFails, ClearFails, Admit, Go,
                Stages, Marking
  <2> QED
    BY <1>4, <2>1
<1>8. ASSUME NEW r \in Run, WriteMarker(r) \/ Clear(r) PROVE Leaves
  BY <1>5, <1>8 DEF WriteMarker, Clear, Marking
<1>9. ASSUME NEW r \in Run, Die(r) \/ Leave(r) PROVE Leaves
  <2>1. run[r].stage # "working" /\ run' = [run EXCEPT ![r] = Idle]
    BY <1>9 DEF Die, Leave
  <2>2. {"stage", "write"} \subseteq DOMAIN Idle /\ Idle.stage # "working"
    BY DEF Idle
  <2> QED
    BY <1>3, <2>1, <2>2
<1>10. ASSUME NEW r \in Run
       PROVE  {"stage", "write"} \subseteq DOMAIN Responded(r) /\ Responded(r).stage # "working"
  BY <1>1, <1>10 DEF Responded
<1>11. ASSUME NEW r \in Run, Respond(r) \/ (\E given, yes : Complete(r, given, yes)) PROVE Leaves
  <2>1. run[r].stage # "working" /\ run' = [run EXCEPT ![r] = Responded(r)]
    BY <1>11 DEF Respond, Complete
  <2> QED
    BY <1>3, <1>10, <2>1
<1>12. ASSUME NEW r \in Run, NEW s, NEW scope, Phase2(r, s, scope) PROVE Leaves
  <2>1. run[r].stage # "working"
    BY <1>12 DEF Phase2
  <2>2. run' = [q \in Run |-> IF q = r THEN Responded(r)
                             ELSE IF run[q].session = s THEN [run[q] EXCEPT !.stale = TRUE]
                             ELSE run[q]]
    BY <1>12 DEF Phase2
  <2>3. Responded(r).stage # "working" /\ {"stage", "write"} \subseteq DOMAIN Responded(r)
    BY <1>10
  <2>4. \A q \in Run : LET h == [run[q] EXCEPT !.stale = TRUE] IN
          DOMAIN h = DOMAIN run[q] /\ h.stage = run[q].stage /\ h.write = run[q].write
    BY <1>1
  <2>5. DOMAIN run' = Run
    BY <2>2
  <2> QED
    BY <1>1, <2>1, <2>2, <2>3, <2>4, <2>5
<1>13. ASSUME NEW r \in Run, NEW s, ReadSession(r, s) PROVE Leaves
  BY <1>1, <1>13 DEF ReadSession
<1>14. ASSUME (\E s \in Session : Apply(s)) \/ Edit \/ Unseal PROVE Leaves
  BY <1>2, <1>14 DEF Apply, Edit, Unseal
<1>15. ASSUME NEW r \in Run, Check(r) PROVE Leaves
  BY <1>6, <1>7, <1>8, <1>9, <1>15 DEF Check
<1>16. ASSUME NEW r \in Run, Onboard(r) PROVE Leaves
  BY <1>7, <1>11, <1>12, <1>13, <1>16 DEF Onboard
<1> QED
  BY <1>14, <1>15, <1>16 DEF OnboardingNext

LEMMA WatchedStep == ASSUME IInv, Watched PROVE IInv'
<1>1. /\ FilesOK /\ (\A q \in Run : Sound(q))
      /\ UNCHANGED <<raised, decided, unreadable, clock, again>>
  BY DEF IInv, Watched
<1>2. /\ other' \subseteq OtherRules /\ DOMAIN run' = Run
      /\ \A q \in Run : /\ {"stage", "write"} \subseteq DOMAIN run'[q]
                        /\ run[q].stage = "working" => run'[q].write = run[q].write
                        /\ run'[q].stage = "working" <=> run[q].stage = "working"
  <2>1. CASE OnboardingNext /\ UNCHANGED other
    BY <1>1, <2>1, OnboardingLeavesWork DEF FilesOK
  <2>2. CASE Elsewhere
    BY <1>1, <2>2 DEF Elsewhere, onboardingVars, FilesOK, Sound
  <2> QED
    BY <2>1, <2>2 DEF Watched
<1>3. work' = [r \in Run |->
                 IF Scanning(r) THEN [work[r] EXCEPT !.held = work[r].held \cap Holding']
                 ELSE work[r]]
  BY DEF Watched
<1>4. FilesOK'
  BY <1>1, <1>2, <1>3 DEF FilesOK
<1>5. ASSUME NEW q \in Run PROVE Sound(q)'
  <2>1. CASE ~Scanning(q)
    <3>1. work'[q] = work[q]
      BY <1>3, <2>1
    <3>2. /\ Covered(work[q], run[q].write)' /\ Informed(work[q])'
          /\ Listed(work[q])' /\ Counted(work[q])'
      <4>1. UNCHANGED <<Left, StillOpen>>
        BY <1>1 DEF Left, StillOpen
      <4>2. Counted(work[q])'
        BY <1>1, <3>1, <4>1 DEF Sound, Counted, Accounts
      <4> QED
        BY <1>1, <2>1, <3>1, <4>2 DEF Covered, Informed, Listed, Sound, Scanning
    <3> QED
      BY <1>1, <1>2, <3>1, <3>2 DEF Sound
  <2>2. CASE Scanning(q)
    <3>1. IsScan(work[q]) /\ work'[q] = [work[q] EXCEPT !.held = work[q].held \cap Holding']
      BY <1>1, <1>3, <2>2, InAScan
    <3>2. /\ work'[q].held = work[q].held \cap Holding' /\ DOMAIN work'[q] = DOMAIN work[q]
          /\ work'[q].stage = work[q].stage /\ work'[q].at = work[q].at
          /\ work'[q].left = work[q].left /\ work'[q].found = work[q].found
      BY <3>1 DEF IsScan
    <3>3. run'[q].write = run[q].write /\ run[q].stage = "working" /\ run'[q].stage = "working"
      BY <1>1, <1>2, <2>2 DEF Sound, Scanning
    <3>4. IsScan(work'[q])
      BY <3>1, <3>2 DEF IsScan
    <3>5. /\ Covered(work[q], run[q].write)' /\ Informed(work[q])'
          /\ Listed(work[q])' /\ Counted(work[q])'
      BY <1>1, <2>2, <3>2, <3>3 DEF Covered, Informed, Listed, Counted, Sound, Scanning
    <3> QED
      BY <1>1, <1>2, <2>2, <3>2, <3>3, <3>4, <3>5 DEF Sound, Scanning
  <2> QED
    BY <2>1, <2>2
<1> QED
  BY <1>1, <1>4, <1>5 DEF IInv, OneDecisionEach

LEMMA TickStep == ASSUME IInv, Tick PROVE IInv'
<1>0. /\ clock' = clock + 1 /\ clock < MaxTime
      /\ UNCHANGED <<governance, run, other, work, raised, decided, unreadable, again>>
  BY DEF Tick
<1>1. /\ FilesOK'
      /\ UNCHANGED <<governance, run, other, work, raised, decided, unreadable, again>>
  <2>1. clock' \in 0..MaxTime
    BY <1>0, SentinelAssumption DEF IInv, FilesOK
  <2> QED
    BY <1>0, <2>1 DEF IInv, FilesOK
<1>2. Holding' = Holding
  BY <1>1, HoldingStays
<1>3. \A q \in Run : Sound(q)'
  BY <1>1, <1>2, OthersStaySound DEF IInv, Bystander
<1> QED
  BY <1>1, <1>3 DEF IInv, OneDecisionEach

LEMMA InitInv == SentinelInit => IInv
<1> SUFFICES ASSUME SentinelInit PROVE IInv
  OBVIOUS
<1>1. /\ work = [r \in Run |-> Resting] /\ run = [r \in Run |-> Idle]
      /\ other = {} /\ raised = <<>> /\ decided = {} /\ unreadable = {}
      /\ clock = 0 /\ again = {}
  BY DEF SentinelInit, OnboardingInit
<1>2. FilesOK
  <2>1. 0 \in 0..MaxTime
    BY SentinelAssumption
  <2> QED
    BY <1>1, <2>1 DEF FilesOK
<1>3. \A r \in Run : Sound(r)
  BY <1>1 DEF Sound, Idle, Resting, Covered, Informed, Listed, Counted
<1> QED
  BY <1>1, <1>2, <1>3 DEF IInv, OneDecisionEach

LEMMA Inductive == SentinelSpec => []IInv
<1>1. IInv /\ [SentinelNext]_<<onboardingVars, sentinelVars>> => IInv'
  <2> SUFFICES ASSUME IInv, [SentinelNext]_<<onboardingVars, sentinelVars>> PROVE IInv'
    OBVIOUS
  <2>1. CASE UNCHANGED <<onboardingVars, sentinelVars>>
    <3>1. UNCHANGED <<governance, run, other, work, raised, decided, unreadable, clock, again>>
      BY <2>1 DEF onboardingVars, sentinelVars
    <3>2. Holding' = Holding /\ FilesOK'
      BY <3>1, HoldingStays DEF IInv, FilesOK
    <3>3. \A q \in Run : Sound(q)'
      BY <3>1, <3>2, OthersStaySound DEF IInv, Bystander
    <3> QED
      BY <3>1, <3>2, <3>3 DEF IInv, OneDecisionEach
  <2>2. ASSUME NEW r \in Run, Done(r) \/ Fail(r) PROVE IInv'
    <3>1. CASE Done(r)
      BY <3>1, ExitStep DEF Done, IInv, FilesOK
    <3>2. CASE Fail(r)
      BY <3>2, ExitStep DEF Fail, IInv, FilesOK
    <3> QED
      BY <2>2, <3>1, <3>2
  <2> QED
    BY <2>1, <2>2, WatchedStep, StartScanStep, LookStep, RaiseStep, StartReviewStep,
       ReconcileStep, RereadStep, DecideStep, AnswerStep, TickStep DEF SentinelNext
<1> QED
  BY <1>1, InitInv, PTL DEF SentinelSpec

-----------------------------------------------------------------------------
(* The theorems.                                                           *)

\* The files of scans and reviews keep their types with any number of processes, and
\* one is at work here exactly while the router has it in a capability.
THEOREM TypeCorrect == SentinelSpec => []SentinelTypeOK
<1>1. IInv => \A r \in Run : (work[r].stage # "resting") <=> (run[r].stage = "working")
  BY DEF IInv, Sound
<1>2. ASSUME IInv, NEW r \in Run, work[r].stage = "answered" PROVE work[r].remaining \in Nat
  <2>1. Sound(r) /\ Reviewing(r)
    BY <1>2 DEF IInv, Reviewing
  <2> QED
    BY <1>2, <2>1, InAReview DEF IsReview
<1>3. IInv => SentinelTypeOK
  BY <1>1, <1>2 DEF IInv, FilesOK, SentinelTypeOK, OneDecisionEach
<1> QED
  BY <1>3, Inductive, PTL

\* Whatever other scans, reviews, edits and runs happen during a scan, and whatever
\* rules it checks, what held throughout is in the infraction file when it reports.
THEOREM ScansReport == SentinelSpec => []ScanReports
<1>1. IInv => ScanReports
  BY DEF IInv, Sound, Covered, ScanReports
<1> QED
  BY <1>1, Inductive, PTL

\* A review that nothing overlaps decides no infraction a second time, however long the
\* submission and the history of decisions are, as long as that history can be read.
THEOREM ReviewsDecideOnce == SentinelSpec => []OneDecisionEach
<1>1. IInv => OneDecisionEach
  BY DEF IInv
<1> QED
  BY <1>1, Inductive, PTL

\* remaining_open is right for any number of infractions and any submission: what a
\* review that nothing overlaps leaves undecided, where the ids in the file differ.
THEOREM RemainingIsCounted == SentinelSpec => []RemainingIsLeft
<1>1. IInv => RemainingIsLeft
  BY DEF IInv, Sound, Counted, Accounts, Left, RemainingIsLeft
<1> QED
  BY <1>1, Inductive, PTL

(* Only the reconciliation ends a review that has just read the infractions. *)
LEMMA OpenedEnds ==
  ASSUME IInv, NEW r \in Run, work[r].stage = "opened", work'[r].stage = "resting",
         [SentinelNext]_<<onboardingVars, sentinelVars>>
  PROVE  Reconcile(r)
<1>1. IsReview(work[r]) /\ DOMAIN work = Run
  BY InAReview DEF IInv, Reviewing, FilesOK
<1>2. CASE UNCHANGED <<onboardingVars, sentinelVars>>
  BY <1>2 DEF sentinelVars
<1>3. CASE Watched \/ Tick
  BY <1>3 DEF Watched, Tick, Scanning
<1>4. ASSUME NEW w, [work[r] EXCEPT !.alone = FALSE].stage = "resting" PROVE FALSE
  BY <1>1, <1>4 DEF IsReview
<1>5. ASSUME NEW q \in Run, NEW w, work' = Disturbed(q, w), q # r PROVE FALSE
  BY <1>4, <1>5 DEF Disturbed
<1>6. ASSUME NEW q \in Run, NEW w, work' = Disturbed(q, w), w.stage # "resting" PROVE FALSE
  BY <1>5, <1>6 DEF Disturbed
<1>7. ASSUME NEW q \in Run, NEW asked \in Submissions, StartReview(q, asked) PROVE FALSE
  BY <1>6, <1>7 DEF StartReview
<1>8. ASSUME NEW q \in Run, q # r,
             \/ StartScan(q) \/ Look(q) \/ Reconcile(q) \/ Reread(q) \/ Answer(q)
             \/ Done(q) \/ Fail(q)
      PROVE  FALSE
  BY <1>1, <1>8 DEF StartScan, Look, Reconcile, Reread, Answer, Done, Fail, Exit
<1>9. ASSUME NEW q \in Run, q # r, Raise(q) \/ Decide(q) PROVE FALSE
  BY <1>1, <1>5, <1>9 DEF Raise, Decide, Record
<1>10. ASSUME StartScan(r) PROVE FALSE
  BY <1>1, <1>10 DEF StartScan
<1>11. ASSUME Look(r) \/ Raise(r) \/ Reread(r) \/ Decide(r) \/ Answer(r) \/ Done(r) \/ Fail(r)
       PROVE  FALSE
  BY <1>11 DEF Look, Raise, Reread, Decide, Answer, Done, Fail
<1> QED
  BY <1>2, <1>3, <1>7, <1>8, <1>9, <1>10, <1>11 DEF SentinelNext

\* "System is clear." in answer to a submission: each id that was in the file as the
\* review began is in the file of dispositions, whatever other reviews and scans are
\* under way and whether or not that file can be read, unless a line of the infractions
\* is torn.
THEOREM ClearIsClear == SentinelSpec => ClearMeansClear
<1> DEFINE SaysClear ==
      \A r \in Run :
        work[r].stage = "opened" /\ work[r].asked # <<>> /\ work'[r].stage = "resting" =>
          work[r].listed \subseteq decided \/ "infractions" \in unreadable
<1>1. ASSUME IInv, [SentinelNext]_<<onboardingVars, sentinelVars>> PROVE SaysClear
  <2> SUFFICES ASSUME NEW r \in Run, work[r].stage = "opened", work[r].asked # <<>>,
                      work'[r].stage = "resting"
               PROVE  work[r].listed \subseteq decided \/ "infractions" \in unreadable
    OBVIOUS
  <2> DEFINE open == work[r].open
  <2>1. Reconcile(r) /\ DOMAIN work = Run /\ IsReview(work[r])
    BY <1>1, OpenedEnds, InAReview DEF IInv, FilesOK, Reviewing
  <2>2. DOMAIN Undecided(open) = {}
    BY <2>1 DEF Reconcile, IsReview
  <2>3. \A i \in DOMAIN open : open[i] \in Dispositions
    BY <2>2 DEF Undecided, Restrict
  <2>4. Dispositions \subseteq decided
    BY DEF Dispositions
  <2>5. Range(open) \subseteq decided
    BY <2>3, <2>4 DEF Range
  <2>6. Listed(work[r])
    BY <1>1 DEF IInv, Sound
  <2> QED
    BY <2>5, <2>6 DEF Listed
<1> HIDE DEF SaysClear
<1>2. IInv /\ [SentinelNext]_<<onboardingVars, sentinelVars>>
        => [SaysClear]_<<onboardingVars, sentinelVars>>
  BY <1>1
<1>3. [][SaysClear]_<<onboardingVars, sentinelVars>> => ClearMeansClear
  BY DEF SaysClear, ClearMeansClear
<1> QED
  BY <1>2, <1>3, Inductive, PTL DEF SentinelSpec
=============================================================================
