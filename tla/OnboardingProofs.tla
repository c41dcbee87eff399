-------------------------- MODULE OnboardingProofs --------------------------
(***************************************************************************)
(* Proofs about Onboarding, for any number of processes, sessions and      *)
(* scopes, and every fault.                                                *)
(*                                                                         *)
(* Two facts carry the invariants.  Where there is no seal, a process that *)
(* has failed its verification has left a marker, or one is being written: *)
(* nobody has passed and nobody has been admitted.  The line that          *)
(* readSession finds, and the one that phase 3 has read, carry the scope   *)
(* submitted last, unless another process submitted in between; whenever   *)
(* the line of the last submission was cut short, it is the end of the     *)
(* file that readSession does not get past.                                *)
(***************************************************************************)
EXTENDS Onboarding, TLAPS

\* Nobody works on in a repository without a seal, and those who have been checked find
\* a marker, or one that is being written.
Sealed ==
  ~unsealed /\ ~unmarked /\ genesis \notin Seals =>
    /\ \A r \in Run : run[r].stage \notin {"passed", "admitted", "reading"}
    /\ \A s \in Session : advice[s] = None
    /\ (\E r \in Run : run[r].stage = "checked") =>
         judgment \/ \E q \in Run : run[q].stage \in Marking

FoundIsLatest ==
  \A s \in Session \ overtaken : \A i \in 1..Len(sessions) :
    Found(s, i) => sessions[i].scope = latest[s]

ReadIsLatest ==
  \A r \in Run : run[r].stage = "reading" =>
    /\ run[r].session \in Session /\ run[r].scope \in Scope
    /\ run[r].stale \/ run[r].session \in overtaken \/ run[r].scope = latest[run[r].session]

CutIsTorn == cut => sessions # <<>> /\ ~Whole(sessions[Len(sessions)])

IInv == OnboardingTypeOK /\ Sealed /\ FoundIsLatest /\ ReadIsLatest /\ CutIsTorn

USE OnboardingAssumption

LEMMA SealsAreSeals == None \notin Seals /\ Broken \notin Seals /\ (OnboardingTypeOK => Files \in Seals)
BY DEF None, Broken, Seals, Files, OnboardingTypeOK

LEMMA NotAdvice == \A x \in (SUBSET AllCapabilities) \X Scope : x # None
BY DEF None

LEMMA RecommendedType == \A yes : Recommended(yes) \in SUBSET AllCapabilities
BY DEF Recommended, AllCapabilities

LEMMA IdleType == Idle \in RunType /\ Idle.stage = "idle"
BY DEF Idle, RunType, Stages

LEMMA InitInv == OnboardingInit => IInv
<1> SUFFICES ASSUME OnboardingInit PROVE IInv
  OBVIOUS
<1>1. genesis \in Seals \cup {None, Broken}
  <2>1. allowlist \in SUBSET AllCapabilities /\ config \in Scope \cup {NoScope}
    BY DEF OnboardingInit
  <2> QED
    BY <2>1 DEF OnboardingInit, Seals
<1>2. sessions \in Seq(SessionLine) /\ sessions = <<>>
  BY DEF OnboardingInit
<1>3. OnboardingTypeOK
  BY <1>1, <1>2, IdleType DEF OnboardingInit, OnboardingTypeOK, Steps
<1>4. Sealed /\ ReadIsLatest
  BY IdleType DEF OnboardingInit, Sealed, ReadIsLatest
<1>5. FoundIsLatest /\ CutIsTorn
  BY <1>2 DEF OnboardingInit, FoundIsLatest, CutIsTorn
<1> QED
  BY <1>3, <1>4, <1>5 DEF IInv

StillFound(s, i, line) ==
  Found(s, i) /\ sessions'[i] = sessions[i] /\ Whole(line) /\ line.id # s

(* What an append does to the session file. *)
LEMMA LineFacts ==
  ASSUME sessions \in Seq(SessionLine), CutIsTorn, NEW line \in SessionLine, NEW torn \in BOOLEAN,
         sessions' = IF cut THEN sessions ELSE Append(sessions, line),
         cut' = torn, torn => ~Whole(line)
  PROVE  /\ sessions' \in Seq(SessionLine) /\ sessions' # <<>>
         /\ CutIsTorn'
         /\ \A s \in Session, i \in 1..Len(sessions') :
              Found(s, i)' => \/ i \in 1..Len(sessions) /\ StillFound(s, i, line)
                              \/ sessions'[i] = line /\ line.id = s
<1>1. CASE cut
  <2>1. sessions' = sessions /\ Len(sessions) \in 1..Len(sessions) /\ ~Whole(sessions[Len(sessions)])
    BY <1>1 DEF CutIsTorn
  <2>2. ASSUME NEW s \in Session, NEW i \in 1..Len(sessions), Found(s, i) PROVE FALSE
    <3>1. CASE i = Len(sessions)
      BY <2>1, <2>2, <3>1 DEF Found, Whole
    <3>2. CASE i # Len(sessions)
      <4>1. Len(sessions) \in (i + 1)..Len(sessions)
        BY <2>1, <3>2
      <4> QED
        BY <2>1, <2>2, <4>1 DEF Found
    <3> QED
      BY <3>1, <3>2
  <2>3. \A s \in Session, i \in 1..Len(sessions') : ~ Found(s, i)'
    BY <2>1, <2>2 DEF Found
  <2> QED
    BY <1>1, <2>1, <2>3 DEF CutIsTorn
<1>2. CASE ~cut
  <2>1. /\ sessions' = Append(sessions, line) /\ sessions' \in Seq(SessionLine)
        /\ Len(sessions') = Len(sessions) + 1 /\ Len(sessions) \in Nat
        /\ sessions'[Len(sessions) + 1] = line
        /\ \A i \in 1..Len(sessions) : sessions'[i] = sessions[i]
    BY <1>2
  <2>2. sessions' # <<>> /\ CutIsTorn'
    BY <2>1 DEF CutIsTorn
  <2>3. ASSUME NEW s \in Session, NEW i \in 1..Len(sessions'), Found(s, i)'
        PROVE  \/ i \in 1..Len(sessions) /\ StillFound(s, i, line)
               \/ sessions'[i] = line /\ line.id = s
    <3>0. sessions'[i].id = s
      BY <2>3 DEF Found
    <3>1. CASE i = Len(sessions) + 1
      BY <2>1, <3>0, <3>1
    <3>2. CASE i \in 1..Len(sessions)
      <4>1. Len(sessions) + 1 \in (i + 1)..Len(sessions')
        BY <2>1, <3>2
      <4>2. Whole(line) /\ line.id # s
        BY <2>1, <2>3, <4>1 DEF Found
      <4>3. \A j \in (i + 1)..Len(sessions) : j \in (i + 1)..Len(sessions') /\ sessions'[j] = sessions[j]
        BY <2>1, <3>2
      <4>4. Found(s, i)
        BY <2>1, <2>3, <3>2, <4>3 DEF Found
      <4> QED
        BY <2>1, <3>2, <4>2, <4>4 DEF StillFound
    <3> QED
      BY <2>1, <3>1, <3>2
  <2> QED
    BY <1>2, <2>1, <2>2, <2>3
<1> QED
  BY <1>1, <1>2

(* Both ways in which phases 2 and 3 write. *)
LEMMA WriteFacts ==
  ASSUME OnboardingTypeOK, CutIsTorn, NEW t \in Session, NEW scope \in Scope,
         AddLine([id |-> t, scope |-> scope]) \/ CutShort
  PROVE  /\ sessions' \in Seq(SessionLine) /\ cut' \in BOOLEAN /\ CutIsTorn'
         /\ \A s \in Session, i \in 1..Len(sessions') :
              Found(s, i)' =>
                \/ /\ i \in 1..Len(sessions) /\ Found(s, i) /\ sessions'[i] = sessions[i]
                   /\ AddLine([id |-> t, scope |-> scope]) /\ s # t
                \/ s = t /\ sessions'[i].scope = scope
<1>0. sessions \in Seq(SessionLine) /\ cut \in BOOLEAN
  BY DEF OnboardingTypeOK
<1>1. CASE AddLine([id |-> t, scope |-> scope])
  <2> DEFINE line == [id |-> t, scope |-> scope]
  <2>1. line \in SessionLine /\ line.id = t /\ line.scope = scope
    BY DEF SessionLine
  <2>2. sessions' = (IF cut THEN sessions ELSE Append(sessions, line)) /\ cut' = FALSE
    BY <1>1 DEF AddLine
  <2>3. /\ sessions' \in Seq(SessionLine) /\ CutIsTorn'
        /\ \A s \in Session, i \in 1..Len(sessions') :
             Found(s, i)' => \/ i \in 1..Len(sessions) /\ StillFound(s, i, line)
                             \/ sessions'[i] = line /\ line.id = s
    <3> HIDE DEF line
    <3> QED
      BY <1>0, <2>1, <2>2, LineFacts
  <2> QED
    BY <1>1, <2>1, <2>2, <2>3 DEF StillFound
<1>2. CASE CutShort
  <2> DEFINE line == TornLine
  <2>1. line \in SessionLine /\ ~Whole(line) /\ (\A s \in Session : line.id # s)
    BY DEF SessionLine, TornLine, Whole
  <2>2. sessions' = (IF cut THEN sessions ELSE Append(sessions, line)) /\ cut' = TRUE
    BY <1>2 DEF CutShort
  <2>3. /\ sessions' \in Seq(SessionLine) /\ CutIsTorn'
        /\ \A s \in Session, i \in 1..Len(sessions') :
             Found(s, i)' => \/ i \in 1..Len(sessions) /\ StillFound(s, i, line)
                             \/ sessions'[i] = line /\ line.id = s
    <3> HIDE DEF line
    <3> QED
      BY <1>0, <2>1, <2>2, LineFacts
  <2> QED
    BY <2>1, <2>2, <2>3 DEF StillFound
<1> QED
  BY <1>1, <1>2

(* Steps that leave the sessions alone, and nobody begins to read them. *)
LEMMA QuietStep ==
  ASSUME IInv, UNCHANGED <<onboarding, overtaken>>, OnboardingTypeOK', Sealed',
         \A q \in Run : run'[q].stage = "reading" => run'[q] = run[q]
  PROVE  IInv'
<1>1. FoundIsLatest' /\ CutIsTorn'
  BY DEF IInv, FoundIsLatest, CutIsTorn, Found, onboarding
<1>2. ReadIsLatest'
  BY DEF IInv, ReadIsLatest, onboarding
<1> QED
  BY <1>1, <1>2 DEF IInv

(* A step of one process that only takes it to another stage. *)
LEMMA StageType ==
  ASSUME OnboardingTypeOK, NEW r \in Run, NEW to \in Stages \ {"reading"},
         run' = [run EXCEPT ![r].stage = to]
  PROVE  /\ run' \in [Run -> RunType]
         /\ run'[r].stage = to
         /\ \A q \in Run \ {r} : run'[q] = run[q]
         /\ \A q \in Run : run'[q].stage = "reading" => run'[q] = run[q]
<1>1. run \in [Run -> RunType]
  BY DEF OnboardingTypeOK
<1>2. [run[r] EXCEPT !.stage = to] \in RunType
  BY <1>1 DEF RunType
<1>3. run' = [run EXCEPT ![r] = [run[r] EXCEPT !.stage = to]] /\ [run[r] EXCEPT !.stage = to].stage = to
  BY <1>1 DEF RunType
<1> QED
  BY <1>1, <1>2, <1>3

(* A process that begins, ends, or is done with its request. *)
LEMMA EndType ==
  ASSUME OnboardingTypeOK, NEW r \in Run, NEW h \in RunType, h.stage # "reading",
         run' = [run EXCEPT ![r] = h]
  PROVE  /\ run' \in [Run -> RunType]
         /\ run'[r] = h
         /\ \A q \in Run \ {r} : run'[q] = run[q]
         /\ \A q \in Run : run'[q].stage = "reading" => run'[q] = run[q]
BY DEF OnboardingTypeOK

LEMMA RespondedType ==
  ASSUME OnboardingTypeOK, NEW r \in Run
  PROVE  Responded(r) \in RunType /\ Responded(r).stage = "answered"
<1>1. run[r] \in RunType
  BY DEF OnboardingTypeOK
<1> QED
  BY <1>1 DEF Responded, RunType, Stages

LEMMA SpoiledType ==
  ASSUME OnboardingTypeOK, NEW r \in Run, NEW to \in Stages \ {"reading"}, run' = Spoiled(r, to)
  PROVE  /\ run' \in [Run -> RunType]
         /\ run'[r].stage = to
         /\ \A q \in Run \ {r} : \/ run'[q] = run[q]
                                 \/ run[q].stage = "marking" /\ run'[q].stage = "spoiled"
         /\ \A q \in Run : run'[q].stage = "reading" => run'[q] = run[q]
<1>1. \A q \in Run : run[q] \in RunType
  BY DEF OnboardingTypeOK
<1>2. [run[r] EXCEPT !.stage = to] \in RunType /\ [run[r] EXCEPT !.stage = to].stage = to
  BY <1>1 DEF RunType
<1>3. \A q \in Run : /\ [run[q] EXCEPT !.stage = "spoiled"] \in RunType
                     /\ [run[q] EXCEPT !.stage = "spoiled"].stage = "spoiled"
  BY <1>1 DEF RunType, Stages, Marking
<1>4. run'[r] = [run[r] EXCEPT !.stage = to]
  BY DEF Spoiled
<1>5. \A q \in Run \ {r} : run'[q] = IF run[q].stage = "marking" THEN [run[q] EXCEPT !.stage = "spoiled"]
                                      ELSE run[q]
  BY DEF Spoiled
<1>6. \A q \in Run : run'[q] \in RunType
  BY <1>1, <1>2, <1>3, <1>4, <1>5
<1> QED
  BY <1>2, <1>3, <1>4, <1>5, <1>6 DEF Spoiled

(* Where nobody newly works on, and the marker is no worse, a step keeps Sealed. *)
LEMMA SealedKept ==
  ASSUME Sealed, NEW r \in Run,
         \A q \in Run \ {r} : run'[q].stage = run[q].stage,
         run'[r].stage \notin {"passed", "checked", "admitted", "reading"},
         run[r].stage \notin Marking \/ unmarked',
         judgment' = judgment \/ unmarked', advice' = advice,
         unsealed' = unsealed, unmarked => unmarked',
         genesis \in Seals => genesis' \in Seals
  PROVE  Sealed'
<1> SUFFICES ASSUME ~unsealed', ~unmarked', genesis' \notin Seals
             PROVE  /\ \A q \in Run : run'[q].stage \notin {"passed", "admitted", "reading"}
                    /\ \A s \in Session : advice'[s] = None
                    /\ (\E q \in Run : run'[q].stage = "checked") =>
                         judgment' \/ \E q \in Run : run'[q].stage \in Marking
  BY DEF Sealed, Seals
<1>1. /\ \A q \in Run : run[q].stage \notin {"passed", "admitted", "reading"}
      /\ \A s \in Session : advice[s] = None
      /\ (\E q \in Run : run[q].stage = "checked") =>
           judgment \/ \E q \in Run : run[q].stage \in Marking
  BY DEF Sealed
<1>2. \A q \in Run : run'[q].stage = "checked" => run[q].stage = "checked"
  OBVIOUS
<1>3. \A q \in Run : run[q].stage \in Marking => run'[q].stage \in Marking
  OBVIOUS
<1> QED
  BY <1>1, <1>2, <1>3

(* The stages of the head of runLifecycle, before and after the marker. *)
LEMMA StepHead ==
  ASSUME IInv, NEW r \in Run,
         \/ \E write \in BOOLEAN : Begin(r, write)
         \/ Again(r) \/ Seal(r) \/ SealFails(r) \/ Respond(r) \/ Leave(r)
  PROVE  IInv'
<1> USE DEF IInv
<1>1. ASSUME NEW write \in BOOLEAN, Begin(r, write) PROVE IInv'
  <2> DEFINE h == [Idle EXCEPT !.stage = "started", !.write = write, !.policy = allowlist]
  <2>1. h \in RunType /\ h.stage = "started"
    BY DEF Idle, RunType, Stages, OnboardingTypeOK
  <2>2. run' = [run EXCEPT ![r] = h] /\ run[r].stage = "idle"
        /\ UNCHANGED <<governance, onboarding, unsealed, past>> /\ applied' \in {applied, "starting"}
    BY <1>1 DEF Begin
  <2> HIDE DEF h
  <2>3. /\ run' \in [Run -> RunType] /\ run'[r] = h
        /\ \A q \in Run \ {r} : run'[q] = run[q]
        /\ \A q \in Run : run'[q].stage = "reading" => run'[q] = run[q]
    BY <2>1, <2>2, EndType
  <2>4. OnboardingTypeOK'
    BY <2>2, <2>3 DEF OnboardingTypeOK, governance, onboarding, past, Steps
  <2>5. Sealed'
    BY <2>1, <2>2, <2>3, SealedKept DEF governance, onboarding, past, Marking
  <2> QED
    BY <2>2, <2>3, <2>4, <2>5, QuietStep DEF past
<1>2. CASE Again(r)
  <2>1. /\ run' \in [Run -> RunType] /\ run'[r].stage = "started"
        /\ \A q \in Run \ {r} : run'[q] = run[q]
        /\ \A q \in Run : run'[q].stage = "reading" => run'[q] = run[q]
    BY <1>2, StageType DEF Again, Stages
  <2>2. OnboardingTypeOK'
    BY <1>2, <2>1 DEF Again, OnboardingTypeOK, governance, onboarding, human, past
  <2>3. Sealed'
    BY <1>2, <2>1, SealedKept DEF Again, governance, onboarding, human, past, Marking
  <2> QED
    BY <1>2, <2>1, <2>2, <2>3, QuietStep DEF Again, past
<1>3. CASE Seal(r) \/ SealFails(r)
  <2>1. /\ run' = [run EXCEPT ![r].stage = "sealed"] /\ run[r].stage = "started"
        /\ UNCHANGED <<allowlist, config, judgment, onboarding, unsealed, past>>
        /\ applied' \in {applied, "started"}
    BY <1>3 DEF Seal, SealFails, Go, human
  <2>2. /\ run' \in [Run -> RunType] /\ run'[r].stage = "sealed"
        /\ \A q \in Run \ {r} : run'[q] = run[q]
        /\ \A q \in Run : run'[q].stage = "reading" => run'[q] = run[q]
    BY <2>1, StageType DEF Stages
  <2>3. genesis' \in Seals \cup {None, Broken} /\ (genesis \in Seals => genesis' \in Seals)
    <3>1. genesis \in Seals \cup {None, Broken}
      BY DEF OnboardingTypeOK
    <3> QED
      BY <1>3, <3>1, SealsAreSeals DEF Seal, SealFails, Ensure
  <2>4. OnboardingTypeOK'
    BY <2>1, <2>2, <2>3 DEF OnboardingTypeOK, onboarding, past, Steps
  <2>5. Sealed'
    BY <2>1, <2>2, <2>3, SealedKept DEF onboarding, past, Marking
  <2> QED
    BY <2>1, <2>2, <2>4, <2>5, QuietStep DEF past
<1>4. CASE Respond(r) \/ Leave(r)
  <2>1. /\ UNCHANGED <<governance, onboarding, human, past>>
        /\ run[r].stage \notin Marking
        /\ run' = [run EXCEPT ![r] = Responded(r)] \/ run' = [run EXCEPT ![r] = Idle]
    BY <1>4 DEF Respond, Leave, Marking
  <2>2. /\ run' \in [Run -> RunType] /\ run'[r].stage \in {"answered", "idle"}
        /\ \A q \in Run \ {r} : run'[q] = run[q]
        /\ \A q \in Run : run'[q].stage = "reading" => run'[q] = run[q]
    BY <2>1, RespondedType, IdleType, EndType
  <2>3. OnboardingTypeOK'
    BY <2>1, <2>2 DEF OnboardingTypeOK, governance, onboarding, human, past
  <2>4. Sealed'
    BY <2>1, <2>2, SealedKept DEF governance, onboarding, human, past
  <2> QED
    BY <2>1, <2>2, <2>3, <2>4, QuietStep DEF past
<1> QED
  BY <1>1, <1>2, <1>3, <1>4

LEMMA StepVerify ==
  ASSUME IInv, NEW r \in Run, Verify(r)
  PROVE  IInv'
<1> USE DEF IInv
<1>1. UNCHANGED <<governance, onboarding, human, past>> /\ run[r].stage = "sealed"
  BY DEF Verify, Go
<1>2. PICK to \in {"passed", "failed"} :
        run' = [run EXCEPT ![r].stage = to] /\ (to = "passed" => genesis = Files)
  BY DEF Verify, Go
<1>3. /\ run' \in [Run -> RunType] /\ run'[r].stage = to
      /\ \A q \in Run \ {r} : run'[q] = run[q]
      /\ \A q \in Run : run'[q].stage = "reading" => run'[q] = run[q]
  BY <1>2, StageType DEF Stages
<1>4. OnboardingTypeOK'
  BY <1>1, <1>3 DEF OnboardingTypeOK, governance, onboarding, human, past
<1>5. CASE genesis \in Seals
  BY <1>1, <1>4, <1>5, <1>3, QuietStep DEF Sealed, governance, past
<1>6. CASE genesis \notin Seals
  <2>1. to = "failed"
    BY <1>2, <1>6, SealsAreSeals
  <2>2. Sealed'
    BY <1>1, <1>3, <2>1, SealedKept DEF governance, onboarding, human, past, Marking
  <2> QED
    BY <1>1, <1>3, <1>4, <2>2, QuietStep DEF past
<1> QED
  BY <1>5, <1>6

LEMMA StepMarker ==
  ASSUME IInv, NEW r \in Run, OpenMarker(r) \/ WriteMarker(r) \/ MarkerFails(r)
  PROVE  IInv'
<1> USE DEF IInv
<1>1. CASE OpenMarker(r)
  <2>1. /\ run' = [run EXCEPT ![r].stage = "marking"] /\ run[r].stage = "failed" /\ judgment' = FALSE
        /\ UNCHANGED <<allowlist, config, genesis, onboarding, human, past>>
    BY <1>1 DEF OpenMarker, Go
  <2>2. /\ run' \in [Run -> RunType] /\ run'[r].stage = "marking"
        /\ \A q \in Run \ {r} : run'[q] = run[q]
        /\ \A q \in Run : run'[q].stage = "reading" => run'[q] = run[q]
    BY <2>1, StageType DEF Stages, Marking
  <2>3. OnboardingTypeOK'
    BY <2>1, <2>2 DEF OnboardingTypeOK, onboarding, human, past
  <2>4. run'[r].stage \in Marking
    BY <2>2 DEF Marking
  <2>5. Sealed'
    BY <2>1, <2>2, <2>4 DEF Sealed, onboarding, human, past
  <2> QED
    BY <2>1, <2>2, <2>3, <2>5, QuietStep DEF past
<1>2. CASE WriteMarker(r)
  <2>1. /\ run' = Spoiled(r, "checked") /\ run[r].stage \in Marking /\ judgment' \in BOOLEAN
        /\ unmarked' = (unmarked \/ ~judgment')
        /\ UNCHANGED <<allowlist, config, genesis, onboarding, human, overtaken>>
    BY <1>2 DEF WriteMarker
  <2>2. /\ run' \in [Run -> RunType] /\ run'[r].stage = "checked"
        /\ \A q \in Run \ {r} : \/ run'[q] = run[q]
                                \/ run[q].stage = "marking" /\ run'[q].stage = "spoiled"
        /\ \A q \in Run : run'[q].stage = "reading" => run'[q] = run[q]
    BY <2>1, SpoiledType DEF Stages
  <2>3. OnboardingTypeOK'
    <3>1. unmarked' \in BOOLEAN
      BY <2>1
    <3> QED
      BY <2>1, <2>2, <3>1 DEF OnboardingTypeOK, onboarding, human
  <2>4. unmarked' \/ (judgment' /\ ~unmarked)
    BY <2>1
  <2>5. Sealed'
    BY <2>1, <2>2, <2>4 DEF Sealed, onboarding, human
  <2> QED
    BY <2>1, <2>2, <2>3, <2>5, QuietStep
<1>3. CASE MarkerFails(r)
  <2>1. /\ run' = [run EXCEPT ![r].stage = "checked"] /\ unmarked' = TRUE /\ judgment' \in {judgment, FALSE}
        /\ UNCHANGED <<allowlist, config, genesis, onboarding, human, overtaken>>
    BY <1>3 DEF MarkerFails, HalfMarked
  <2>2. /\ run' \in [Run -> RunType]
        /\ \A q \in Run : run'[q].stage = "reading" => run'[q] = run[q]
    BY <2>1, StageType DEF Stages
  <2>3. OnboardingTypeOK'
    BY <2>1, <2>2 DEF OnboardingTypeOK, onboarding, human
  <2>4. Sealed'
    BY <2>1 DEF Sealed
  <2> QED
    BY <2>1, <2>2, <2>3, <2>4, QuietStep
<1> QED
  BY <1>1, <1>2, <1>3

LEMMA StepClear ==
  ASSUME IInv, NEW r \in Run, Clear(r) \/ ClearFails(r)
  PROVE  IInv'
<1> USE DEF IInv
<1>1. /\ run' = Spoiled(r, "checked") \/ run' = [run EXCEPT ![r].stage = "checked"]
      /\ run[r].stage = "passed" /\ judgment' \in {judgment, FALSE}
      /\ UNCHANGED <<allowlist, config, genesis, onboarding, human, past>>
  BY DEF Clear, ClearFails, Go, governance
<1>2. /\ run' \in [Run -> RunType]
      /\ \A q \in Run : run'[q].stage = "reading" => run'[q] = run[q]
  BY <1>1, SpoiledType, StageType DEF Stages
<1>3. OnboardingTypeOK'
  BY <1>1, <1>2 DEF OnboardingTypeOK, onboarding, human, past
<1>4. Sealed'
  BY <1>1 DEF Sealed, human, past
<1> QED
  BY <1>1, <1>2, <1>3, <1>4, QuietStep DEF past

LEMMA StepDie ==
  ASSUME IInv, NEW r \in Run, Die(r)
  PROVE  IInv'
<1> USE DEF IInv
<1>1. /\ run' = [run EXCEPT ![r] = Idle]
      /\ unmarked' = (unmarked \/ run[r].stage \in Marking)
      /\ UNCHANGED <<allowlist, config, onboarding, human, overtaken>>
  BY DEF Die
<1>2. /\ run' \in [Run -> RunType] /\ run'[r] = Idle
      /\ \A q \in Run \ {r} : run'[q] = run[q]
      /\ \A q \in Run : run'[q].stage = "reading" => run'[q] = run[q]
  BY <1>1, IdleType, EndType
<1>3. genesis' \in Seals \cup {None, Broken} /\ (genesis \in Seals => genesis' \in Seals)
  BY SealsAreSeals DEF Die, OnboardingTypeOK
<1>4. judgment' \in BOOLEAN /\ unmarked' \in BOOLEAN
  BY <1>1 DEF Die, HalfMarked, OnboardingTypeOK
<1>5. OnboardingTypeOK'
  BY <1>1, <1>2, <1>3, <1>4 DEF OnboardingTypeOK, onboarding, human
<1>6. Sealed'
  <2>1. judgment' = judgment \/ unmarked'
    BY <1>1 DEF Die, HalfMarked
  <2>2. run[r].stage \notin Marking \/ unmarked'
    BY <1>1
  <2>3. unmarked => unmarked'
    BY <1>1
  <2> QED
    BY <1>1, <1>2, <1>3, <2>1, <2>2, <2>3, IdleType, SealedKept DEF onboarding, human
<1> QED
  BY <1>1, <1>2, <1>5, <1>6, QuietStep

(* A run that works on does so in a sealed repository. *)
LEMMA SealedStays ==
  ASSUME Sealed, NEW r \in Run, run[r].stage \in {"admitted", "reading"},
         UNCHANGED <<genesis, human, unmarked>>
  PROVE  Sealed'
BY DEF Sealed, human

LEMMA StepAdmit ==
  ASSUME IInv, NEW r \in Run, Admit(r)
  PROVE  IInv'
<1> USE DEF IInv
<1>1. /\ run' = [run EXCEPT ![r].stage = "admitted"] /\ run[r].stage = "checked" /\ ~judgment
      /\ UNCHANGED <<governance, onboarding, human, overtaken>>
      /\ unmarked' = (unmarked \/ \E q \in Run : run[q].stage \in Marking)
  BY DEF Admit, MayWrite, Go
<1>2. /\ run' \in [Run -> RunType]
      /\ \A q \in Run : run'[q].stage = "reading" => run'[q] = run[q]
  BY <1>1, StageType DEF Stages
<1>3. OnboardingTypeOK'
  <2>1. unmarked' \in BOOLEAN
    BY <1>1 DEF OnboardingTypeOK
  <2> QED
    BY <1>1, <1>2, <2>1 DEF OnboardingTypeOK, governance, onboarding, human
<1>4. unmarked' \/ unsealed \/ genesis \in Seals
  BY <1>1 DEF Sealed
<1>5. Sealed'
  BY <1>1, <1>4 DEF Sealed, governance, human
<1> QED
  BY <1>1, <1>2, <1>3, <1>5, QuietStep

LEMMA StepPhase2 ==
  ASSUME IInv, NEW r \in Run, NEW t \in Session, NEW scope \in Scope, Phase2(r, t, scope)
  PROVE  IInv'
<1> USE DEF IInv
<1>1. /\ sessions' \in Seq(SessionLine) /\ cut' \in BOOLEAN /\ CutIsTorn'
      /\ \A s \in Session, i \in 1..Len(sessions') :
           Found(s, i)' =>
             \/ i \in 1..Len(sessions) /\ Found(s, i) /\ sessions'[i] = sessions[i] /\ s # t
             \/ s = t /\ sessions'[i].scope = scope
  BY WriteFacts DEF Phase2
<1>2. /\ latest' = [latest EXCEPT ![t] = scope] /\ latest \in [Session -> Scope \cup {NoScope}]
      /\ overtaken' = overtaken \ {t} /\ run[r].stage = "admitted"
      /\ UNCHANGED <<governance, advice, human, unmarked>>
  BY DEF Phase2, OnboardingTypeOK
<1>3. /\ run' \in [Run -> RunType]
      /\ \A q \in Run : run'[q].stage = "reading" =>
           \/ run'[q] = run[q] /\ run[q].session # t
           \/ run[q].session = t /\ run'[q] = [run[q] EXCEPT !.stale = TRUE]
  <2>1. \A q \in Run : run[q] \in RunType /\ [run[q] EXCEPT !.stale = TRUE] \in RunType
    <3>1. \A q \in Run : run[q] \in RunType
      BY DEF OnboardingTypeOK
    <3>2. \A x \in RunType : [x EXCEPT !.stale = TRUE] \in RunType
      BY DEF RunType
    <3> QED
      BY <3>1, <3>2
  <2>2. Responded(r) \in RunType /\ Responded(r).stage = "answered"
    BY RespondedType
  <2>3. run' = [q \in Run |-> IF q = r THEN Responded(r)
                             ELSE IF run[q].session = t THEN [run[q] EXCEPT !.stale = TRUE]
                             ELSE run[q]]
    BY DEF Phase2
  <2> QED
    BY <2>1, <2>2, <2>3
<1>4. OnboardingTypeOK'
  <2>1. latest' \in [Session -> Scope \cup {NoScope}]
    BY <1>2
  <2>2. overtaken' \in SUBSET Session
    BY <1>2 DEF OnboardingTypeOK
  <2> QED
    BY <1>1, <1>2, <1>3, <2>1, <2>2 DEF OnboardingTypeOK, governance, human
<1>5. FoundIsLatest'
  BY <1>1, <1>2 DEF FoundIsLatest
<1>6. ReadIsLatest'
  <2> SUFFICES ASSUME NEW q \in Run, run'[q].stage = "reading"
               PROVE  /\ run'[q].session \in Session /\ run'[q].scope \in Scope
                      /\ \/ run'[q].stale \/ run'[q].session \in overtaken'
                         \/ run'[q].scope = latest'[run'[q].session]
    BY DEF ReadIsLatest
  <2>1. CASE run'[q] = run[q] /\ run[q].session # t
    BY <1>2, <2>1 DEF ReadIsLatest
  <2>2. CASE run[q].session = t /\ run'[q] = [run[q] EXCEPT !.stale = TRUE]
    <3>1. run[q] \in RunType
      BY DEF OnboardingTypeOK
    <3>2. /\ run'[q].stage = run[q].stage /\ run'[q].session = run[q].session
          /\ run'[q].scope = run[q].scope /\ run'[q].stale = TRUE
      BY <2>2, <3>1 DEF RunType
    <3> QED
      BY <3>2 DEF ReadIsLatest
  <2> QED
    BY <1>3, <2>1, <2>2
<1>7. Sealed'
  BY <1>2, SealedStays DEF governance
<1> QED
  BY <1>1, <1>4, <1>5, <1>6, <1>7

LEMMA StepRead ==
  ASSUME IInv, NEW r \in Run, NEW s \in Session, ReadSession(r, s)
  PROVE  IInv'
<1> USE DEF IInv
<1>0. PICK i \in 1..Len(sessions) :
        /\ Found(s, i)
        /\ run' = [run EXCEPT ![r] = [@ EXCEPT !.stage = "reading", !.session = s,
                                             !.scope = sessions[i].scope]]
  BY DEF ReadSession
<1>1. UNCHANGED <<governance, onboarding, human, past>> /\ run[r].stage = "admitted"
  BY DEF ReadSession
<1>2. sessions[i].scope \in Scope
  <2>1. sessions[i] \in SessionLine /\ sessions[i].id = s
    BY <1>0 DEF Found, OnboardingTypeOK
  <2> QED
    BY <2>1 DEF SessionLine, TornLine
<1> DEFINE h == [run[r] EXCEPT !.stage = "reading", !.session = s, !.scope = sessions[i].scope]
<1>3. h \in RunType /\ h.session = s /\ h.scope = sessions[i].scope /\ run' = [run EXCEPT ![r] = h]
  <2>1. run[r] \in RunType
    BY DEF OnboardingTypeOK
  <2> QED
    BY <1>0, <1>2, <2>1 DEF RunType, Stages
<1> HIDE DEF h
<1>4. run' \in [Run -> RunType] /\ run'[r] = h /\ \A q \in Run \ {r} : run'[q] = run[q]
  BY <1>3 DEF OnboardingTypeOK
<1>5. OnboardingTypeOK'
  BY <1>1, <1>4 DEF OnboardingTypeOK, governance, onboarding, human, past
<1>6. FoundIsLatest' /\ CutIsTorn'
  BY <1>1 DEF FoundIsLatest, CutIsTorn, Found, onboarding, past
<1>7. ReadIsLatest'
  <2>1. s \in overtaken \/ sessions[i].scope = latest[s]
    BY <1>0 DEF FoundIsLatest
  <2> QED
    BY <1>1, <1>2, <1>3, <1>4, <2>1 DEF ReadIsLatest, onboarding, past
<1>8. Sealed'
  BY <1>1, SealedStays DEF governance, past
<1> QED
  BY <1>5, <1>6, <1>7, <1>8

LEMMA StepComplete ==
  ASSUME IInv, NEW r \in Run, NEW given, NEW yes, Complete(r, given, yes)
  PROVE  IInv' /\ (\A s \in Session : advice'[s] # advice[s] =>
                     advice'[s][2] = latest[s] \/ s \in overtaken')
<1> USE DEF IInv
<1> DEFINE t == run[r].session
           scope == run[r].scope
<1>0. /\ run[r].stage = "reading" /\ UNCHANGED <<governance, latest, human, unmarked>>
      /\ run' = [run EXCEPT ![r] = Responded(r)]
      /\ overtaken' = overtaken \cup {u \in {t} : run[r].stale}
      /\ \/ /\ AddLine([id |-> t, scope |-> scope])
            /\ advice' = [advice EXCEPT ![t] = <<Recommended(yes), scope>>]
         \/ CutShort /\ UNCHANGED advice
  BY DEF Complete
<1>1. t \in Session /\ scope \in Scope /\ (t \in overtaken' \/ scope = latest[t])
  BY <1>0 DEF ReadIsLatest
<1> HIDE DEF t, scope
<1>2. /\ sessions' \in Seq(SessionLine) /\ cut' \in BOOLEAN /\ CutIsTorn'
      /\ \A s \in Session, i \in 1..Len(sessions') :
           Found(s, i)' =>
             \/ i \in 1..Len(sessions) /\ Found(s, i) /\ sessions'[i] = sessions[i]
             \/ s = t /\ sessions'[i].scope = scope
  BY <1>0, <1>1, WriteFacts
<1>3. overtaken \subseteq overtaken' /\ overtaken' \in SUBSET Session
  BY <1>0, <1>1 DEF OnboardingTypeOK
<1>4. FoundIsLatest'
  BY <1>0, <1>1, <1>2, <1>3 DEF FoundIsLatest
<1>5. /\ run' \in [Run -> RunType]
      /\ \A q \in Run : run'[q].stage = "reading" => run'[q] = run[q]
  BY <1>0, RespondedType, EndType
<1>6. ReadIsLatest'
  BY <1>0, <1>3, <1>5 DEF ReadIsLatest
<1>7. Sealed'
  BY <1>0, SealedStays DEF governance
<1>8. advice' = advice \/ advice' = [advice EXCEPT ![t] = <<Recommended(yes), scope>>]
  BY <1>0
<1>9. OnboardingTypeOK'
  <2>1. <<Recommended(yes), scope>> \in (SUBSET AllCapabilities) \X Scope
    BY <1>1, RecommendedType
  <2>2. advice' \in [Session -> ((SUBSET AllCapabilities) \X Scope) \cup {None}]
    BY <1>8, <2>1 DEF OnboardingTypeOK
  <2> QED
    BY <1>0, <1>2, <1>3, <1>5, <2>2 DEF OnboardingTypeOK, governance, human
<1>10. \A s \in Session : advice'[s] # advice[s] => advice'[s][2] = latest[s] \/ s \in overtaken'
  BY <1>1, <1>8 DEF OnboardingTypeOK
<1> QED
  BY <1>2, <1>4, <1>6, <1>7, <1>9, <1>10

LEMMA StepHuman ==
  ASSUME IInv, (\E s \in Session : Apply(s)) \/ Edit \/ Unseal
  PROVE  IInv'
<1> USE DEF IInv
<1>1. /\ UNCHANGED <<judgment, run, onboarding, past>>
      /\ \/ genesis' = genesis /\ unsealed' = unsealed
         \/ genesis' = None /\ unsealed' = TRUE
  BY DEF Apply, Edit, Unseal
<1> DEFINE FilesType == allowlist \in SUBSET AllCapabilities /\ config \in Scope \cup {NoScope}
                        /\ applied \in Steps
<1>2. FilesType'
  <2>1. ASSUME NEW s \in Session, Apply(s) PROVE FilesType'
    <3>1. advice[s][1] \in SUBSET AllCapabilities /\ advice[s][2] \in Scope
      BY <2>1, NotAdvice DEF Apply, OnboardingTypeOK
    <3> QED
      BY <2>1, <3>1 DEF Apply, OnboardingTypeOK, Steps
  <2>2. CASE Edit
    BY <2>2 DEF Edit, OnboardingTypeOK, Steps
  <2>3. CASE Unseal
    BY <2>3 DEF Unseal, OnboardingTypeOK
  <2> QED
    BY <2>1, <2>2, <2>3
<1>3. OnboardingTypeOK'
  BY <1>1, <1>2 DEF OnboardingTypeOK, onboarding, past
<1>4. Sealed'
  BY <1>1 DEF Sealed, onboarding, past
<1> QED
  BY <1>1, <1>3, <1>4, QuietStep DEF past

LEMMA Invariance == OnboardingSpec => []IInv
<1>1. IInv /\ [OnboardingNext]_onboardingVars => IInv'
  <2> SUFFICES ASSUME IInv, [OnboardingNext]_onboardingVars PROVE IInv'
    OBVIOUS
  <2>1. CASE UNCHANGED onboardingVars
    BY <2>1 DEF onboardingVars, governance, onboarding, human, past, IInv, OnboardingTypeOK, Sealed,
                FoundIsLatest, ReadIsLatest, CutIsTorn, Found
  <2>2. ASSUME NEW r \in Run, Check(r) PROVE IInv'
    BY <2>2, StepHead, StepVerify, StepMarker, StepClear, StepDie DEF Check
  <2>3. ASSUME NEW r \in Run, Onboard(r) PROVE IInv'
    BY <2>3, StepHead, StepAdmit, StepPhase2, StepRead, StepComplete DEF Onboard, ValidScope
  <2> QED
    BY <2>1, <2>2, <2>3, StepHuman DEF OnboardingNext
<1> QED
  BY <1>1, InitInv, PTL DEF OnboardingSpec

-----------------------------------------------------------------------------
(* The theorems.                                                           *)

\* The governance files, the seal, the sessions and the runs keep their types; what is
\* recommended is always for a scope that was asked for in full.
THEOREM TypeCorrect == OnboardingSpec => []OnboardingTypeOK
<1>1. IInv => OnboardingTypeOK
  BY DEF IInv
<1> QED
  BY <1>1, Invariance, PTL

\* Whoever is told by phase 3 of mondayOnboarding to apply a configuration, and then to
\* let the genesis record be created, is in a repository that has been sealed before:
\* for any number of runs whose sealing, verifying, marking and clearing come between
\* each other, unless somebody has deleted the seal, or a failed verification has left
\* no marker that the router could read.
THEOREM SealedBeforeAdvice == OnboardingSpec => []AdviceComesAfterSeal
<1>1. IInv => AdviceComesAfterSeal
  BY DEF IInv, Sealed, AdviceComesAfterSeal
<1> QED
  BY <1>1, Invariance, PTL

\* Phase 3 completes the scope that was submitted last, whatever lines were cut short,
\* or the session was submitted while it worked and it completes the one it had read.
THEOREM LatestScopeCompletes == OnboardingSpec => CompletesLatestScope
<1> DEFINE Kept == \A s \in Session : advice'[s] # advice[s] => advice'[s][2] = latest[s] \/ s \in overtaken'
<1>1. IInv /\ [OnboardingNext]_onboardingVars => Kept
  <2> SUFFICES ASSUME IInv, [OnboardingNext]_onboardingVars PROVE Kept
    OBVIOUS
  <2>1. ASSUME NEW r \in Run, NEW given, NEW yes, Complete(r, given, yes) PROVE Kept
    BY <2>1, StepComplete
  <2>2. CASE advice' = advice
    BY <2>2
  <2>3. ASSUME NEW r \in Run, Check(r) PROVE advice' = advice
    BY <2>3 DEF Check, Begin, Again, Seal, SealFails, Verify, OpenMarker, WriteMarker, MarkerFails, Clear,
                ClearFails, Die, Leave, onboarding
  <2>4. ASSUME NEW r \in Run, Onboard(r)
        PROVE  advice' = advice \/ \E given, yes : Complete(r, given, yes)
    BY <2>4 DEF Onboard, Admit, Respond, Phase2, ReadSession, onboarding
  <2>5. CASE (\E s \in Session : Apply(s)) \/ Edit \/ Unseal
    BY <2>5 DEF Apply, Edit, Unseal, onboarding
  <2>6. CASE UNCHANGED onboardingVars
    BY <2>6 DEF onboardingVars, onboarding
  <2> QED
    BY <2>1, <2>2, <2>3, <2>4, <2>5, <2>6 DEF OnboardingNext
<1> QED
  BY <1>1, Invariance, PTL DEF OnboardingSpec, CompletesLatestScope
=============================================================================
