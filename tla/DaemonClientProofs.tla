------------------------- MODULE DaemonClientProofs -------------------------
(***************************************************************************)
(* Proofs about DaemonClient, for any number of invocations, any number of *)
(* steps, any rate limit and every fault.                                  *)
(*                                                                         *)
(* The invariant is about one invocation.  Remotely: while the daemon has  *)
(* a request of it, the steps before the requested one have been made      *)
(* there, those after it have not.  Locally: its own process has made a    *)
(* prefix of the plan.  Once: where both may make the last step, the       *)
(* request for it is the one whose answer the client gave up.              *)
(***************************************************************************)
EXTENDS DaemonClient, FiniteSetTheorems, SequenceTheorems, TLAPS

Requests == [step : 0..Steps, phase : Phases \cup Replies]
Progress == [1..Steps -> Nat]

Prefix(made) ==
  /\ \A s \in 1..Steps : made[s] \in 0..1
  /\ \A s, t \in 1..Steps : s <= t /\ made[t] = 1 => made[s] = 1

\* p, n, r, u, m, h: what pc, planned, request, unanswered, remote and here have of
\* the invocation.
Remotely(r, m) ==
  /\ Prefix(m)
  /\ r.phase # "none" =>
       \A s \in 1..Steps : (s < r.step => m[s] = 1) /\ (s > r.step => m[s] = 0)
  /\ r.phase \in {"sent", "running", "write_disabled"} /\ r.step > 0 => m[r.step] = 0
  /\ r.phase = "ok" => r.step > 0 /\ m[r.step] = 1
  /\ r.phase = "write_disabled" => r.step = Steps

Staged(p, n, r, m) ==
  /\ p \in {"idle", "asked"} => r.phase = "none" /\ \A s \in 1..Steps : m[s] = 0
  /\ p \in {"planning", "replanning"} => r.step = 0 /\ r.phase # "none"
  /\ p = "stepping" => r.step \in 1..n /\ r.phase # "none"
  /\ p \notin Awaiting => r.phase \in {"none", "sent", "running"}

Locally(p, h) ==
  /\ Prefix(h)
  /\ p \notin {"local", "ok", "failed"} => \A s \in 1..Steps : h[s] = 0
  /\ p = "local" => h[Steps] = 0

Once(p, r, u, m, h) ==
  p = "local" \/ h[Steps] = 1 =>
    \/ u = Steps
    \/ m[Steps] = 0 /\ ~(r.step = Steps /\ r.phase \in {"sent", "running"})

Complete(p, n, m, h) ==
  p = "ok" => \/ \A s \in 1..Steps : h[s] = 1
              \/ \A s \in 1..Steps : s <= n => m[s] = 1

Fits(p, n, r, u, m, h) ==
  Remotely(r, m) /\ Staged(p, n, r, m) /\ Locally(p, h) /\ Once(p, r, u, m, h)
    /\ Complete(p, n, m, h)

Invocation(c) ==
  Fits(pc[c], planned[c], request[c], unanswered[c], remote[c], here[c])

DaemonOK ==
  /\ serving \in BOOLEAN
  /\ readOnly \in BOOLEAN
  /\ window \in [start : Nat, count : Nat]
  /\ clock \in 0..MaxTime
  /\ accepted \in Seq(0..MaxTime)

IInv == TypeOK /\ \A c \in Client : Invocation(c)

USE ClientAssumption

(* The types of what is read of one invocation. *)
LEMMA Types ==
  ASSUME TypeOK, NEW c \in Client
  PROVE  /\ pc[c] \in Stages
         /\ planned[c] \in 1..Steps
         /\ request[c] \in Requests
         /\ request[c].step \in 0..Steps
         /\ request[c].phase \in Phases \cup Replies
         /\ unanswered[c] \in 0..Steps
         /\ remote[c] \in Progress
         /\ here[c] \in Progress
BY DEF TypeOK, Requests, Progress

(* The step that an invocation makes itself is the first it has not made. *)
LEMMA FirstUnmade ==
  ASSUME TypeOK, NEW c \in Client, Prefix(here[c]), here[c][Steps] = 0
  PROVE  /\ StepHere(c) \in 1..Steps
         /\ \A s \in 1..Steps : here[c][s] = IF s < StepHere(c) THEN 1 ELSE 0
<1> DEFINE S == {s \in 1..Steps : here[c][s] > 0}
           k == Cardinality(S)
<1>1. IsFiniteSet(1..Steps) /\ Cardinality(1..Steps) = Steps
  BY FS_Interval
<1>2. S \in SUBSET (1..Steps) /\ S # 1..Steps
  <2>1. Steps \in 1..Steps /\ Steps \notin S
    OBVIOUS
  <2> QED
    BY <2>1
<1>3. IsFiniteSet(S) /\ k \in Nat /\ k < Steps
  <2>1. IsFiniteSet(S) /\ k <= Steps /\ k # Steps
    BY <1>1, <1>2, FS_Subset
  <2>2. k \in Nat
    BY <2>1, FS_CardinalityType
  <2> QED
    BY <2>1, <2>2
<1>4. \A s \in S : s <= k
  <2> TAKE s \in S
  <2>1. 1..s \in SUBSET S
    <3> SUFFICES ASSUME NEW t \in 1..s PROVE t \in S
      OBVIOUS
    <3>1. here[c][s] = 1 /\ t \in 1..Steps
      BY DEF Prefix
    <3>2. here[c][t] = 1
      BY <3>1 DEF Prefix
    <3> QED
      BY <3>1, <3>2
  <2>2. Cardinality(1..s) = s
    BY FS_Interval
  <2> QED
    BY <1>3, <2>1, <2>2, FS_Subset
<1>5. S = 1..k
  <2>1. S \in SUBSET (1..k)
    BY <1>3, <1>4
  <2>2. IsFiniteSet(1..k) /\ Cardinality(1..k) = k
    BY <1>3, FS_Interval
  <2> QED
    BY <2>1, <2>2, FS_Subset
<1>6. StepHere(c) = k + 1
  BY DEF StepHere
<1>7. \A s \in 1..Steps : here[c][s] = IF s <= k THEN 1 ELSE 0
  <2> TAKE s \in 1..Steps
  <2>1. s <= k <=> here[c][s] > 0
    BY <1>3, <1>5
  <2> QED
    BY <1>3, <2>1 DEF Prefix
<1> HIDE DEF k
<1> QED
  BY <1>3, <1>6, <1>7

(* A step that leaves all invocations but one alone. *)
Alike(d) ==
  /\ pc'[d] = pc[d] /\ planned'[d] = planned[d] /\ request'[d] = request[d]
  /\ unanswered'[d] = unanswered[d] /\ remote'[d] = remote[d] /\ here'[d] = here[d]

LEMMA OneMoves ==
  ASSUME IInv, NEW c \in Client, TypeOK', \A d \in Client : d # c => Alike(d), Invocation(c)'
  PROVE  IInv'
BY DEF IInv, Invocation, Alike

(* Most steps only change where an invocation is and what it has asked for. *)
LEMMA OneMovesOn ==
  ASSUME IInv, NEW c \in Client, NEW p \in Stages, NEW r \in Requests,
         pc' = [pc EXCEPT ![c] = p], request' = [request EXCEPT ![c] = r],
         UNCHANGED <<planned, unanswered, remote, here>>, DaemonOK',
         Fits(p, planned[c], r, unanswered[c], remote[c], here[c])
  PROVE  IInv'
<1>1. TypeOK'
  BY DEF IInv, TypeOK, DaemonOK, Requests
<1>2. \A d \in Client : d # c => Alike(d)
  BY DEF IInv, TypeOK, Alike
<1>3. Invocation(c)'
  BY DEF IInv, TypeOK, Invocation
<1> QED
  BY <1>1, <1>2, <1>3, OneMoves

LEMMA DaemonStays == ASSUME TypeOK, UNCHANGED daemonVars PROVE DaemonOK'
BY DEF TypeOK, DaemonOK, daemonVars

LEMMA InitInv == Init => IInv
<1> SUFFICES ASSUME Init PROVE IInv
  OBVIOUS
<1>1. TypeOK
  BY DEF Init, TypeOK, Nothing, NoWindow, Stages, Awaiting, Phases, Replies
<1>2. ASSUME NEW c \in Client PROVE Invocation(c)
  BY <1>2 DEF Init, Invocation, Fits, Remotely, Staged, Locally, Once, Complete, Prefix,
     Nothing, Awaiting
<1> QED
  BY <1>1, <1>2 DEF IInv

-----------------------------------------------------------------------------
(* The client.                                                             *)

LEMMA InvokeStep == ASSUME IInv, NEW c \in Client, Invoke(c) PROVE IInv'
<1>1. DaemonOK'
  BY DaemonStays DEF IInv, Invoke
<1>2. CASE Go(c, "idle", "planning") /\ Send(c, 0)
  <2>1. "planning" \in Stages /\ [step |-> 0, phase |-> "sent"] \in Requests
    BY Types DEF IInv, Stages, Awaiting, Requests, Phases, Replies, Nothing
  <2>2. pc' = [pc EXCEPT ![c] = "planning"]
          /\ request' = [request EXCEPT ![c] = [step |-> 0, phase |-> "sent"]]
    BY <1>2, Types DEF IInv, TypeOK, Invoke, Go, Send
  <2>3. UNCHANGED <<planned, unanswered, remote, here>>
    BY DEF Invoke
  <2>4. Fits("planning", planned[c], [step |-> 0, phase |-> "sent"], unanswered[c], remote[c],
             here[c])
    BY <1>2, Types DEF IInv, Invocation, Invoke, Go, Send, Fits, Remotely, Staged,
         Locally, Once, Complete, Stages, Awaiting, Requests, Phases, Replies, Nothing
  <2> QED
    BY <2>1, <2>2, <2>3, <2>4, <1>1, OneMovesOn
<1>3. CASE Go(c, "idle", "local") /\ UNCHANGED request
  <2>1. "local" \in Stages /\ request[c] \in Requests
    BY Types DEF IInv, Stages, Awaiting, Requests, Phases, Replies, Nothing
  <2>2. pc' = [pc EXCEPT ![c] = "local"] /\ request' = [request EXCEPT ![c] = request[c]]
    BY <1>3, Types DEF IInv, TypeOK, Invoke, Go, Send
  <2>3. UNCHANGED <<planned, unanswered, remote, here>>
    BY DEF Invoke
  <2>4. Fits("local", planned[c], request[c], unanswered[c], remote[c], here[c])
    BY <1>3, Types DEF IInv, Invocation, Invoke, Go, Send, Fits, Remotely, Staged,
         Locally, Once, Complete, Stages, Awaiting, Requests, Phases, Replies, Nothing
  <2> QED
    BY <2>1, <2>2, <2>3, <2>4, <1>1, OneMovesOn
<1> QED
  BY <1>2, <1>3 DEF Invoke

LEMMA ReceiveFirstPlanStep == ASSUME IInv, NEW c \in Client, ReceiveFirstPlan(c) PROVE IInv'
<1>1. DaemonOK'
  BY DaemonStays DEF IInv, ReceiveFirstPlan
<1>2. "asked" \in Stages /\ Nothing \in Requests
  BY Types DEF IInv, Stages, Awaiting, Requests, Phases, Replies, Nothing
<1>3. pc' = [pc EXCEPT ![c] = "asked"] /\ request' = [request EXCEPT ![c] = Nothing]
  BY Types DEF IInv, TypeOK, ReceiveFirstPlan, Go, Done, Answered
<1>4. UNCHANGED <<planned, unanswered, remote, here>>
  BY DEF ReceiveFirstPlan
<1>5. Fits("asked", planned[c], Nothing, unanswered[c], remote[c], here[c])
  BY Types DEF IInv, Invocation, ReceiveFirstPlan, Go, Done, Answered, Fits, Remotely,
       Staged, Locally, Once, Complete, Stages, Awaiting, Requests, Phases, Replies,
       Nothing
<1> QED
  BY <1>2, <1>3, <1>4, <1>5, <1>1, OneMovesOn

LEMMA ApproveStep == ASSUME IInv, NEW c \in Client, Approve(c) PROVE IInv'
<1>1. DaemonOK'
  BY DaemonStays DEF IInv, Approve
<1>2. CASE Go(c, "asked", "replanning") /\ Send(c, 0)
  <2>1. "replanning" \in Stages /\ [step |-> 0, phase |-> "sent"] \in Requests
    BY Types DEF IInv, Stages, Awaiting, Requests, Phases, Replies, Nothing
  <2>2. pc' = [pc EXCEPT ![c] = "replanning"]
          /\ request' = [request EXCEPT ![c] = [step |-> 0, phase |-> "sent"]]
    BY <1>2, Types DEF IInv, TypeOK, Approve, Go, Send
  <2>3. UNCHANGED <<planned, unanswered, remote, here>>
    BY DEF Approve
  <2>4. Fits("replanning", planned[c], [step |-> 0, phase |-> "sent"], unanswered[c],
             remote[c], here[c])
    BY <1>2, Types DEF IInv, Invocation, Approve, Go, Send, Fits, Remotely, Staged,
         Locally, Once, Complete, Stages, Awaiting, Requests, Phases, Replies, Nothing
  <2> QED
    BY <2>1, <2>2, <2>3, <2>4, <1>1, OneMovesOn
<1>3. CASE Go(c, "asked", "failed") /\ UNCHANGED request
  <2>1. "failed" \in Stages /\ request[c] \in Requests
    BY Types DEF IInv, Stages, Awaiting, Requests, Phases, Replies, Nothing
  <2>2. pc' = [pc EXCEPT ![c] = "failed"] /\ request' = [request EXCEPT ![c] = request[c]]
    BY <1>3, Types DEF IInv, TypeOK, Approve, Go, Send
  <2>3. UNCHANGED <<planned, unanswered, remote, here>>
    BY DEF Approve
  <2>4. Fits("failed", planned[c], request[c], unanswered[c], remote[c], here[c])
    BY <1>3, Types DEF IInv, Invocation, Approve, Go, Send, Fits, Remotely, Staged,
         Locally, Once, Complete, Stages, Awaiting, Requests, Phases, Replies, Nothing
  <2> QED
    BY <2>1, <2>2, <2>3, <2>4, <1>1, OneMovesOn
<1> QED
  BY <1>2, <1>3 DEF Approve

LEMMA ReceivePlanStep == ASSUME IInv, NEW c \in Client, ReceivePlan(c) PROVE IInv'
<1> DEFINE n == IF Answered(c, "plan") THEN Steps ELSE 1
           r == [step |-> 1, phase |-> "sent"]
<1>1. n \in 1..Steps /\ r \in Requests
  BY DEF Stages, Awaiting, Requests, Phases, Replies
<1>2. /\ pc[c] = "replanning" /\ pc' = [pc EXCEPT ![c] = "stepping"]
      /\ planned' = [planned EXCEPT ![c] = n] /\ request' = [request EXCEPT ![c] = r]
      /\ UNCHANGED <<unanswered, remote, here, daemonVars>>
  BY DEF ReceivePlan, Go, Send
<1> HIDE DEF n, r
<1>3. TypeOK'
  <2>1. pc' \in [Client -> Stages] /\ planned' \in [Client -> 1..Steps]
    BY <1>1, <1>2 DEF IInv, TypeOK, Stages, Awaiting
  <2>2. request' \in [Client -> Requests]
    BY <1>1, <1>2 DEF IInv, TypeOK, Requests
  <2> QED
    BY <1>2, <2>1, <2>2 DEF IInv, TypeOK, Requests, daemonVars
<1>4. \A d \in Client : d # c => Alike(d)
  BY <1>2 DEF IInv, TypeOK, Alike
<1>5. Fits("stepping", n, r, unanswered[c], remote[c], here[c])
  BY <1>1, <1>2, Types DEF IInv, Invocation, Fits, Remotely, Staged, Locally, Once,
       Complete, Awaiting, r
<1>6. Invocation(c)'
  BY <1>2, <1>5 DEF IInv, TypeOK, Invocation
<1> QED
  BY <1>3, <1>4, <1>6, OneMoves

LEMMA ReceiveStepStep == ASSUME IInv, NEW c \in Client, ReceiveStep(c) PROVE IInv'
<1>1. DaemonOK'
  BY DaemonStays DEF IInv, ReceiveStep
<1>2. CASE request[c].step < planned[c] /\ Go(c, "stepping", "stepping")
        /\ Send(c, request[c].step + 1)
  <2>1. "stepping" \in Stages /\ [step |-> request[c].step + 1, phase |-> "sent"] \in Requests
    BY <1>2, Types DEF IInv, Stages, Awaiting, Requests, Phases, Replies, Nothing
  <2>2. pc' = [pc EXCEPT ![c] = "stepping"]
          /\ request' = [request EXCEPT ![c] =
               [step |-> request[c].step + 1, phase |-> "sent"]]
    BY <1>2, Types DEF IInv, TypeOK, ReceiveStep, Go, Send, Done, Answered
  <2>3. UNCHANGED <<planned, unanswered, remote, here>>
    BY DEF ReceiveStep
  <2> DEFINE r == [step |-> request[c].step + 1, phase |-> "sent"]
  <2>f. Fits("stepping", planned[c], request[c], unanswered[c], remote[c], here[c])
    BY <1>2 DEF IInv, Invocation, Go
  <2>g. request[c].phase = "ok" /\ request[c].step < planned[c]
    BY <1>2 DEF ReceiveStep, Answered
  <2>t. request[c].step \in 1..Steps /\ planned[c] \in 1..Steps
    BY <2>f, Types DEF IInv, Fits, Staged
  <2>4. Fits("stepping", planned[c], r, unanswered[c], remote[c], here[c])
    <3>1. Remotely(r, remote[c])
      <4>1. /\ Prefix(remote[c])
            /\ \A s \in 1..Steps : s < request[c].step => remote[c][s] = 1
            /\ \A s \in 1..Steps : s > request[c].step => remote[c][s] = 0
            /\ remote[c][request[c].step] = 1
        BY <2>f, <2>g DEF Fits, Remotely
      <4>2. \A s \in 1..Steps : s < r.step => remote[c][s] = 1
        BY <2>t, <4>1
      <4>3. r.step \in 1..Steps /\ (\A s \in 1..Steps : s >= r.step => remote[c][s] = 0)
        BY <2>g, <2>t, <4>1
      <4>4. r.phase = "sent"
        OBVIOUS
      <4> HIDE DEF r
      <4> QED
        BY <2>t, <4>1, <4>2, <4>3, <4>4 DEF Remotely
    <3>2. Staged("stepping", planned[c], r, remote[c])
      BY <2>g, <2>t DEF Staged, Awaiting
    <3>3. Locally("stepping", here[c])
      BY <2>f DEF Fits
    <3>4. Once("stepping", r, unanswered[c], remote[c], here[c])
      BY <2>f, <2>g, <2>t DEF Fits, Once, Staged, Locally
    <3>5. Complete("stepping", planned[c], remote[c], here[c])
      BY DEF Complete
    <3> QED
      BY <3>1, <3>2, <3>3, <3>4, <3>5 DEF Fits
  <2> QED
    BY <2>1, <2>2, <2>3, <2>4, <1>1, OneMovesOn
<1>3. CASE request[c].step >= planned[c] /\ Go(c, "stepping", "ok") /\ Done(c)
  <2>1. "ok" \in Stages /\ Nothing \in Requests
    BY Types DEF IInv, Stages, Awaiting, Requests, Phases, Replies, Nothing
  <2>2. pc' = [pc EXCEPT ![c] = "ok"] /\ request' = [request EXCEPT ![c] = Nothing]
    BY <1>3, Types DEF IInv, TypeOK, ReceiveStep, Go, Send, Done, Answered
  <2>3. UNCHANGED <<planned, unanswered, remote, here>>
    BY DEF ReceiveStep
  <2>4. Fits("ok", planned[c], Nothing, unanswered[c], remote[c], here[c])
    BY <1>3, Types DEF IInv, Invocation, ReceiveStep, Go, Send, Done, Answered, Fits,
         Remotely, Staged, Locally, Once, Complete, Stages, Awaiting, Requests, Phases,
         Replies, Nothing
  <2> QED
    BY <2>1, <2>2, <2>3, <2>4, <1>1, OneMovesOn
<1> QED
  BY <1>2, <1>3 DEF ReceiveStep

LEMMA ReceiveRefusalStep == ASSUME IInv, NEW c \in Client, ReceiveRefusal(c) PROVE IInv'
<1>1. DaemonOK'
  BY DaemonStays DEF IInv, ReceiveRefusal
<1>2. "failed" \in Stages /\ Nothing \in Requests
  BY Types DEF IInv, Stages, Awaiting, Requests, Phases, Replies, Nothing
<1>3. pc' = [pc EXCEPT ![c] = "failed"] /\ request' = [request EXCEPT ![c] = Nothing]
  BY Types DEF IInv, TypeOK, ReceiveRefusal, Go, Done, Answered
<1>4. UNCHANGED <<planned, unanswered, remote, here>>
  BY DEF ReceiveRefusal
<1>5. Fits("failed", planned[c], Nothing, unanswered[c], remote[c], here[c])
  BY Types DEF IInv, Invocation, ReceiveRefusal, Go, Done, Answered, Fits, Remotely,
       Staged, Locally, Once, Complete, Stages, Awaiting, Requests, Phases, Replies,
       Nothing
<1> QED
  BY <1>2, <1>3, <1>4, <1>5, <1>1, OneMovesOn

LEMMA RerouteStep == ASSUME IInv, NEW c \in Client, Reroute(c) PROVE IInv'
<1>1. DaemonOK'
  BY DaemonStays DEF IInv, Reroute
<1>2. "local" \in Stages /\ Nothing \in Requests
  BY Types DEF IInv, Stages, Awaiting, Requests, Phases, Replies, Nothing
<1>3. pc' = [pc EXCEPT ![c] = "local"] /\ request' = [request EXCEPT ![c] = Nothing]
  BY Types DEF IInv, TypeOK, Reroute, Go, Done, Answered
<1>4. UNCHANGED <<planned, unanswered, remote, here>>
  BY DEF Reroute
<1>5. Fits("local", planned[c], Nothing, unanswered[c], remote[c], here[c])
  BY Types DEF IInv, Invocation, Reroute, Go, Done, Answered, Fits, Remotely, Staged,
       Locally, Once, Complete, Stages, Awaiting, Requests, Phases, Replies, Nothing
<1> QED
  BY <1>2, <1>3, <1>4, <1>5, <1>1, OneMovesOn

LEMMA NoAnswerStep == ASSUME IInv, NEW c \in Client, NoAnswer(c) PROVE IInv'
<1> DEFINE r == [request[c] EXCEPT !.phase = IF @ \in {"sent", "running"} THEN @ ELSE "none"]
           u == request[c].step
<1>1. r \in Requests /\ u \in 0..Steps
  BY Types DEF IInv, Stages, Awaiting, Requests, Phases, Replies
<1>2. /\ pc[c] \in Awaiting /\ pc' = [pc EXCEPT ![c] = "local"]
      /\ unanswered' = [unanswered EXCEPT ![c] = u] /\ request' = [request EXCEPT ![c] = r]
      /\ UNCHANGED <<planned, remote, here, daemonVars>>
  BY DEF NoAnswer
<1>3. Fits("local", planned[c], r, u, remote[c], here[c])
  BY <1>2, Types DEF IInv, Invocation, Fits, Remotely, Staged, Locally, Once, Complete,
       Stages, Awaiting, Requests, Phases, Replies
<1> HIDE DEF r, u
<1>4. TypeOK'
  <2>1. pc' \in [Client -> Stages] /\ unanswered' \in [Client -> 0..Steps]
    BY <1>1, <1>2 DEF IInv, TypeOK, Stages, Awaiting
  <2>2. request' \in [Client -> Requests]
    BY <1>1, <1>2 DEF IInv, TypeOK, Requests
  <2> QED
    BY <1>2, <2>1, <2>2 DEF IInv, TypeOK, Requests, daemonVars
<1>5. \A d \in Client : d # c => Alike(d)
  BY <1>2 DEF IInv, TypeOK, Alike
<1>6. Invocation(c)'
  BY <1>2, <1>3 DEF IInv, TypeOK, Invocation
<1> QED
  BY <1>4, <1>5, <1>6, OneMoves

(* The step made here is the next of the prefix. *)
LEMMA MadeHere ==
  ASSUME IInv, NEW c \in Client, pc[c] = "local", NEW p \in {"local", "ok", "failed"},
         p = "local" => StepHere(c) < Steps,
         p = "ok" => StepHere(c) = Steps,
         pc' = [pc EXCEPT ![c] = p], here' = [here EXCEPT ![c][StepHere(c)] = @ + 1],
         UNCHANGED <<planned, request, unanswered, remote, daemonVars>>
  PROVE  IInv'
<1> DEFINE k == StepHere(c)
           h == [here[c] EXCEPT ![k] = @ + 1]
<1>1. /\ k \in 1..Steps
      /\ \A s \in 1..Steps : here[c][s] = IF s < k THEN 1 ELSE 0
  BY FirstUnmade DEF IInv, Invocation, Fits, Locally
<1>2. here' = [here EXCEPT ![c] = h]
  BY Types DEF IInv, TypeOK
<1>3. h \in Progress /\ \A s \in 1..Steps : h[s] = IF s <= k THEN 1 ELSE 0
  BY <1>1, Types DEF IInv, Progress
<1> HIDE DEF k, h
<1>4. TypeOK'
  <2>1. pc' \in [Client -> Stages] /\ here' \in [Client -> Progress]
    BY <1>2, <1>3 DEF IInv, TypeOK, Stages, Awaiting, Progress
  <2> QED
    BY <2>1 DEF IInv, TypeOK, Progress, daemonVars
<1>5. \A d \in Client : d # c => Alike(d)
  BY <1>2 DEF IInv, TypeOK, Alike
<1>6. Fits(p, planned[c], request[c], unanswered[c], remote[c], h)
  <2>1. Remotely(request[c], remote[c]) /\ Staged(p, planned[c], request[c], remote[c])
    BY DEF IInv, Invocation, Fits, Staged, Awaiting
  <2>2. Locally(p, h)
    BY <1>1, <1>3 DEF Locally, Prefix, k
  <2>3. Once(p, request[c], unanswered[c], remote[c], h)
    BY DEF IInv, Invocation, Fits, Once
  <2>4. Complete(p, planned[c], remote[c], h)
    BY <1>3 DEF Complete, k
  <2> QED
    BY <2>1, <2>2, <2>3, <2>4 DEF Fits
<1>7. Invocation(c)'
  BY <1>2, <1>6 DEF IInv, TypeOK, Invocation
<1> QED
  BY <1>4, <1>5, <1>7, OneMoves

LEMMA RunHereStep == ASSUME IInv, NEW c \in Client, RunHere(c) PROVE IInv'
<1>1. StepHere(c) \in 1..Steps
  BY FirstUnmade DEF IInv, Invocation, Fits, Locally, RunHere, Go
<1>2. CASE StepHere(c) < Steps
  BY <1>2, MadeHere DEF RunHere, Go
<1>3. CASE StepHere(c) = Steps
  BY <1>3, MadeHere DEF RunHere, Go
<1> QED
  BY <1>1, <1>2, <1>3

LEMMA StopHereStep == ASSUME IInv, NEW c \in Client, StopHere(c) PROVE IInv'
<1>1. CASE UNCHANGED here
  <2>1. DaemonOK'
    BY DaemonStays DEF IInv, StopHere
  <2>2. "failed" \in Stages /\ request[c] \in Requests
    BY Types DEF IInv, Stages
  <2>3. pc' = [pc EXCEPT ![c] = "failed"] /\ request' = [request EXCEPT ![c] = request[c]]
    BY DEF IInv, TypeOK, StopHere, Go
  <2>4. UNCHANGED <<planned, unanswered, remote, here>>
    BY <1>1 DEF StopHere
  <2>5. Fits("failed", planned[c], request[c], unanswered[c], remote[c], here[c])
    BY DEF IInv, Invocation, Fits, Remotely, Staged, Locally, Once, Complete, StopHere,
         Go, Awaiting
  <2> QED
    BY <2>1, <2>2, <2>3, <2>4, <2>5, OneMovesOn
<1>2. CASE here' = [here EXCEPT ![c][StepHere(c)] = @ + 1]
  BY <1>2, MadeHere DEF StopHere, Go
<1> QED
  BY <1>1, <1>2 DEF StopHere

-----------------------------------------------------------------------------
(* The daemon.                                                             *)

(* Taking up a request, or answering it without having made a step. *)
LEMMA Answering ==
  ASSUME IInv, NEW c \in Client, request[c].phase \in {"sent", "running"},
         NEW to \in {"running", "plan", "error", "write_disabled"}, Phase(c, to),
         to = "write_disabled" => request[c].step = Steps,
         UNCHANGED <<pc, planned, unanswered, remote, here>>, DaemonOK'
  PROVE  IInv'
<1> DEFINE ph == IF pc[c] \in Awaiting \/ to = "running" THEN to ELSE "none"
           r == [request[c] EXCEPT !.phase = ph]
<1>1. pc[c] \in Stages /\ r \in Requests
  BY Types DEF IInv, Requests, Phases, Replies
<1>2. pc' = [pc EXCEPT ![c] = pc[c]] /\ request' = [request EXCEPT ![c] = r]
  BY DEF IInv, TypeOK, Phase
<1>3. r.step = request[c].step /\ r.phase = ph
  BY Types DEF IInv, Requests
<1> HIDE DEF r
<1>4. Fits(pc[c], planned[c], r, unanswered[c], remote[c], here[c])
  BY <1>3, Types DEF IInv, Invocation, Fits, Remotely, Staged, Locally, Once, Complete,
       Awaiting
<1> HIDE DEF ph
<1> QED
  BY <1>1, <1>2, <1>4, OneMovesOn

LEMMA AppendTime ==
  ASSUME NEW s \in Seq(0..MaxTime), NEW t \in 0..MaxTime
  PROVE  /\ Append(s, t) \in Seq(0..MaxTime)
         /\ Len(Append(s, t)) = Len(s) + 1
         /\ DOMAIN Append(s, t) = 1..(Len(s) + 1)
         /\ \A i \in 1..Len(s) : Append(s, t)[i] = s[i]
         /\ Append(s, t)[Len(s) + 1] = t
OBVIOUS

LEMMA AcceptStep == ASSUME IInv, NEW c \in Client, Accept(c) PROVE IInv'
<1> DEFINE fresh == window.count = 0 \/ clock - window.start > WindowMs
           pass == fresh \/ window.count < RateMax
<1>1. DaemonOK'
  <2>1. window' \in [start : Nat, count : Nat]
    <3>1. clock \in Nat /\ window.count \in Nat /\ window \in [start : Nat, count : Nat]
      BY DEF IInv, TypeOK
    <3>2. \/ window' = [start |-> clock, count |-> 1]
          \/ window' = [window EXCEPT !.count = @ + 1]
      BY DEF Accept
    <3> QED
      BY <3>1, <3>2
  <2>2. accepted' \in Seq(0..MaxTime)
    <3>1. accepted \in Seq(0..MaxTime) /\ Append(accepted, clock) \in Seq(0..MaxTime)
      BY AppendTime DEF IInv, TypeOK
    <3>2. accepted' = IF pass THEN Append(accepted, clock) ELSE accepted
      BY DEF Accept
    <3> QED
      BY <3>1, <3>2
  <2> QED
    BY <2>1, <2>2 DEF IInv, TypeOK, DaemonOK, Accept
<1>2. \/ Phase(c, "running")
      \/ Phase(c, "error")
  <2>1. Phase(c, IF pass THEN "running" ELSE "error")
    BY DEF Accept
  <2>2. CASE pass
    BY <2>1, <2>2
  <2>3. CASE ~pass
    BY <2>1, <2>3
  <2> QED
    BY <2>2, <2>3
<1>3. request[c].phase = "sent" /\ UNCHANGED <<pc, planned, unanswered, remote, here>>
  BY DEF Accept, clientVars
<1> QED
  BY <1>1, <1>2, <1>3, Answering

LEMMA AnswerPlanStep == ASSUME IInv, NEW c \in Client, AnswerPlan(c) PROVE IInv'
<1>1. DaemonOK'
  BY DaemonStays DEF IInv, AnswerPlan
<1>2. request[c].phase = "running" /\ UNCHANGED <<pc, planned, unanswered, remote, here>>
  BY DEF AnswerPlan, Handling, clientVars
<1>3. Phase(c, "plan") \/ Phase(c, "error")
  BY DEF AnswerPlan
<1> QED
  BY <1>1, <1>2, <1>3, Answering

LEMMA RefuseStepStep == ASSUME IInv, NEW c \in Client, RefuseStep(c) PROVE IInv'
<1>1. DaemonOK'
  BY DaemonStays DEF IInv, RefuseStep
<1>2. /\ request[c].phase = "running"
      /\ UNCHANGED <<pc, planned, unanswered, remote, here>>
      /\ Phase(c, "error") \/ (Phase(c, "write_disabled") /\ request[c].step = Steps)
  BY DEF RefuseStep, Handling, Disabled, clientVars
<1> QED
  BY <1>1, <1>2, Answering

LEMMA RunStepStep == ASSUME IInv, NEW c \in Client, RunStep(c) PROVE IInv'
<1>1. PICK s \in 1..Steps, to \in {"ok", "error"} :
        /\ Handling(c, s)
        /\ remote' = [remote EXCEPT ![c][s] = @ + 1]
        /\ Phase(c, to)
        /\ UNCHANGED <<clientVars, daemonVars>>
  BY DEF RunStep
<1> DEFINE ph == IF pc[c] \in Awaiting THEN to ELSE "none"
           r == [request[c] EXCEPT !.phase = ph]
           m == [remote[c] EXCEPT ![s] = @ + 1]
<1>2. request[c].step = s /\ request[c].phase = "running"
  BY <1>1 DEF Handling
<1>3. r \in Requests /\ r.step = s /\ r.phase = ph
  BY <1>2, Types DEF IInv, Requests, Phases, Replies
<1>4. m \in Progress /\ \A t \in 1..Steps : m[t] = IF t <= s THEN 1 ELSE 0
  <2>1. \A t \in 1..Steps : remote[c][t] = IF t < s THEN 1 ELSE 0
    BY <1>2, Types DEF IInv, Invocation, Fits, Remotely
  <2>2. remote[c] \in Progress
    BY Types DEF IInv
  <2> QED
    BY <2>1, <2>2 DEF Progress
<1>5. request' = [request EXCEPT ![c] = r] /\ remote' = [remote EXCEPT ![c] = m]
  BY <1>1 DEF IInv, TypeOK, Phase
<1>6. UNCHANGED <<pc, planned, unanswered, here>>
  BY <1>1 DEF clientVars
<1> HIDE DEF r, m
<1>7. TypeOK'
  <2>1. DaemonOK'
    BY <1>1, DaemonStays DEF IInv
  <2>2. request' \in [Client -> Requests] /\ remote' \in [Client -> Progress]
    BY <1>3, <1>4, <1>5 DEF IInv, TypeOK, Requests, Progress
  <2> QED
    BY <1>6, <2>1, <2>2 DEF IInv, TypeOK, DaemonOK, Requests, Progress
<1>8. \A d \in Client : d # c => Alike(d)
  BY <1>5, <1>6 DEF IInv, TypeOK, Alike
<1>9. Fits(pc[c], planned[c], r, unanswered[c], m, here[c])
  <2>1. Remotely(r, m)
    BY <1>3, <1>4 DEF Remotely, Prefix
  <2>2. Staged(pc[c], planned[c], r, m)
    BY <1>2, <1>3 DEF IInv, Invocation, Fits, Staged, Awaiting
  <2>3. Locally(pc[c], here[c])
    BY DEF IInv, Invocation, Fits
  <2>4. Once(pc[c], r, unanswered[c], m, here[c])
    BY <1>2, <1>3, <1>4 DEF IInv, Invocation, Fits, Once
  <2>5. Complete(pc[c], planned[c], m, here[c])
    BY <1>2, <1>4, Types DEF IInv, Invocation, Fits, Remotely, Prefix, Complete
  <2> QED
    BY <2>1, <2>2, <2>3, <2>4, <2>5 DEF Fits
<1>10. Invocation(c)'
  BY <1>5, <1>6, <1>9 DEF IInv, TypeOK, Invocation
<1> QED
  BY <1>7, <1>8, <1>10, OneMoves

LEMMA CrashStep == ASSUME IInv, Crash PROVE IInv'
<1>1. ASSUME NEW c \in Client
      PROVE  /\ request'[c] \in Requests
             /\ Invocation(c)'
  <2>0. PICK to \in {"cut", "lost"} :
          pc[c] \in Awaiting => request'[c] = [request[c] EXCEPT !.phase = to]
    BY DEF Crash
  <2> DEFINE r == [request[c] EXCEPT !.phase = to]
  <2>1. r \in Requests /\ r.step = request[c].step /\ r.phase \in {"cut", "lost"}
    BY Types DEF IInv, Requests, Phases
  <2>2. /\ pc'[c] = pc[c] /\ planned'[c] = planned[c] /\ unanswered'[c] = unanswered[c]
        /\ here'[c] = here[c] /\ remote'[c] = remote[c]
    BY DEF Crash, clientVars
  <2>3. CASE pc[c] \in Awaiting
    <3>1. request'[c] = r
      BY <2>0, <2>3
    <3> HIDE DEF r
    <3>2. Fits(pc[c], planned[c], r, unanswered[c], remote[c], here[c])
      BY <2>1, <2>3, Types DEF IInv, Invocation, Fits, Remotely, Staged, Locally, Once,
           Complete, Awaiting
    <3> QED
      BY <2>1, <2>2, <3>1, <3>2 DEF Invocation
  <2>4. CASE pc[c] \notin Awaiting
    <3>1. request'[c] = Nothing
      BY <2>4 DEF Crash
    <3>2. Nothing \in Requests
      BY DEF Nothing, Requests, Phases
    <3>3. Fits(pc[c], planned[c], Nothing, unanswered[c], remote[c], here[c])
      BY <2>4, Types DEF IInv, Invocation, Fits, Remotely, Staged, Locally, Once,
           Complete, Awaiting, Nothing
    <3> QED
      BY <2>2, <3>1, <3>2, <3>3 DEF Invocation
  <2> QED
    BY <2>3, <2>4
<1>2. TypeOK'
  <2>1. request' \in [Client -> Requests]
    <3>1. request' = [c \in Client |-> request'[c]]
      BY DEF Crash
    <3> QED
      BY <1>1, <3>1
  <2>2. accepted' \in Seq(0..MaxTime)
    BY EmptySeq DEF Crash
  <2> QED
    BY <2>1, <2>2 DEF IInv, TypeOK, Crash, clientVars, NoWindow, Requests
<1> QED
  BY <1>1, <1>2 DEF IInv

(* Steps of the daemon alone. *)
LEMMA NobodyMoves ==
  ASSUME IInv, UNCHANGED <<clientVars, request, remote>>, DaemonOK'
  PROVE  IInv'
BY DEF IInv, TypeOK, DaemonOK, Invocation, clientVars

LEMMA RestartStep == ASSUME IInv, Restart PROVE IInv'
BY NobodyMoves DEF IInv, TypeOK, DaemonOK, Restart

LEMMA TickStep == ASSUME IInv, Tick PROVE IInv'
<1>1. DaemonOK'
  BY DEF IInv, TypeOK, DaemonOK, Tick
<1> QED
  BY <1>1, NobodyMoves DEF Tick

LEMMA StutterStep == ASSUME IInv, UNCHANGED vars PROVE IInv'
BY NobodyMoves DEF IInv, TypeOK, DaemonOK, vars, clientVars, daemonVars

LEMMA NextInv == IInv /\ [Next]_vars => IInv'
<1> SUFFICES ASSUME IInv, [Next]_vars PROVE IInv'
  OBVIOUS
<1>1. CASE UNCHANGED vars
  BY <1>1, StutterStep
<1>2. ASSUME NEW c \in Client,
             \/ Invoke(c) \/ Approve(c) \/ Drive(c) \/ RunHere(c) \/ StopHere(c)
      PROVE  IInv'
  BY <1>2, InvokeStep, ApproveStep, ReceiveFirstPlanStep, ReceivePlanStep,
       ReceiveStepStep, ReceiveRefusalStep, RerouteStep, NoAnswerStep, RunHereStep,
       StopHereStep DEF Drive
<1>3. ASSUME NEW c \in Client, Accept(c) \/ AnswerPlan(c) \/ RunStep(c) \/ RefuseStep(c)
      PROVE  IInv'
  BY <1>3, AcceptStep, AnswerPlanStep, RunStepStep, RefuseStepStep
<1>4. CASE Crash \/ Restart \/ Tick
  BY <1>4, CrashStep, RestartStep, TickStep
<1> QED
  BY <1>1, <1>2, <1>3, <1>4 DEF Next

LEMMA Inductive == Spec => []IInv
BY InitInv, NextInv, PTL DEF Spec

-----------------------------------------------------------------------------
(* The theorems.                                                           *)

\* tryRunViaDaemon and its callers keep their types with any number of invocations and
\* steps: an invocation only asks for steps of the plan.
THEOREM TypeCorrect == Spec => []TypeOK
<1>1. IInv => TypeOK
  BY DEF IInv
<1> QED
  BY <1>1, Inductive, PTL

\* Under every fault, the write of a plan is made twice only if the client gave up on
\* the request for it, and then once by the daemon and once by itself.
THEOREM WritesHappenOnce == Spec => []WrittenOnce
<1>1. IInv => WrittenOnce
  <2> SUFFICES ASSUME IInv, NEW c \in Client
               PROVE  /\ \A s \in 1..Steps : remote[c][s] <= 1 /\ here[c][s] <= 1
                      /\ Effects(c, Steps) > 1 => unanswered[c] = Steps
    BY DEF WrittenOnce
  <2>1. Prefix(remote[c]) /\ Prefix(here[c])
    BY DEF IInv, Invocation, Fits, Remotely, Locally
  <2>2. \A s \in 1..Steps : remote[c][s] \in 0..1 /\ here[c][s] \in 0..1
    BY <2>1 DEF Prefix
  <2>3. Effects(c, Steps) > 1 => here[c][Steps] = 1 /\ remote[c][Steps] = 1
    BY <2>2 DEF Effects
  <2> QED
    BY <2>2, <2>3 DEF IInv, Invocation, Fits, Once
<1> QED
  BY <1>1, Inductive, PTL

\* Wherever the steps of a plan are made, none is made before the one it follows: what
\* a refusal, a failure, the rate limit or a dead daemon leaves is a prefix.
THEOREM StepsComeInOrder == Spec => []StepsInOrder
<1>1. IInv => StepsInOrder
  <2> SUFFICES ASSUME IInv, NEW c \in Client, NEW s \in 1..(Steps - 1), Effects(c, s + 1) > 0
               PROVE  Effects(c, s) > 0
    BY DEF StepsInOrder
  <2>1. Prefix(remote[c]) /\ Prefix(here[c])
    BY DEF IInv, Invocation, Fits, Remotely, Locally
  <2>2. /\ s \in 1..Steps /\ s + 1 \in 1..Steps
        /\ remote[c][s] \in 0..1 /\ here[c][s] \in 0..1
        /\ remote[c][s + 1] \in 0..1 /\ here[c][s + 1] \in 0..1
    BY <2>1 DEF Prefix
  <2>3. remote[c][s + 1] = 1 => remote[c][s] = 1
    BY <2>1, <2>2 DEF Prefix
  <2>4. here[c][s + 1] = 1 => here[c][s] = 1
    BY <2>1, <2>2 DEF Prefix
  <2> QED
    BY <2>2, <2>3, <2>4 DEF Effects
<1> QED
  BY <1>1, Inductive, PTL

\* An invocation that reports success, after an answer that contained a plan, has had
\* all of its steps made.
THEOREM SuccessesAreComplete == Spec => []SuccessIsComplete
<1>1. IInv => SuccessIsComplete
  <2> SUFFICES ASSUME IInv, NEW c \in Client, pc[c] = "ok", planned[c] = Steps,
                      NEW s \in 1..Steps
               PROVE  Effects(c, s) > 0
    BY DEF SuccessIsComplete
  <2>1. remote[c][s] \in Nat /\ here[c][s] \in Nat
    BY Types DEF IInv, Progress
  <2>2. here[c][s] = 1 \/ remote[c][s] = 1
    BY DEF IInv, Invocation, Fits, Complete
  <2> QED
    BY <2>1, <2>2 DEF Effects
<1> QED
  BY <1>1, Inductive, PTL

-----------------------------------------------------------------------------
(* The rate limit, for every limit and every window length.                 *)

\* How many requests the current window has let through, and how many were let through
\* before it opened.
InWindow == IF window.count < RateMax THEN window.count ELSE RateMax
Earlier  == Len(accepted) - InWindow

\* No request up to the first of this window came after it opened; and the one RateMax
\* before, which is in an earlier window or opened it, more than a window before.
Paced(i) ==
  /\ accepted[i] <= clock
  /\ i <= Earlier + 1 => accepted[i] <= window.start
  /\ i + RateMax <= Earlier + 1 => accepted[i] + WindowMs < window.start

RateInv ==
  /\ window.start <= clock
  /\ InWindow <= Len(accepted)
  /\ window.count = 0 => accepted = <<>>
  /\ \A i \in 1..Len(accepted) : Paced(i)
  /\ RateBounded

LEMMA RateTypes ==
  ASSUME TypeOK
  PROVE  /\ window \in [start : Nat, count : Nat]
         /\ window.start \in Nat /\ window.count \in Nat
         /\ clock \in Nat
         /\ accepted \in Seq(0..MaxTime)
         /\ Len(accepted) \in Nat
         /\ DOMAIN accepted = 1..Len(accepted)
         /\ \A i \in 1..Len(accepted) : accepted[i] \in Nat
         /\ InWindow \in 0..RateMax
BY DEF TypeOK, InWindow

(* A request let through keeps the bound if all that came 2 * RateMax - 1 before it did *)
(* so more than a window ago.                                                           *)
LEMMA OneMoreBounded ==
  ASSUME TypeOK, RateBounded, accepted' = Append(accepted, clock),
         \A i \in 1..Len(accepted) :
           i + 2 * RateMax - 1 = Len(accepted) + 1 => accepted[i] + WindowMs < clock
  PROVE  RateBounded'
<1> DEFINE n == Len(accepted)
<1>0. clock \in 0..MaxTime
  BY DEF TypeOK
<1>1. /\ DOMAIN accepted' = 1..(n + 1)
      /\ accepted'[n + 1] = clock
      /\ \A i \in 1..n : accepted'[i] = accepted[i]
  BY <1>0, RateTypes, AppendTime
<1>2. n \in Nat /\ DOMAIN accepted = 1..n
  BY RateTypes
<1> HIDE DEF n
<1>3. ASSUME NEW i \in 1..(n + 1), NEW j \in 1..(n + 1), j = i + 2 * RateMax - 1
      PROVE  accepted'[i] + WindowMs < accepted'[j]
  <2>1. i < j
    BY <1>2, <1>3
  <2>2. i \in 1..n
    BY <1>2, <2>1
  <2>3. CASE j = n + 1
    BY <1>1, <1>2, <1>3, <2>2, <2>3 DEF n
  <2>4. CASE j # n + 1
    <3>1. j \in 1..n
      BY <1>2, <2>4
    <3>2. QED
      BY <1>1, <1>2, <1>3, <2>2, <3>1 DEF RateBounded
  <2>5. QED
    BY <2>3, <2>4
<1>4. QED
  BY <1>1, <1>3 DEF RateBounded

LEMMA RateInit == Init => RateInv
BY DEF Init, RateInv, RateBounded, InWindow, NoWindow

(* checkRateLimit: the first request of a window, ... *)
LEMMA WindowOpens ==
  ASSUME TypeOK, RateInv, window.count = 0 \/ clock - window.start > WindowMs,
         window' = [start |-> clock, count |-> 1], accepted' = Append(accepted, clock),
         clock' = clock
  PROVE  RateInv'
<1> DEFINE n == Len(accepted)
<1>0. clock \in 0..MaxTime
  BY DEF TypeOK
<1>1. /\ Len(accepted') = n + 1
      /\ accepted'[n + 1] = clock
      /\ \A i \in 1..n : accepted'[i] = accepted[i]
  BY <1>0, RateTypes, AppendTime
<1>2. n \in Nat /\ InWindow \in 0..RateMax /\ Earlier = n - InWindow
  BY RateTypes DEF Earlier
<1>3. InWindow' = 1 /\ Earlier' = n /\ window'.start = clock /\ window'.count = 1
  BY <1>1, <1>2 DEF InWindow, Earlier
<1>4. \A i \in 1..n : i + RateMax <= n + 1 => accepted[i] + WindowMs < clock
  <2> TAKE i \in 1..n
  <2>1. n # 0 /\ accepted # <<>>
    BY <1>2
  <2>2. clock - window.start > WindowMs
    BY <2>1 DEF RateInv
  <2>3. i + RateMax <= n + 1 => accepted[i] <= window.start
    BY <1>2 DEF RateInv, Paced
  <2>4. QED
    BY <2>2, <2>3, RateTypes
<1>5. RateBounded'
  <2>1. \A i \in 1..n : i + 2 * RateMax - 1 = n + 1 => accepted[i] + WindowMs < clock
    BY <1>2, <1>4
  <2>2. QED
    BY <2>1, OneMoreBounded DEF RateInv
<1>6. \A i \in 1..(n + 1) : Paced(i)'
  <2> TAKE i \in 1..(n + 1)
  <2>1. accepted'[i] <= clock
    BY <1>1, <1>2, RateTypes DEF RateInv, Paced
  <2>2. i + RateMax <= n + 1 => i \in 1..n
    BY <1>2
  <2>3. i + RateMax <= n + 1 => accepted'[i] + WindowMs < clock
    BY <1>1, <1>4, <2>2
  <2>4. QED
    BY <1>3, <2>1, <2>3 DEF Paced
<1>7. window'.start <= clock' /\ InWindow' <= Len(accepted') /\ window'.count # 0
  BY <1>1, <1>2, <1>3, RateTypes
<1> HIDE DEF n
<1>8. QED
  BY <1>1, <1>5, <1>6, <1>7 DEF RateInv, n

(* ... one more of it that is let through, ... *)
LEMMA WindowFills ==
  ASSUME TypeOK, RateInv, window.count # 0, window.count < RateMax,
         window' = [window EXCEPT !.count = @ + 1], accepted' = Append(accepted, clock),
         clock' = clock
  PROVE  RateInv'
<1> DEFINE n == Len(accepted)
<1>0. clock \in 0..MaxTime
  BY DEF TypeOK
<1>1. /\ Len(accepted') = n + 1
      /\ accepted'[n + 1] = clock
      /\ \A i \in 1..n : accepted'[i] = accepted[i]
  BY <1>0, RateTypes, AppendTime
<1>2. /\ n \in Nat /\ InWindow = window.count /\ InWindow \in 1..(RateMax - 1)
      /\ Earlier = n - InWindow
  BY RateTypes DEF Earlier, InWindow
<1>3. window'.start = window.start /\ window'.count = window.count + 1
  BY RateTypes
<1>4. InWindow' = InWindow + 1 /\ Earlier' = Earlier
  <2>1. InWindow' = window.count + 1
    BY <1>2, <1>3, RateTypes DEF InWindow
  <2>2. QED
    BY <1>1, <1>2, <2>1, SMTT(30) DEF Earlier
<1>5. RateBounded'
  <2>1. \A i \in 1..n : i + 2 * RateMax - 1 = n + 1 => accepted[i] + WindowMs < clock
    <3> TAKE i \in 1..n
    <3>1. i + 2 * RateMax - 1 = n + 1 => i + RateMax <= Earlier + 1
      BY <1>2
    <3>2. i + RateMax <= Earlier + 1 => accepted[i] + WindowMs < window.start
      BY DEF RateInv, Paced
    <3>3. window.start <= clock /\ window.start \in Nat /\ clock \in Nat /\ accepted[i] \in Nat
      BY RateTypes DEF RateInv
    <3>4. QED
      BY <3>1, <3>2, <3>3
  <2>2. QED
    BY <2>1, OneMoreBounded DEF RateInv
<1>6. \A i \in 1..(n + 1) : Paced(i)'
  <2> TAKE i \in 1..(n + 1)
  <2>1. CASE i \in 1..n
    BY <1>1, <1>3, <1>4, <2>1 DEF RateInv, Paced
  <2>2. CASE i = n + 1
    <3>1. ~(i <= Earlier + 1) /\ ~(i + RateMax <= Earlier + 1)
      BY <1>2, <2>2
    <3>2. QED
      BY <1>1, <1>4, <2>2, <3>1, RateTypes DEF Paced
  <2>3. QED
    BY <1>2, <2>1, <2>2
<1>7. window'.start <= clock' /\ InWindow' <= Len(accepted') /\ window'.count # 0
  BY <1>1, <1>2, <1>3, <1>4, RateTypes DEF RateInv
<1> HIDE DEF n
<1>8. QED
  BY <1>1, <1>5, <1>6, <1>7 DEF RateInv, n

(* ... and one that is refused, which counts. *)
LEMMA WindowIsFull ==
  ASSUME TypeOK, RateInv, ~(window.count < RateMax),
         window' = [window EXCEPT !.count = @ + 1], UNCHANGED <<accepted, clock>>
  PROVE  RateInv'
<1>1. window'.start = window.start /\ window'.count = window.count + 1
  BY RateTypes
<1>2. InWindow' = InWindow /\ Earlier' = Earlier /\ window.count # 0
  BY <1>1, RateTypes DEF InWindow, Earlier
<1>3. QED
  BY <1>1, <1>2, RateTypes DEF RateInv, RateBounded, Paced

LEMMA AcceptPaces == ASSUME TypeOK, RateInv, NEW c \in Client, Accept(c) PROVE RateInv'
<1> DEFINE fresh == window.count = 0 \/ clock - window.start > WindowMs
           pass == fresh \/ window.count < RateMax
<1>1. /\ window' = IF fresh THEN [start |-> clock, count |-> 1]
                   ELSE [window EXCEPT !.count = @ + 1]
      /\ accepted' = IF pass THEN Append(accepted, clock) ELSE accepted
      /\ clock' = clock
  BY DEF Accept
<1>2. CASE fresh
  BY <1>1, <1>2, WindowOpens
<1>3. CASE ~fresh /\ window.count < RateMax
  BY <1>1, <1>3, WindowFills
<1>4. CASE ~fresh /\ ~(window.count < RateMax)
  BY <1>1, <1>4, WindowIsFull
<1>5. QED
  BY <1>2, <1>3, <1>4

LEMMA RateNext == TypeOK /\ RateInv /\ [Next]_vars => RateInv'
<1> SUFFICES ASSUME TypeOK, RateInv, [Next]_vars PROVE RateInv'
  OBVIOUS
<1>1. \/ \E c \in Client : Accept(c)
      \/ Crash
      \/ UNCHANGED <<window, accepted>> /\ (clock' = clock \/ clock' = clock + 1)
  BY DEF Next, vars, daemonVars, clientVars, Drive, Invoke, Approve, ReceiveFirstPlan,
     ReceivePlan, ReceiveStep, ReceiveRefusal, Reroute, NoAnswer, RunHere, StopHere,
     AnswerPlan, RunStep, RefuseStep, Restart, Tick
<1>2. CASE Crash
  BY <1>2, RateTypes DEF Crash, RateInv, RateBounded, InWindow, NoWindow
<1>3. CASE UNCHANGED <<window, accepted>> /\ (clock' = clock \/ clock' = clock + 1)
  BY <1>3, RateTypes DEF RateInv, RateBounded, InWindow, Earlier, Paced
<1>4. QED
  BY <1>1, <1>2, <1>3, AcceptPaces

\* checkRateLimit lets fewer than twice the limit through in any stretch as long as a
\* window, whatever the limit and the window and wherever the boundaries fall.
THEOREM RateIsBounded == Spec => []RateBounded
<1>1. RateInv => RateBounded
  BY DEF RateInv
<1>2. QED
  BY <1>1, TypeCorrect, RateInit, RateNext, PTL DEF Spec
==============================================================================
