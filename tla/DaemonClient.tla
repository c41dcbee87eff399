---------------------------- MODULE DaemonClient ----------------------------
(***************************************************************************)
(* Driving a plan through the daemon: tryRunViaDaemon (core/daemonClient), *)
(* its two callers (the CLI and the VS Code extension), and the daemon's   *)
(* /plan and /step routes with their rate limit (core/server.ts).          *)
(*                                                                         *)
(* A client is one invocation.  It asks for a plan, is told that approval  *)
(* is needed, asks again with the approval, then requests the steps one by *)
(* one.  A null from the daemon -- no connection, or no answer in time --  *)
(* makes it run the whole plan in its own process; the daemon knows        *)
(* nothing of that and finishes what it was asked.  Steps but the last     *)
(* only read, as in the plans of the planner.                              *)
(***************************************************************************)
EXTENDS Naturals, FiniteSets, Sequences

CONSTANTS
  Client,          \* the invocations
  Steps,           \* steps of the plan
  RateMax,         \* maxRequests
  WindowMs,        \* windowMs
  Faults,          \* which environment faults occur, see FaultKinds
  MaxTime          \* bound: the millisecond clock

FaultKinds ==
  {"slow",     \* an answer takes longer than the client's timeout
   "crash",    \* the daemon dies
   "refuse",   \* runLifecycle refuses a step
   "throw",    \* a capability fails, having had its effect or not
   "plan"}     \* a /plan request fails (413, 422 or 500)

ASSUME ClientAssumption ==
  /\ Steps \in Nat \ {0}
  /\ RateMax \in Nat \ {0}
  /\ WindowMs \in Nat
  /\ Faults \subseteq FaultKinds
  /\ MaxTime \in Nat

VARIABLES
  pc,          \* where each client is
  planned,     \* how many steps it believes the plan has
  request,     \* its last request, as the daemon sees it
  unanswered,  \* history: the step it had no answer about (0: a plan, or none)
  remote,      \* history: how often each step took effect in the daemon
  here,        \* history: how often each step took effect in the client's process
  serving,     \* the daemon is up
  readOnly,    \* ... and runs with writing disabled
  window,      \* rateState of the one address all clients share
  clock,       \* Date.now()
  accepted     \* history: when the limit let a request through, since the start

vars == <<pc, planned, request, unanswered, remote, here,
          serving, readOnly, window, clock, accepted>>
daemonVars == <<serving, readOnly, window, clock, accepted>>
clientVars == <<pc, planned, unanswered, here>>

Awaiting == {"planning", "replanning", "stepping"}
Stages   == Awaiting \cup {"idle", "asked", "local", "ok", "failed"}
Phases   == {"none", "sent", "running", "lost", "cut"}
Replies  == {"plan", "ok", "error", "write_disabled"}
NoWindow == [start |-> 0, count |-> 0]
Nothing  == [step |-> 0, phase |-> "none"]

Init ==
  /\ pc = [c \in Client |-> "idle"]
  /\ planned = [c \in Client |-> Steps]
  /\ request = [c \in Client |-> Nothing]
  /\ unanswered = [c \in Client |-> 0]
  /\ remote = [c \in Client |-> [s \in 1..Steps |-> 0]]
  /\ here = [c \in Client |-> [s \in 1..Steps |-> 0]]
  /\ serving \in BOOLEAN
  /\ readOnly \in BOOLEAN
  /\ window = NoWindow
  /\ clock = 0
  /\ accepted = <<>>

-----------------------------------------------------------------------------
(* The client.                                                             *)

Go(c, from, to) == pc[c] = from /\ pc' = [pc EXCEPT ![c] = to]

\* Step 0 stands for /plan, step s for /step with the id of the s-th step.
Send(c, s) == request' = [request EXCEPT ![c] = [step |-> s, phase |-> "sent"]]

Done(c) == request' = [request EXCEPT ![c] = Nothing]

Answered(c, r) == request[c].phase = r

\* The first call, without an approval; --local skips the daemon.
Invoke(c) ==
  /\ \/ Go(c, "idle", "planning") /\ Send(c, 0)
     \/ Go(c, "idle", "local") /\ UNCHANGED request
  /\ UNCHANGED <<planned, unanswered, remote, here, daemonVars>>

\* Without an approval every answer to /plan, an error included, is reported as
\* step_approval_required.
ReceiveFirstPlan(c) ==
  /\ \E r \in Replies : Answered(c, r)
  /\ Go(c, "planning", "asked")
  /\ Done(c)
  /\ UNCHANGED <<planned, unanswered, remote, here, daemonVars>>

\* The user gives a reason (and identity), or leaves it blank; the extension only
\* knows approval_required and always stops here.
Approve(c) ==
  /\ \/ Go(c, "asked", "replanning") /\ Send(c, 0)
     \/ Go(c, "asked", "failed") /\ UNCHANGED request
  /\ UNCHANGED <<planned, unanswered, remote, here, daemonVars>>

\* An answer without a plan is not looked at: it is driven as a plan of one step.
ReceivePlan(c) ==
  /\ \E r \in Replies : Answered(c, r)
  /\ Go(c, "replanning", "stepping")
  /\ planned' = [planned EXCEPT ![c] = IF Answered(c, "plan") THEN Steps ELSE 1]
  /\ Send(c, 1)
  /\ UNCHANGED <<unanswered, remote, here, daemonVars>>

\* Asking for a step beyond the last.
Bug_OneStepMore(c) ==
  /\ Answered(c, "ok")
  /\ LET s == request[c].step IN
       \/ s <= planned[c] /\ Go(c, "stepping", "stepping") /\ Send(c, s + 1)
       \/ s > planned[c] /\ Go(c, "stepping", "ok") /\ Done(c)
  /\ UNCHANGED <<planned, unanswered, remote, here, daemonVars>>

\* Stopping after the step the plan begins with, as the client once did.
Bug_FirstStepOnly(c) ==
  /\ Answered(c, "ok")
  /\ Go(c, "stepping", "ok")
  /\ Done(c)
  /\ UNCHANGED <<planned, unanswered, remote, here, daemonVars>>

\* A step that succeeded is followed by the next one, if there is one.
ReceiveStep(c) ==
  /\ Answered(c, "ok")
  /\ LET s == request[c].step IN
       \/ s < planned[c] /\ Go(c, "stepping", "stepping") /\ Send(c, s + 1)
       \/ s >= planned[c] /\ Go(c, "stepping", "ok") /\ Done(c)
  /\ UNCHANGED <<planned, unanswered, remote, here, daemonVars>>

\* Carrying on with the next step although this one was refused.
Bug_SkipRefused(c) ==
  /\ Answered(c, "error")
  /\ LET s == request[c].step IN
       \/ s < planned[c] /\ Go(c, "stepping", "stepping") /\ Send(c, s + 1)
       \/ s >= planned[c] /\ Go(c, "stepping", "failed") /\ Done(c)
  /\ UNCHANGED <<planned, unanswered, remote, here, daemonVars>>

\* Taking an error answer for "no daemon".
Bug_ErrorIsNull(c) ==
  /\ Answered(c, "error")
  /\ Go(c, "stepping", "local")
  /\ Done(c)
  /\ UNCHANGED <<planned, unanswered, remote, here, daemonVars>>

ReceiveRefusal(c) ==
  /\ Answered(c, "error")
  /\ Go(c, "stepping", "failed")
  /\ Done(c)
  /\ UNCHANGED <<planned, unanswered, remote, here, daemonVars>>

\* The CLI reroutes a write the daemon may not make.
Reroute(c) ==
  /\ Answered(c, "write_disabled")
  /\ Go(c, "stepping", "local")
  /\ Done(c)
  /\ UNCHANGED <<planned, unanswered, remote, here, daemonVars>>

\* No timer on the request.
Bug_NoTimeout(c) ==
  /\ pc[c] \in Awaiting
  /\ \/ request[c].phase = "lost"
     \/ request[c].phase = "sent" /\ ~serving
  /\ pc' = [pc EXCEPT ![c] = "local"]
  /\ unanswered' = [unanswered EXCEPT ![c] = request[c].step]
  /\ request' = [request EXCEPT ![c].phase = IF @ \in {"sent", "running"} THEN @ ELSE "none"]
  /\ UNCHANGED <<planned, remote, here, daemonVars>>

\* tryRunViaDaemon returns null: the connection is refused or reset, or the
\* socket has been idle for timeoutMs.  An answer cut off inside its body ends
\* neither way: nothing listens to the end of the response it will not have, and
\* a closed socket has no timer.
NoAnswer(c) ==
  /\ pc[c] \in Awaiting
  /\ \/ request[c].phase = "lost"
     \/ request[c].phase = "sent" /\ ~serving
     \/ "slow" \in Faults /\ request[c].phase # "cut"
  /\ pc' = [pc EXCEPT ![c] = "local"]
  /\ unanswered' = [unanswered EXCEPT ![c] = request[c].step]
  /\ request' = [request EXCEPT ![c].phase = IF @ \in {"sent", "running"} THEN @ ELSE "none"]
  /\ UNCHANGED <<planned, remote, here, daemonVars>>

StepHere(c) == Cardinality({s \in 1..Steps : here[c][s] > 0}) + 1

\* createCore and runLifecycle in the client's own process, with an approval for
\* every step of the plan: the next step ...
RunHere(c) ==
  /\ here' = [here EXCEPT ![c][StepHere(c)] = @ + 1]
  /\ Go(c, "local", IF StepHere(c) < Steps THEN "local" ELSE "ok")
  /\ UNCHANGED <<planned, request, unanswered, remote, daemonVars>>

\* ... unless the user does not approve again, or it is refused or fails.
StopHere(c) ==
  /\ Go(c, "local", "failed")
  /\ \/ UNCHANGED here
     \/ "throw" \in Faults /\ here' = [here EXCEPT ![c][StepHere(c)] = @ + 1]
  /\ UNCHANGED <<planned, request, unanswered, remote, daemonVars>>

-----------------------------------------------------------------------------
(* The daemon.  What it does for a client does not depend on whether the    *)
(* client still waits.                                                      *)

\* An answer nobody waits for is dropped.
Phase(c, to) ==
  request' = [request EXCEPT ![c].phase =
                IF pc[c] \in Awaiting \/ to = "running" THEN to ELSE "none"]

\* Opening a window in the last millisecond of the one before.
Bug_WindowEndsEarly(c) ==
  /\ serving
  /\ request[c].phase = "sent"
  /\ LET fresh == window.count = 0 \/ clock - window.start >= WindowMs
         pass  == fresh \/ window.count < RateMax
     IN  /\ window' = IF fresh THEN [start |-> clock, count |-> 1]
                      ELSE [window EXCEPT !.count = @ + 1]
         /\ Phase(c, IF pass THEN "running" ELSE "error")
         /\ accepted' = IF pass THEN Append(accepted, clock) ELSE accepted
  /\ UNCHANGED <<clientVars, remote, serving, readOnly, clock>>

\* checkRateLimit: a window opens with the first request after the last one has
\* expired; the limit is reached when its count exceeds RateMax.
Accept(c) ==
  /\ serving
  /\ request[c].phase = "sent"
  /\ LET fresh == window.count = 0 \/ clock - window.start > WindowMs
         pass  == fresh \/ window.count < RateMax
     IN  /\ window' = IF fresh THEN [start |-> clock, count |-> 1]
                      ELSE [window EXCEPT !.count = @ + 1]
         /\ Phase(c, IF pass THEN "running" ELSE "error")
         /\ accepted' = IF pass THEN Append(accepted, clock) ELSE accepted
  /\ UNCHANGED <<clientVars, remote, serving, readOnly, clock>>

Handling(c, s) == request[c] = [step |-> s, phase |-> "running"]

AnswerPlan(c) ==
  /\ Handling(c, 0)
  /\ Phase(c, "plan") \/ ("plan" \in Faults /\ Phase(c, "error"))
  /\ UNCHANGED <<clientVars, remote, daemonVars>>

\* Which steps the daemon may not make.
Disabled(s) == readOnly /\ s = Steps

RunStep(c) ==
  \E s \in 1..Steps :
    /\ Handling(c, s) /\ ~Disabled(s)
    /\ remote' = [remote EXCEPT ![c][s] = @ + 1]
    /\ \/ Phase(c, "ok")
       \/ "throw" \in Faults /\ Phase(c, "error")
    /\ UNCHANGED <<clientVars, daemonVars>>

RefuseStep(c) ==
  \E s \in 1..Steps :
    /\ Handling(c, s)
    /\ \/ Disabled(s) /\ Phase(c, "write_disabled")
       \/ "refuse" \in Faults /\ Phase(c, "error")
       \/ "throw" \in Faults /\ ~Disabled(s) /\ Phase(c, "error")
    /\ UNCHANGED <<clientVars, remote, daemonVars>>

\* The clients that have the head of their answer, and perhaps not yet its end.
HalfAnswered == {c \in Client : pc[c] \in Awaiting /\ request[c].phase \in Replies}

\* The counters live in memory, and so do the requests; an answer on its way is
\* lost, or cut off behind its head, or was received before.
Crash ==
  /\ "crash" \in Faults
  /\ serving
  /\ serving' = FALSE
  /\ window' = NoWindow
  /\ accepted' = <<>>
  /\ \E cut \in SUBSET HalfAnswered :
       request' = [c \in Client |->
                     IF pc[c] \notin Awaiting THEN Nothing
                     ELSE [request[c] EXCEPT !.phase =
                             IF c \in cut \/ @ = "cut" THEN "cut" ELSE "lost"]]
  /\ UNCHANGED <<clientVars, remote, readOnly, clock>>

\* Somebody starts it again, perhaps with another writeEnabled.
Restart ==
  /\ ~serving
  /\ serving' = TRUE
  /\ readOnly' \in BOOLEAN
  /\ UNCHANGED <<clientVars, request, remote, window, clock, accepted>>

Tick ==
  /\ clock < MaxTime
  /\ clock' = clock + 1
  /\ UNCHANGED <<clientVars, request, remote, serving, readOnly, window, accepted>>

-----------------------------------------------------------------------------

Drive(c) ==
  \/ ReceiveFirstPlan(c) \/ ReceivePlan(c)
  \/ ReceiveStep(c) \/ ReceiveRefusal(c) \/ Reroute(c)
  \/ NoAnswer(c)

Next ==
  \/ \E c \in Client :
       \/ Invoke(c) \/ Approve(c) \/ Drive(c) \/ RunHere(c) \/ StopHere(c)
       \/ Accept(c) \/ AnswerPlan(c) \/ RunStep(c) \/ RefuseStep(c)
  \/ Crash \/ Restart \/ Tick

Spec == Init /\ [][Next]_vars

(* An answer that has arrived is handled, and the timer of a request fires.   *)
(* Nothing is assumed of the daemon.                                          *)
Fairness == \A c \in Client : WF_vars(Drive(c))

FairSpec == Spec /\ Fairness

-----------------------------------------------------------------------------
(* Properties.                                                             *)

\* Every variable has the shape its comment gives it; a client only asks for
\* steps of the plan.
TypeOK ==
  /\ pc \in [Client -> Stages]
  /\ planned \in [Client -> 1..Steps]
  /\ request \in [Client -> [step : 0..Steps, phase : Phases \cup Replies]]
  /\ unanswered \in [Client -> 0..Steps]
  /\ remote \in [Client -> [1..Steps -> Nat]]
  /\ here \in [Client -> [1..Steps -> Nat]]
  /\ serving \in BOOLEAN
  /\ readOnly \in BOOLEAN
  /\ window \in [start : Nat, count : Nat]
  /\ clock \in 0..MaxTime
  /\ accepted \in Seq(0..MaxTime)

Effects(c, s) == remote[c][s] + here[c][s]

\* The write of a plan happens at most once per invocation, unless the client
\* gave up on the very request that asked the daemon for it; and even then the
\* daemon makes it once and the client's own process once.
WrittenOnce ==
  \A c \in Client :
    /\ \A s \in 1..Steps : remote[c][s] <= 1 /\ here[c][s] <= 1
    /\ Effects(c, Steps) > 1 => unanswered[c] = Steps

\* No step takes effect before the one it follows has: a plan left half done by a
\* refusal, a failure, the rate limit or a dead daemon stops at a prefix.
StepsInOrder ==
  \A c \in Client : \A s \in 1..(Steps - 1) :
    Effects(c, s + 1) > 0 => Effects(c, s) > 0

\* An invocation that reports success has carried out every step of the plan,
\* wherever it ran them -- provided the daemon's answer did contain a plan.
SuccessIsComplete ==
  \A c \in Client :
    pc[c] = "ok" /\ planned[c] = Steps => \A s \in 1..Steps : Effects(c, s) > 0

\* However requests fall on window boundaries, no stretch of time as long as a
\* window sees twice the limit accepted: of any 2 * RateMax requests accepted in a
\* row, the last comes more than a window after the first.
RateBounded ==
  \A i, j \in DOMAIN accepted :
    j = i + 2 * RateMax - 1 => accepted[i] + WindowMs < accepted[j]

\* A client only waits for ever if the daemon died inside an answer it had begun:
\* a daemon that is gone, slow, restarted, or that never answers makes it go on.
OnlyACutAnswerHangs ==
  \A c \in Client : pc[c] \in Awaiting ~> pc[c] \notin Awaiting \/ request[c].phase = "cut"
=============================================================================
