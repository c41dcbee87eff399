--------------------------- MODULE MCGovernedRun ---------------------------
(* Small instances of GovernedRun for TLC. *)
EXTENDS GovernedRun

CONSTANTS p1, p2

Alone == {p1}
Two   == {p1, p2}

None == NoApproval
Both(a, b) == [i \in 1..2 |-> IF i = 1 THEN a ELSE b]
Legacy(cap, target, a) ==
  [cap |-> cap, target |-> target, legacy |-> TRUE, given |-> Both(a, None),
   sound |-> TRUE, clean |-> TRUE]
PerStep(cap, target, a, b) ==
  [Legacy(cap, target, a) EXCEPT !.legacy = FALSE, !.given = Both(a, b)]

(* Every way the approval of the two-step document write can be incomplete. *)
DocumentRequests ==
  {Legacy("searchDocApply", t, Mark) : t \in 0..2}
    \cup {PerStep("searchDocApply", t, a, b) :
            t \in 0..2, a \in {None, {}, Mark}, b \in {None, Mark \ {"ack"}, Mark}}
    \cup {[Legacy("searchDocApply", 2, Mark) EXCEPT !.clean = FALSE]}
PolicyRequests ==
  {Legacy("proposeFixes", 0, Mark \ m) : m \in {{}, {"apply"}, {"confirm"}, {"identity"}, {"ack"}}}
    \cup {[Legacy("proposeFixes", 0, Mark) EXCEPT !.sound = FALSE]}
RecoveryRequests ==
  {Legacy(c, 0, Mark) : c \in {"memoryCheck", "governanceSelfTest", "governanceUnlock"}}

Requests == DocumentRequests \cup PolicyRequests \cup RecoveryRequests
              \cup {Legacy("rollbackKnownGood", 0, Mark)}

(* What two processes do to each other needs one request of each kind. *)
FewRequests ==
  {Legacy(c, 0, Mark) : c \in {"memoryCheck", "proposeFixes", "rollbackKnownGood"}}
    \cup {Legacy("searchDocApply", 2, Mark)}

OperatorRequests == {Legacy(c, 0, Mark) : c \in Capability \ {"searchDocPreview", "searchDocApply"}}
=============================================================================
