-------------------------- MODULE DaemonLockProofs --------------------------
(***************************************************************************)
(* Proofs about DaemonLock, for any number of daemons and every fault.     *)
(*                                                                         *)
(* Two inductive invariants on top of TypeOK.  Met: a start that could     *)
(* meet somebody is recorded to have met them, and never reads its own     *)
(* pid.  Orderly: while no two starts have overlapped, the path belongs to *)
(* the one daemon that holds the lock or is about to, and a start beside a *)
(* holder has got no further than reading the holder's pid, unless it runs *)
(* as a user who can neither signal the holder nor unlink its file.        *)
(***************************************************************************)
EXTENDS DaemonLock, TLAPS

Fresh(d) == seen[d] # d /\ \A f \in written : f.by # d

Met ==
  /\ \A d \in Daemon : pc[d] \in Acquiring \cup {"idle"} => Fresh(d)
  /\ \A d \in alien : pc[d] \in Ended
  /\ \A d, e \in Daemon :
       d # e /\ pc[d] \in Acquiring /\ (pc[e] \in Living \/ e \in alien) => d \in company
  /\ \A d \in Daemon : pc[d] = "reopen" /\ path # Nobody =>
                         d \in company \/ ~Over(d, path.by)

Own(d, n) == path = [by |-> d, try |-> n]

Alone ==
  \A d, e \in Daemon : pc[d] \in Acquiring /\ pc[e] \in Acquiring => d = e
Belongs ==
  \A d \in Daemon :
    /\ pc[d] \in Holding => path \in written /\ path.by = d
    /\ pc[d] = "write" => Own(d, 1)
    /\ pc[d] = "rewrite" => Own(d, 2)
Beside ==
  \A d, e \in Daemon :
    pc[d] \in Holding /\ pc[e] \in Acquiring =>
      \/ pc[e] \in {"open", "read"}
      \/ pc[e] = "judge" /\ seen[e] = d
      \/ pc[e] \in {"unlink", "reopen"} /\ ~Over(e, d)

Orderly == ~overlap => Alone /\ Belongs /\ Beside

IInv == TypeOK /\ Met /\ Orderly

USE DaemonAssumption DEF Acquiring, Holding, Living, Ended, Stages

LEMMA FileOf ==
  ASSUME NEW d \in Daemon, NEW n \in 1..2
  PROVE  [by |-> d, try |-> n] \in File /\ [by |-> d, try |-> n].by = d
BY DEF File

LEMMA ByDaemon == \A f \in File : f.by \in Daemon
BY DEF File

LEMMA OneTwo == 1 \in 1..2 /\ 2 \in 1..2
OBVIOUS

(* A daemon's step by step relation, with the history it keeps. *)
Step(d) ==
  \/ Start(d) \/ Open(d) \/ WritePid(d) \/ ReadPid(d) \/ Judge(d) \/ Unlink(d)
  \/ Reopen(d) \/ RewritePid(d) \/ FailSetup(d) \/ Listen(d) \/ Close(d)
  \/ Release(d) \/ Kill(d) \/ ReusePid(d)

LEMMA InitInv == Init => IInv
BY DEF Init, IInv, TypeOK, Met, Fresh, Orderly, Alone, Belongs, Beside

LEMMA TypeStep == TypeOK /\ [Next]_vars => TypeOK'
<1> SUFFICES ASSUME TypeOK, [Next]_vars PROVE TypeOK'
  OBVIOUS
<1>1. CASE UNCHANGED vars
  BY <1>1 DEF TypeOK, vars
<1>2. ASSUME NEW d \in Daemon, Step(d) PROVE TypeOK'
  <2> USE DEF TypeOK, Go, Observe, Unlinked
  <2>1. CASE Start(d)
    BY <2>1 DEF Start
  <2>2. CASE Open(d)
    BY <2>2, FileOf, OneTwo, ZenonT(30) DEF Open, Create
  <2>3. CASE WritePid(d)
    <3>1. CASE pc' = [pc EXCEPT ![d] = "read"] /\ written' = written
      BY <2>3, <3>1 DEF WritePid
    <3>2. CASE /\ pc' = [pc EXCEPT ![d] = "locked"]
               /\ written' = written \cup {[by |-> d, try |-> 1]}
      <4>0. [by |-> d, try |-> 1] \in written'
        BY <3>2
      <4>1. \E f \in written' : f.by = d
        BY <4>0, FileOf, OneTwo
      <4> QED
        BY <2>3, <3>2, <4>1, FileOf, OneTwo DEF WritePid
    <3> QED
      BY <2>3, <3>1, <3>2 DEF WritePid
  <2>4. CASE ReadPid(d)
    BY <2>4, ByDaemon DEF ReadPid
  <2>5. CASE Judge(d)
    BY <2>5 DEF Judge
  <2>6. CASE Unlink(d)
    BY <2>6 DEF Unlink
  <2>7. CASE Reopen(d)
    BY <2>7, FileOf, OneTwo, ZenonT(30) DEF Reopen, Create
  <2>8. CASE RewritePid(d)
    <3>1. CASE pc' = [pc EXCEPT ![d] = "done"] /\ written' = written
      BY <2>8, <3>1 DEF RewritePid
    <3>2. CASE /\ pc' = [pc EXCEPT ![d] = "locked"]
               /\ written' = written \cup {[by |-> d, try |-> 2]}
      <4>0. [by |-> d, try |-> 2] \in written'
        BY <3>2
      <4>1. \E f \in written' : f.by = d
        BY <4>0, FileOf, OneTwo
      <4> QED
        BY <2>8, <3>2, <4>1, FileOf, OneTwo DEF RewritePid
    <3> QED
      BY <2>8, <3>1, <3>2 DEF RewritePid
  <2>9. CASE FailSetup(d)
    BY <2>9 DEF FailSetup
  <2>10. CASE Listen(d)
    BY <2>10 DEF Listen
  <2>11. CASE Close(d)
    BY <2>11 DEF Close
  <2>12. CASE Release(d)
    BY <2>12 DEF Release
  <2>13. CASE Kill(d)
    BY <2>13 DEF Kill
  <2>14. CASE ReusePid(d)
    BY <2>14 DEF ReusePid
  <2> QED
    BY <1>2, <2>1, <2>2, <2>3, <2>4, <2>5, <2>6, <2>7, <2>8, <2>9, <2>10, <2>11,
       <2>12, <2>13, <2>14 DEF Step
<1> QED
  BY <1>1, <1>2 DEF Next, Step


LEMMA MetStep == TypeOK /\ Met /\ [Next]_vars => Met'
<1> SUFFICES ASSUME TypeOK, Met, [Next]_vars PROVE Met'
  OBVIOUS
<1>1. CASE UNCHANGED vars
  BY <1>1 DEF Met, Over, Fresh, vars
<1>2. ASSUME NEW d \in Daemon, Step(d) PROVE Met'
  <2> USE DEF TypeOK, Met, Over, Fresh, Go, Observe, Alive, Unlinked
  <2>1. CASE Start(d)
    BY <2>1 DEF Start
  <2>2. CASE Open(d)
    BY <2>2 DEF Open, Create
  <2>3. CASE WritePid(d)
    BY <2>3 DEF WritePid
  <2>4. CASE ReadPid(d)
    BY <2>4 DEF ReadPid
  <2>5. CASE Judge(d)
    BY <2>5 DEF Judge
  <2>6. CASE Unlink(d)
    BY <2>6 DEF Unlink
  <2>7. CASE Reopen(d)
    BY <2>7 DEF Reopen, Create
  <2>8. CASE RewritePid(d)
    BY <2>8 DEF RewritePid
  <2>9. CASE FailSetup(d)
    BY <2>9 DEF FailSetup
  <2>10. CASE Listen(d)
    BY <2>10 DEF Listen
  <2>11. CASE Close(d)
    BY <2>11 DEF Close
  <2>12. CASE Release(d)
    BY <2>12 DEF Release
  <2>13. CASE Kill(d)
    BY <2>13 DEF Kill
  <2>14. CASE ReusePid(d)
    BY <2>14 DEF ReusePid
  <2> QED
    BY <1>2, <2>1, <2>2, <2>3, <2>4, <2>5, <2>6, <2>7,
       <2>8, <2>9, <2>10, <2>11, <2>12, <2>13, <2>14 DEF Step
<1> QED
  BY <1>1, <1>2 DEF Next, Step

LEMMA OrderlyStep == TypeOK /\ Met /\ Orderly /\ [Next]_vars => Orderly'
<1> SUFFICES ASSUME TypeOK, Met, Orderly, [Next]_vars, ~overlap'
             PROVE  (Alone /\ Belongs /\ Beside)'
  BY DEF Orderly
<1>1. CASE UNCHANGED vars
  BY <1>1 DEF Orderly, Alone, Belongs, Beside, Own, Over, vars
<1>2. ASSUME NEW d \in Daemon, Step(d) PROVE (Alone /\ Belongs /\ Beside)'
  <2> ~overlap /\ Alone'
    BY <1>2 DEF Step, Start, Open, WritePid, ReadPid, Judge, Unlink, Reopen, RewritePid,
        FailSetup, Listen, Close, Release, Kill, ReusePid, Observe, Alone
  <2> Alone /\ Belongs /\ Beside
    BY DEF Orderly
  <2>a. pc[d] \in Acquiring => \A e \in Daemon : pc[e] \in Acquiring => e = d
    BY DEF Alone
  <2>b. pc[d] \in {"write", "rewrite"} => \A e \in Daemon : pc[e] \notin Holding
    BY DEF Beside
  <2>e. pc[d] = "unlink" =>
          \A e \in Daemon : pc[e] \in Holding => path # Nobody /\ path.by = e /\ ~Over(d, e)
    BY DEF Beside, Belongs, TypeOK
  <2>c. path = Nobody => \A e \in Daemon : pc[e] \notin Holding
    BY DEF Belongs, TypeOK
  <2> USE DEF TypeOK, Belongs, Beside, Own, Go, Alive, Over
  <2>1. CASE Start(d)
    BY <2>1 DEF Start
  <2>2. CASE Open(d)
    BY <2>2, <2>a, <2>c, FileOf, OneTwo DEF Open, Create
  <2>3. CASE WritePid(d)
    BY <2>3, <2>a, <2>b, FileOf, OneTwo DEF WritePid
  <2>4. CASE ReadPid(d)
    BY <2>4 DEF ReadPid
  <2>5. CASE Judge(d)
    BY <2>5 DEF Judge
  <2>6. CASE Unlink(d)
    BY <2>6, <2>a, <2>e DEF Unlink, Unlinked
  <2>7. CASE Reopen(d)
    BY <2>7, <2>a, <2>c, FileOf, OneTwo DEF Reopen, Create
  <2>8. CASE RewritePid(d)
    BY <2>8, <2>a, <2>b, FileOf, OneTwo DEF RewritePid
  <2>9. CASE FailSetup(d)
    BY <2>9 DEF FailSetup
  <2>10. CASE Listen(d)
    BY <2>10 DEF Listen
  <2>11. CASE Close(d)
    BY <2>11 DEF Close
  <2>12. CASE Release(d)
    BY <2>12 DEF Release, Unlinked
  <2>13. CASE Kill(d)
    BY <2>13 DEF Kill
  <2>14. CASE ReusePid(d)
    BY <2>14 DEF ReusePid
  <2> QED
    BY <1>2, <2>1, <2>2, <2>3, <2>4, <2>5, <2>6, <2>7,
       <2>8, <2>9, <2>10, <2>11, <2>12, <2>13, <2>14 DEF Step
<1> QED
  BY <1>1, <1>2 DEF Next, Step

LEMMA InvAlways == Spec => []IInv
<1>1. IInv /\ [Next]_vars => IInv'
  BY TypeStep, MetStep, OrderlyStep DEF IInv
<1> QED
  BY InitInv, <1>1, PTL DEF Spec

LEMMA InvImplies == IInv => TypeOK /\ LockExcludes /\ LockNamesServer
BY DEF IInv, Orderly, Belongs, LockExcludes, LockNamesServer

(* Type correctness of startDaemon and its lock. *)
THEOREM TypeCorrect == Spec => []TypeOK
BY InvAlways, InvImplies, PTL

(* acquireSingleInstanceLock: without overlapping starts one daemon holds the lock. *)
THEOREM OneHolder == Spec => []LockExcludes
BY InvAlways, InvImplies, PTL

(* ... and nothing but its own release unlinks the lock of a serving daemon. *)
THEOREM LockStays == Spec => []LockNamesServer
BY InvAlways, InvImplies, PTL

(* The stale-lock branch: refused by a pid that is in use, beaten by a file that is   *)
(* another living start's or that this user cannot unlink.                            *)
LEMMA KeptOut ==
  ASSUME Met, NEW d \in Daemon, NEW e \in Daemon, Step(e),
         pc'[d] \in {"refused", "beaten"}, pc[d] \notin Ended, TypeOK
  PROVE  d \in company \/ (path # Nobody /\ ~Over(d, path.by))
<1> USE DEF TypeOK, Go
<1>1. CASE Judge(e)
  BY <1>1 DEF Judge, Alive, Met, Fresh
<1>2. CASE Reopen(e)
  BY <1>2 DEF Reopen, Create, Met
<1> QED
  BY <1>1, <1>2 DEF Step, Start, Open, WritePid, ReadPid, Unlink, RewritePid, FailSetup,
     Listen, Close, Release, Kill, ReusePid

LEMMA KeptOutStep ==
  ASSUME IInv, [Next]_vars, NEW d \in Daemon,
         pc'[d] \in {"refused", "beaten"}, pc[d] \notin Ended
  PROVE  d \in company \/ (path # Nobody /\ ~Over(d, path.by))
<1>1. pc' # pc
  OBVIOUS
<1>2. PICK e \in Daemon : Step(e)
  BY <1>1 DEF Next, Step, vars
<1> QED
  BY <1>2, KeptOut DEF IInv

(* No leftover lock of its own user keeps a daemon down: whoever is kept out has met  *)
(* a living pid or another start, or found a file it cannot unlink.                   *)
THEOREM StaleLockYields == Spec => OnlyOthersKeepOut
<1>1. IInv /\ [Next]_vars =>
        [\A d \in Daemon :
           pc'[d] \in {"refused", "beaten"} /\ pc[d] \notin Ended =>
             d \in company \/ (path # Nobody /\ ~Over(d, path.by))]_vars
  BY KeptOutStep
<1> QED
  BY <1>1, InvAlways, PTL DEF Spec, OnlyOthersKeepOut
=============================================================================
