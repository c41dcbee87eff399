----------------------------- MODULE AppendLog -----------------------------
(***************************************************************************)
(* What a hash-chained governance log promises its callers.  A call either *)
(* commits exactly one entry, linked to the entry that was last at that    *)
(* instant, and then returns "ok"; or it returns "timeout" and has left    *)
(* nothing behind; or the process making it dies, before or after the      *)
(* commit, and may be started again.  Entries are never changed, removed   *)
(* or re-linked.                                                           *)
(*                                                                         *)
(* KintsugiLedger implements this module for the Kintsugi record store,    *)
(* TelemetryLedger for logs/ledger.ndjson.                                 *)
(***************************************************************************)
EXTENDS Naturals, Sequences

CONSTANTS
  Caller,     \* the calls that may be in flight together
  Existing    \* how many chained entries the log holds to begin with

VARIABLES
  log,        \* the entries in commit order, each naming its predecessor
  status      \* what each caller has been told so far

logVars == <<log, status>>

Returned == {"idle", "ok", "timeout"}

LogInit ==
  /\ Len(log) = Existing
  /\ \A i \in 1..Existing : log[i] = i - 1
  /\ status \in [Caller -> {"idle", "dead"}]

Call(c) ==
  /\ status[c] \in Returned
  /\ status' = [status EXCEPT ![c] = "pending"]
  /\ UNCHANGED log

Commit(c) ==
  /\ status[c] = "pending"
  /\ status' = [status EXCEPT ![c] = "committed"]
  /\ log' = Append(log, Len(log))

Return(c) ==
  /\ \/ status[c] = "committed" /\ status' = [status EXCEPT ![c] = "ok"]
     \/ status[c] = "pending"   /\ status' = [status EXCEPT ![c] = "timeout"]
  /\ UNCHANGED log

Die(c) ==
  /\ status' = [status EXCEPT ![c] = "dead"]
  /\ UNCHANGED log

Restart(c) ==
  /\ status[c] = "dead"
  /\ status' = [status EXCEPT ![c] = "idle"]
  /\ UNCHANGED log

LogNext ==
  \E c \in Caller : Call(c) \/ Commit(c) \/ Return(c) \/ Die(c) \/ Restart(c)

LogSpec == LogInit /\ [][LogNext]_logVars
=============================================================================
