----------------------------- MODULE DaemonLock -----------------------------
(***************************************************************************)
(* The lock file that keeps a repository to one daemon (core/server.ts:    *)
(* acquireSingleInstanceLock, and startDaemon up to its cleanup).          *)
(*                                                                         *)
(* The file is created exclusively and the pid is written to it in a       *)
(* second call; a start that finds a file it cannot take for a living      *)
(* daemon's unlinks whatever the path then names and creates it anew.  A   *)
(* file that was unlinked lives on for the process that writes to it.  The *)
(* path is in os.tmpdir(), which the users of a machine share: a user can  *)
(* neither signal another's process nor, the directory being sticky, unlink*)
(* another's file.  A daemon here is one process, so a restart is another  *)
(* daemon with another pid.                                                *)
(***************************************************************************)
EXTENDS Naturals

CONSTANTS
  Daemon,  \* the processes that run startDaemon, each named by its pid
  Port,    \* the ports AUERNYX_PORT may give them
  Nobody,  \* no pid, no file
  User,    \* the users they run as
  Root,    \* the user, if any, who may do what every user may
  Faults   \* which environment faults occur, see FaultKinds

FaultKinds ==
  {"kill",    \* a process is killed: no cleanup runs
   "setup",   \* startDaemon throws between the lock and its exit handlers
   "write",   \* the pid cannot be written
   "port",    \* a program that is no daemon has the port
   "reuse"}   \* the system gives the pid of a dead daemon away: to another program,
              \* or, in a container, to the very daemon that reads the lock

\* A start makes at most two files.
File == [by : Daemon, try : 1..2]

ASSUME DaemonAssumption ==
  /\ Nobody \notin Daemon \cup File
  /\ Faults \subseteq FaultKinds

VARIABLES
  pc,        \* where each daemon is in startDaemon
  path,      \* the file the lock path names: [by, try], or Nobody
  written,   \* the files that hold a pid: that of the daemon that made them
  seen,      \* the pid each start has read, Nobody if none
  port,      \* the port each daemon was given
  user,      \* the user each daemon runs as
  alien,     \* pids of dead daemons that are in use again
  overlap,   \* history: two starts have been inside acquireSingleInstanceLock at once
  company    \* history: starts that met a living daemon or its pid while acquiring

vars == <<pc, path, written, seen, port, user, alien, overlap, company>>

Acquiring == {"open", "write", "read", "judge", "unlink", "reopen", "rewrite"}
Holding   == {"locked", "listening", "leaving"}
Living    == Acquiring \cup Holding
Ended     == {"done", "refused", "beaten"}
Stages    == {"idle"} \cup Living \cup Ended

Init ==
  /\ pc = [d \in Daemon |-> "idle"]
  /\ path = Nobody
  /\ written = {}
  /\ seen = [d \in Daemon |-> Nobody]
  /\ port \in [Daemon -> Port]
  /\ user \in [Daemon -> User]
  /\ alien = {}
  /\ overlap = FALSE
  /\ company = {}

-----------------------------------------------------------------------------

Go(d, from, to) == pc[d] = from /\ pc' = [pc EXCEPT ![d] = to]

\* What d may do to a process or a file of e.
Over(d, e) == user[d] \in {user[e], Root}

\* process.kill(pid, 0) from d: a living process, unless it belongs to a user d must
\* not signal, for isProcessAlive takes EPERM for dead.
Alive(d, pid) == pid \in Daemon /\ pc[pid] \in Living /\ Over(d, pid)

\* Who is inside acquireSingleInstanceLock after the step, and whom they may meet.
Observe ==
  /\ overlap' = (overlap \/ \E d, e \in Daemon :
                   d # e /\ pc'[d] \in Acquiring /\ pc'[e] \in Acquiring)
  /\ company' = company \cup
       {d \in Daemon : /\ pc'[d] \in Acquiring
                       /\ \E e \in Daemon \ {d} : pc'[e] \in Living \/ e \in alien'}

Start(d) ==
  /\ Go(d, "idle", "open")
  /\ UNCHANGED <<path, written, seen, port, user, alien>>
  /\ Observe

\* openSync(lockPath, "wx"): creates the file, or fails if there is one.
Create(d, n) ==
  /\ path = Nobody
  /\ path' = [by |-> d, try |-> n]

Open(d) ==
  /\ \/ Create(d, 1) /\ Go(d, "open", "write")
     \/ path # Nobody /\ Go(d, "open", "read") /\ UNCHANGED path
  /\ UNCHANGED <<written, seen, port, user, alien>>
  /\ Observe

\* The pid goes to the file that was opened, wherever the path leads by now.  A
\* failure to write is caught like a failure to open.
WritePid(d) ==
  /\ \/ /\ Go(d, "write", "locked")
        /\ written' = written \cup {[by |-> d, try |-> 1]}
     \/ "write" \in Faults /\ Go(d, "write", "read") /\ UNCHANGED written
  /\ UNCHANGED <<path, seen, port, user, alien>>
  /\ Observe

\* tryReadPid: a missing or an empty file gives no pid.
ReadPid(d) ==
  /\ Go(d, "read", "judge")
  /\ seen' = [seen EXCEPT ![d] = IF path \in written THEN path.by ELSE Nobody]
  /\ UNCHANGED <<path, written, port, user, alien>>
  /\ Observe

\* Taking any lock file for a living daemon's.
Bug_NoStaleLock(d) ==
  /\ Go(d, "judge", "refused")
  /\ UNCHANGED <<path, written, seen, port, user, alien>>
  /\ Observe

\* Taking every lock file for a stale one.
Bug_AlwaysStale(d) ==
  /\ Go(d, "judge", "unlink")
  /\ UNCHANGED <<path, written, seen, port, user, alien>>
  /\ Observe

\* daemon_already_running, or a stale lock.  A pid that is in use again may be any
\* user's.
Judge(d) ==
  /\ \/ (Alive(d, seen[d]) \/ seen[d] \in alien) /\ Go(d, "judge", "refused")
     \/ ~Alive(d, seen[d]) /\ Go(d, "judge", "unlink")
  /\ UNCHANGED <<path, written, seen, port, user, alien>>
  /\ Observe

\* unlinkSync(lockPath) with its error ignored: what the path names afterwards.
Unlinked(d) == IF path = Nobody \/ Over(d, path.by) THEN Nobody ELSE path

Unlink(d) ==
  /\ Go(d, "unlink", "reopen")
  /\ path' = Unlinked(d)
  /\ UNCHANGED <<written, seen, port, user, alien>>
  /\ Observe

\* The retry.  Nothing catches its errors: the process dies.
Reopen(d) ==
  /\ \/ Create(d, 2) /\ Go(d, "reopen", "rewrite")
     \/ path # Nobody /\ Go(d, "reopen", "beaten") /\ UNCHANGED path
  /\ UNCHANGED <<written, seen, port, user, alien>>
  /\ Observe

\* Forgetting the pid in the retry.
Bug_EmptyRetry(d) ==
  /\ Go(d, "rewrite", "locked")
  /\ UNCHANGED <<path, written, seen, port, user, alien>>
  /\ Observe

RewritePid(d) ==
  /\ \/ /\ Go(d, "rewrite", "locked")
        /\ written' = written \cup {[by |-> d, try |-> 2]}
     \/ "write" \in Faults /\ Go(d, "rewrite", "done") /\ UNCHANGED written
  /\ UNCHANGED <<path, seen, port, user, alien>>
  /\ Observe

\* Configuration, assertSafeToBind, createCore and the first telemetry entry: an
\* error in any of them ends the process before it has exit handlers.
FailSetup(d) ==
  /\ "setup" \in Faults
  /\ Go(d, "locked", "done")
  /\ UNCHANGED <<path, written, seen, port, user, alien>>
  /\ Observe

Serving(n) == {d \in Daemon : pc[d] = "listening" /\ port[d] = n}

\* server.listen; EADDRINUSE is an uncaught error, so the exit handler runs.
Listen(d) ==
  /\ \/ Serving(port[d]) = {} /\ Go(d, "locked", "listening")
     \/ (Serving(port[d]) # {} \/ "port" \in Faults) /\ Go(d, "locked", "leaving")
  /\ UNCHANGED <<path, written, seen, port, user, alien>>
  /\ Observe

\* SIGINT, SIGTERM or exit: server.close() ...
Close(d) ==
  /\ Go(d, "listening", "leaving")
  /\ UNCHANGED <<path, written, seen, port, user, alien>>
  /\ Observe

\* ... and release(), which unlinks whatever the path names, and the process ends.
Release(d) ==
  /\ Go(d, "leaving", "done")
  /\ path' = Unlinked(d)
  /\ UNCHANGED <<written, seen, port, user, alien>>
  /\ Observe

Kill(d) ==
  /\ "kill" \in Faults
  /\ pc[d] \in Living
  /\ pc' = [pc EXCEPT ![d] = "done"]
  /\ UNCHANGED <<path, written, seen, port, user, alien>>
  /\ Observe

ReusePid(d) ==
  /\ "reuse" \in Faults
  /\ pc[d] \in Ended
  /\ alien' = alien \cup {d}
  /\ UNCHANGED <<pc, path, written, seen, port, user>>
  /\ Observe

-----------------------------------------------------------------------------

Next ==
  \E d \in Daemon :
    \/ Start(d) \/ Open(d) \/ WritePid(d) \/ ReadPid(d) \/ Judge(d) \/ Unlink(d)
    \/ Reopen(d) \/ RewritePid(d) \/ FailSetup(d) \/ Listen(d) \/ Close(d)
    \/ Release(d) \/ Kill(d) \/ ReusePid(d)

Spec == Init /\ [][Next]_vars

-----------------------------------------------------------------------------
(* Properties.                                                             *)

\* Every variable has the shape its comment gives it, and a daemon past its start
\* has written its pid to a file of its own.
TypeOK ==
  /\ pc \in [Daemon -> Stages]
  /\ path \in File \cup {Nobody}
  /\ written \subseteq File
  /\ seen \in [Daemon -> Daemon \cup {Nobody}]
  /\ port \in [Daemon -> Port]
  /\ user \in [Daemon -> User]
  /\ alien \subseteq Daemon
  /\ overlap \in BOOLEAN
  /\ company \subseteq Daemon
  /\ \A d \in Daemon : pc[d] \in Holding => \E f \in written : f.by = d

\* As long as no two starts have been in acquireSingleInstanceLock together, at
\* most one daemon holds the lock: crashes, unwritten pids, failed setups, taken
\* ports and recycled pids included.
LockExcludes ==
  ~overlap => \A d, e \in Daemon : pc[d] \in Holding /\ pc[e] \in Holding => d = e

\* Then the path also keeps naming the file of the daemon that serves, with its
\* pid in it: nobody has unlinked the lock of another.
LockNamesServer ==
  ~overlap => \A d \in Daemon : pc[d] = "listening" => path \in written /\ path.by = d

\* Whatever the lock file was left like -- by a crash between creating and writing
\* it, by a failed setup, by a kill -- a start is kept out only when it meets another
\* living daemon or a process with its pid, or when the file belongs to a user whose
\* files it cannot unlink: a stale lock of one's own never keeps the daemon down.
OnlyOthersKeepOut ==
  [][\A d \in Daemon :
       pc'[d] \in {"refused", "beaten"} /\ pc[d] \notin Ended =>
         d \in company \/ (path # Nobody /\ ~Over(d, path.by))]_vars
=============================================================================
