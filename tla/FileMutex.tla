------------------------------- MODULE FileMutex -------------------------------
(***************************************************************************)
(* The lock directory of src/src/state/file-mutex.ts, which every JSON     *)
(* store of the bridge takes around a read-modify-write.                   *)
(*                                                                         *)
(* Processes share one path.  A process has one acquisition under way: the *)
(* callers inside it queue on inProcessQueues.  Every file operation is a  *)
(* step of its own and addresses the lock by its path, so it meets         *)
(* whatever directory is there by then.  Times are abstracted to what the  *)
(* code asks of them: whether a directory without an owner is older than   *)
(* staleLockMs, whether a living owner took its lock longer ago than       *)
(* twenty times that.                                                      *)
(***************************************************************************)
EXTENDS Naturals, FiniteSets

CONSTANTS
  Processes,        \* living processes (pids)
  Dead,             \* pid of a process that died before
  NoOwner,          \* owner.json is missing
  NoDir,            \* there is no directory
  Leftovers,        \* what may lie at the lock path when the processes start
  MaxAcquisitions   \* bound: acquisitions per process

VARIABLES
  mutex,     \* the directory at the lock path: [owner, old], or NoDir
  trash,     \* process -> the directory it renamed away, or NoDir
  alive,     \* processes that have not crashed
  pc,        \* process -> its next file operation
  count,     \* process -> acquisitions begun; with the pid it is the token
  judged,    \* process -> the owner record it judged stale
  anonymous  \* history: a directory without an owner was discarded as stale

mutexVars == <<mutex, trash, alive, pc, count, judged, anonymous>>

Token == [pid : Processes \cup {Dead}, n : 0..MaxAcquisitions]
Dir   == [owner : Token \cup {NoOwner}, old : BOOLEAN]
Steps == {"idle", "mkdir", "write", "critical", "judge", "rename", "reread",
          "restore", "discard", "check", "remove"}

ASSUME MutexAssumption ==
  /\ Dead \notin Processes /\ NoOwner \notin Token /\ NoDir \notin Dir
  /\ MaxAcquisitions \in Nat
  /\ Leftovers \subseteq {NoOwner, Dead, NoDir}

TokenOf(p) == [pid |-> p, n |-> count[p]]
Empty(dir) == dir # NoDir /\ dir.owner = NoOwner
Goto(p, step) == pc' = [pc EXCEPT ![p] = step]
At(p, step) == p \in alive /\ pc[p] = step

-----------------------------------------------------------------------------
(* acquireFileMutex *)

Request(p) ==
  /\ At(p, "idle") /\ count[p] < MaxAcquisitions
  /\ count' = [count EXCEPT ![p] = @ + 1]
  /\ Goto(p, "mkdir")
  /\ UNCHANGED <<mutex, trash, alive, judged, anonymous>>

MakeDir(p) ==
  /\ At(p, "mkdir")
  /\ IF mutex = NoDir
     THEN mutex' = [owner |-> NoOwner, old |-> FALSE] /\ Goto(p, "write")
     ELSE UNCHANGED mutex /\ Goto(p, "judge")
  /\ UNCHANGED <<trash, alive, count, judged, anonymous>>

\* owner.json is written into whatever directory is at the path by now; if
\* there is none the process starts over.
WriteOwner(p) ==
  /\ At(p, "write")
  /\ IF mutex = NoDir
     THEN UNCHANGED mutex /\ Goto(p, "judge")
     ELSE mutex' = [owner |-> TokenOf(p), old |-> FALSE] /\ Goto(p, "critical")
  /\ UNCHANGED <<trash, alive, count, judged, anonymous>>

-----------------------------------------------------------------------------
(* tryRecoverStaleLock and removeStaleLock *)

\* Mutant of IsStale: a directory without an owner record is never stale.
IsStaleWithOwner(dir) ==
  dir.owner # NoOwner /\ (dir.owner.pid \in alive => dir.old)

\* A directory whose owner died is stale at once; one without an owner, or
\* with a living one, when it is too old.
IsStale(dir) == (dir.owner = NoOwner \/ dir.owner.pid \in alive) => dir.old

Judge(p) ==
  /\ At(p, "judge")
  /\ IF mutex # NoDir /\ IsStale(mutex)
     THEN judged' = [judged EXCEPT ![p] = mutex.owner] /\ Goto(p, "rename")
     ELSE UNCHANGED judged /\ Goto(p, "mkdir")
  /\ UNCHANGED <<mutex, trash, alive, count, anonymous>>

Rename(p) ==
  /\ At(p, "rename")
  /\ IF mutex = NoDir
     THEN UNCHANGED <<mutex, trash>> /\ Goto(p, "mkdir")
     ELSE mutex' = NoDir /\ trash' = [trash EXCEPT ![p] = mutex] /\ Goto(p, "reread")
  /\ UNCHANGED <<alive, count, judged, anonymous>>

\* Mutant of Reread: the directory taken is not compared with the one judged.
RereadBlindly(p) ==
  /\ At(p, "reread")
  /\ Goto(p, "discard")
  /\ UNCHANGED <<mutex, trash, alive, count, judged, anonymous>>

Reread(p) ==
  /\ At(p, "reread")
  /\ Goto(p, IF trash[p].owner = judged[p] THEN "discard" ELSE "restore")
  /\ UNCHANGED <<mutex, trash, alive, count, judged, anonymous>>

\* Renaming a directory onto a path succeeds when nothing, or an empty
\* directory, is there; otherwise the directory is discarded.
Restore(p) ==
  /\ At(p, "restore")
  /\ mutex' = IF mutex = NoDir \/ Empty(mutex) THEN trash[p] ELSE mutex
  /\ trash' = [trash EXCEPT ![p] = NoDir]
  /\ Goto(p, "mkdir")
  /\ UNCHANGED <<alive, count, judged, anonymous>>

Discard(p) ==
  /\ At(p, "discard")
  /\ trash' = [trash EXCEPT ![p] = NoDir]
  /\ anonymous' = (anonymous \/ Empty(trash[p]))
  /\ Goto(p, "mkdir")
  /\ UNCHANGED <<mutex, alive, count, judged>>

-----------------------------------------------------------------------------
(* releaseFileMutex *)

Leave(p) ==
  /\ At(p, "critical")
  /\ Goto(p, "check")
  /\ UNCHANGED <<mutex, trash, alive, count, judged, anonymous>>

\* Only a lock that carries the token of this acquisition is removed.
CheckToken(p) ==
  /\ At(p, "check")
  /\ Goto(p, IF mutex # NoDir /\ mutex.owner = TokenOf(p) THEN "remove" ELSE "idle")
  /\ UNCHANGED <<mutex, trash, alive, count, judged, anonymous>>

Remove(p) ==
  /\ At(p, "remove")
  /\ mutex' = NoDir
  /\ Goto(p, "idle")
  /\ UNCHANGED <<trash, alive, count, judged, anonymous>>

-----------------------------------------------------------------------------
(* The environment *)

Perish(p) ==
  /\ p \in alive
  /\ alive' = alive \ {p}
  /\ UNCHANGED <<mutex, trash, pc, count, judged, anonymous>>

\* A directory ages while nobody is between mkdir and writeFile, which are
\* less than staleLockMs apart.  That of a living owner ages once it is left
\* over: critical sections are shorter than twenty times staleLockMs.
Creating == \E p \in alive : pc[p] = "write"
Holding(token) == \E p \in alive : TokenOf(p) = token /\ pc[p] \in {"critical", "check", "remove"}
LockAges ==
  /\ mutex # NoDir /\ ~mutex.old /\ ~Creating
  /\ mutex.owner = NoOwner \/ ~Holding(mutex.owner)
  /\ mutex' = [mutex EXCEPT !.old = TRUE]
  /\ UNCHANGED <<trash, alive, pc, count, judged, anonymous>>

-----------------------------------------------------------------------------
\* The path is free, or a process that died before left its lock there, with
\* or without an owner record.
LeftAs(leftover) ==
  IF leftover = NoDir THEN NoDir
  ELSE [owner |-> IF leftover = NoOwner THEN NoOwner ELSE [pid |-> Dead, n |-> 0], old |-> FALSE]

MutexInit ==
  /\ mutex \in {LeftAs(leftover) : leftover \in Leftovers}
  /\ trash = [p \in Processes |-> NoDir]
  /\ alive = Processes
  /\ pc = [p \in Processes |-> "idle"]
  /\ count = [p \in Processes |-> 0]
  /\ judged = [p \in Processes |-> NoOwner]
  /\ anonymous = FALSE

Acquire(p) == MakeDir(p) \/ WriteOwner(p)
Recover(p) == Judge(p) \/ Rename(p) \/ Reread(p) \/ Restore(p) \/ Discard(p)
Release(p) == Leave(p) \/ CheckToken(p) \/ Remove(p)

MutexNext ==
  \/ \E p \in Processes : Request(p) \/ Acquire(p) \/ Recover(p) \/ Release(p) \/ Perish(p)
  \/ LockAges

\* A living process goes on with its file operations; time passes.
MutexFairness ==
  /\ \A p \in Processes : WF_mutexVars(Acquire(p) \/ Recover(p) \/ Release(p))
  /\ WF_mutexVars(LockAges)

MutexSpec == MutexInit /\ [][MutexNext]_mutexVars /\ MutexFairness

-----------------------------------------------------------------------------
\* Types; and a process holds a directory it renamed away exactly while it
\* decides about it: none is left under its .stale name.
MutexTypeOK ==
  /\ mutex \in Dir \cup {NoDir}
  /\ trash \in [Processes -> Dir \cup {NoDir}]
  /\ alive \subseteq Processes
  /\ pc \in [Processes -> Steps]
  /\ count \in [Processes -> 0..MaxAcquisitions]
  /\ judged \in [Processes -> Token \cup {NoOwner}]
  /\ anonymous \in BOOLEAN
  /\ \A p \in Processes : trash[p] # NoDir <=> pc[p] \in {"reread", "restore", "discard"}

InCritical == {p \in alive : pc[p] = "critical"}

\* No two processes are in the critical section, however stale locks are
\* judged, renamed, restored and re-created around each other.
MutualExclusion == Cardinality(InCritical) <= 1

\* With two processes exclusion holds as long as no directory without an
\* owner record has been discarded: every other directory is known by the
\* token in it, so a fresh lock taken by mistake is put back.
ExclusionByToken == anonymous \/ MutualExclusion

\* A process that wants the lock gets it: a lock left behind by a crash, or
\* restored after its owner had let it go, is recovered in the end.
EventuallyAcquired ==
  \A p \in Processes : (p \in alive /\ pc[p] = "mkdir") ~> (p \notin alive \/ pc[p] = "critical")
=============================================================================
