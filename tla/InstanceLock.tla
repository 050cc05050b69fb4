------------------------------ MODULE InstanceLock ------------------------------
(***************************************************************************)
(* src/src/state/instance-lock.ts: at most one service per state           *)
(* directory, and whether the previous one ended without releasing its     *)
(* lock.  The first attempt creates the lock file exclusively, outside any *)
(* mutex; one that finds a file there judges and replaces it inside the    *)
(* file mutex of FileMutex, whose steps are taken here one by one.         *)
(*                                                                         *)
(* writeFile with the flag wx creates the file and then fills it, two      *)
(* steps; the second one follows the file even when its path is gone.      *)
(***************************************************************************)
EXTENDS FileMutex

CONSTANTS
  NoFile,      \* there is no lock file
  LeftFiles,   \* what may lie at its path when the processes start
  MaxStarts    \* bound: acquisitions of the lock per process

VARIABLES
  file,       \* the lock file: [by, whole], or NoFile
  stage,      \* process -> where its acquireInstanceLock or release stands
  starts,     \* process -> acquisitions begun; with the pid it is the token
  recovered,  \* process -> recoveredStale of its current acquisition
  unnoticed,  \* history: the last service ended without releasing, unnoticed
  misread,    \* history: a start judged a file not filled yet, or gone by then
  gap         \* history: a start created its file where a recovery had removed one

lockVars == <<file, stage, starts, recovered, unnoticed, misread, gap>>
allVars  == <<mutexVars, lockVars>>

Holder == [pid : Processes \cup {Dead}, n : 0..MaxStarts]
File   == [by : Holder, whole : BOOLEAN]
Stages == {"down", "create", "fill", "queue", "read", "remove", "recreate",
           "refill", "entered", "refused", "held", "unlink"}

ASSUME InstanceAssumption ==
  /\ MaxStarts \in 1..MaxAcquisitions
  /\ NoFile \notin File
  /\ LeftFiles \subseteq {left \in File : left.by.pid = Dead} \cup {NoFile}

Me(p) == [pid |-> p, n |-> starts[p]]
AtStage(p, s) == p \in alive /\ stage[p] = s
To(p, s) == stage' = [stage EXCEPT ![p] = s]
Locked(p) == pc[p] = "critical"
InGap == \E q \in Processes : stage[q] = "recreate"
Filling == \E q \in alive : stage[q] \in {"fill", "refill"} /\ file # NoFile /\ file.by = Me(q)

-----------------------------------------------------------------------------
(* acquireInstanceLock *)

Start(p) ==
  /\ AtStage(p, "down") /\ starts[p] < MaxStarts
  /\ To(p, "create")
  /\ starts' = [starts EXCEPT ![p] = @ + 1]
  /\ recovered' = [recovered EXCEPT ![p] = FALSE]
  /\ UNCHANGED <<mutexVars, file, unnoticed, misread, gap>>

\* The file is created where none is; with one there the mutex is asked for.
Create(p) ==
  /\ AtStage(p, "create")
  /\ \/ /\ file = NoFile
        /\ file' = [by |-> Me(p), whole |-> FALSE]
        /\ To(p, "fill")
        /\ gap' = (gap \/ InGap)
        /\ UNCHANGED mutexVars
     \/ /\ file # NoFile
        /\ Request(p)
        /\ To(p, "queue")
        /\ UNCHANGED <<file, gap>>
  /\ UNCHANGED <<starts, recovered, unnoticed, misread>>

Filled(p) == IF file # NoFile /\ file.by = Me(p) THEN [file EXCEPT !.whole = TRUE] ELSE file

\* What p notices when it becomes the service.
Serves(p) ==
  /\ To(p, "held")
  /\ unnoticed' = FALSE

Fill(p) ==
  /\ AtStage(p, "fill")
  /\ file' = Filled(p)
  /\ Serves(p)
  /\ UNCHANGED <<mutexVars, starts, recovered, misread, gap>>

\* Inside the mutex the exclusive create is tried once more.
Retry(p) ==
  /\ AtStage(p, "queue") /\ Locked(p)
  /\ IF file = NoFile
     THEN file' = [by |-> Me(p), whole |-> FALSE] /\ To(p, "refill")
     ELSE UNCHANGED file /\ To(p, "read")
  /\ gap' = (gap \/ (file = NoFile /\ InGap))
  /\ UNCHANGED <<mutexVars, starts, recovered, unnoticed, misread>>

\* A whole record of a living process refuses the start; anything else, an
\* unfinished record and no file at all too, goes the way of a stale one.
Served == IF file = NoFile THEN FALSE ELSE file.whole /\ file.by.pid \in alive
Read(p) ==
  /\ AtStage(p, "read")
  /\ \/ /\ Served
        /\ To(p, "refused")
        /\ Leave(p)
        /\ UNCHANGED misread
     \/ /\ ~Served
        /\ To(p, "remove")
        /\ misread' = (misread \/ Filling \/ file = NoFile)
        /\ UNCHANGED mutexVars
  /\ UNCHANGED <<file, starts, recovered, unnoticed, gap>>

RemoveStale(p) ==
  /\ AtStage(p, "remove")
  /\ file' = NoFile
  /\ To(p, "recreate")
  /\ UNCHANGED <<mutexVars, starts, recovered, unnoticed, misread, gap>>

\* Mutant of Recreate: the recovery is not reported.
RecreateUnreported(p) ==
  /\ AtStage(p, "recreate")
  /\ \/ /\ file = NoFile
        /\ file' = [by |-> Me(p), whole |-> FALSE]
        /\ To(p, "refill")
        /\ UNCHANGED <<mutexVars, recovered>>
     \/ /\ file # NoFile
        /\ To(p, "refused")
        /\ Leave(p)
        /\ UNCHANGED <<file, recovered>>
  /\ UNCHANGED <<starts, unnoticed, misread, gap>>

\* A start that has not asked for the mutex may have created the file first.
Recreate(p) ==
  /\ AtStage(p, "recreate")
  /\ \/ /\ file = NoFile
        /\ file' = [by |-> Me(p), whole |-> FALSE]
        /\ recovered' = [recovered EXCEPT ![p] = TRUE]
        /\ To(p, "refill")
        /\ UNCHANGED mutexVars
     \/ /\ file # NoFile
        /\ To(p, "refused")
        /\ Leave(p)
        /\ UNCHANGED <<file, recovered>>
  /\ UNCHANGED <<starts, unnoticed, misread, gap>>

Refill(p) ==
  /\ AtStage(p, "refill")
  /\ file' = Filled(p)
  /\ To(p, "entered")
  /\ Leave(p)
  /\ UNCHANGED <<starts, recovered, unnoticed, misread, gap>>

\* withFileMutex returns after it has released the mutex.
Return(p) ==
  /\ pc[p] = "idle"
  /\ \/ AtStage(p, "entered") /\ Serves(p)
     \/ AtStage(p, "refused") /\ To(p, "down") /\ UNCHANGED unnoticed
  /\ UNCHANGED <<mutexVars, file, starts, recovered, misread, gap>>

-----------------------------------------------------------------------------
(* release and releaseSync *)

ReleaseService(p) ==
  /\ AtStage(p, "held")
  /\ To(p, IF file = [by |-> Me(p), whole |-> TRUE] THEN "unlink" ELSE "down")
  /\ UNCHANGED <<mutexVars, file, starts, recovered, unnoticed, misread, gap>>

Unlink(p) ==
  /\ AtStage(p, "unlink")
  /\ file' = NoFile
  /\ To(p, "down")
  /\ UNCHANGED <<mutexVars, starts, recovered, unnoticed, misread, gap>>

-----------------------------------------------------------------------------
(* The mutex, and the processes *)

MutexStep(p) ==
  /\ Acquire(p) \/ Recover(p) \/ CheckToken(p) \/ Remove(p)
  /\ UNCHANGED lockVars

MutexAges == LockAges /\ UNCHANGED lockVars

\* A process that dies leaves its lock file behind once it has created it.
Dies(p) ==
  /\ Perish(p)
  /\ unnoticed' = (unnoticed \/ (file # NoFile /\ file.by = Me(p)))
  /\ UNCHANGED <<file, stage, starts, recovered, misread, gap>>

LockInit ==
  /\ MutexInit
  /\ file \in LeftFiles
  /\ stage = [p \in Processes |-> "down"]
  /\ starts = [p \in Processes |-> 0]
  /\ recovered = [p \in Processes |-> FALSE]
  /\ unnoticed = (file # NoFile)
  /\ misread = FALSE
  /\ gap = FALSE

Works(p) ==
  \/ Create(p) \/ Fill(p) \/ Retry(p) \/ Read(p) \/ RemoveStale(p) \/ Recreate(p)
  \/ Refill(p) \/ Return(p) \/ Unlink(p) \/ MutexStep(p)

LockNext ==
  \/ \E p \in Processes : Start(p) \/ Works(p) \/ ReleaseService(p) \/ Dies(p)
  \/ MutexAges

\* A living process goes on with its file operations; time passes.  Nobody
\* has to start a service or to stop one.
LockFairness ==
  /\ \A p \in Processes : WF_allVars(Works(p))
  /\ WF_allVars(MutexAges)

LockSpec == LockInit /\ [][LockNext]_allVars /\ LockFairness

-----------------------------------------------------------------------------
\* Types; and only a start that waits for the mutex, or holds it, runs its
\* steps inside.
LockTypeOK ==
  /\ MutexTypeOK
  /\ file \in File \cup {NoFile}
  /\ stage \in [Processes -> Stages]
  /\ starts \in [Processes -> 0..MaxStarts]
  /\ recovered \in [Processes -> BOOLEAN]
  /\ {unnoticed, misread, gap} \subseteq BOOLEAN
  /\ \A p \in Processes : Locked(p) => stage[p] \in {"queue", "read", "remove", "recreate", "refill"}

Services == {p \in alive : stage[p] \in {"held", "unlink"}}

\* At most one living process is the service of the state directory.
OneService == Cardinality(Services) <= 1

\* That holds however starts, recoveries of stale lock files and of stale
\* mutexes, releases and crashes interleave, unless a mutex directory without
\* an owner was discarded, or a start judged a lock file that was not there
\* yet or no longer: one its creator had created and not filled, or one that
\* was released between the exclusive create that failed and the read.  Then
\* it removes what lies there, the file of a living service.
SingleService == anonymous \/ misread \/ OneService

\* A start reports a recovered stale lock exactly when the last service died
\* with its lock: what the restart-loop breaker counts.  Exempt, beside the
\* above: a start created its file in the gap a recovery leaves between
\* removing the stale file and creating its own.
ReportsUncleanEnd ==
  [][\A p \in Processes :
       stage[p] \in {"fill", "entered"} /\ stage'[p] = "held" =>
         anonymous \/ misread \/ gap \/ (recovered[p] <=> unnoticed)]_allVars

\* A start ends: as the service, refused, or with its process.
EveryStartEnds ==
  \A p \in Processes : (p \in alive /\ stage[p] = "create")
                         ~> (p \notin alive \/ stage[p] \in {"down", "held"})
=============================================================================
