------------------------------- MODULE RunLock -------------------------------
(***************************************************************************)
(* The lock that keeps two nfvbench processes from using the same traffic  *)
(* generator (RunLock in nfvbench/utils.py:186-212): a file in /tmp that   *)
(* is opened, locked with flock(LOCK_EX | LOCK_NB), and on the way out     *)
(* unlocked, closed and unlinked.  flock locks the inode that is open, not *)
(* the path, so the model tells apart the inodes the path has stood for.   *)
(***************************************************************************)
EXTENDS Naturals

CONSTANTS
  Procs,       (* processes: CLI runs and servers on the same host *)
  MaxAttempts  (* how often a process takes the lock: a bound of the model;
                  a CLI run takes it once, a server once per request *)

ASSUME RunLockAssumption == MaxAttempts \in Nat \ {0}

VARIABLES
  link,      (* the inode /tmp/nfvbench.lock names, or NoFile *)
  inodes,    (* the inodes created so far are 1..inodes *)
  fd,        (* the inode self._fd has open in each process, or NoFile *)
  locked,    (* the inode each process holds the flock of, or NoFile *)
  at,        (* where each process stands *)
  attempts,  (* how many times it has entered RunLock *)
  raced      (* history: a file was unlinked that another process had open *)

lockVars == <<link, inodes, fd, locked, at, attempts, raced>>

NoFile == 0

Places == {"out", "flock", "critical", "close", "unlink"}

LockInit ==
  /\ link = NoFile
  /\ inodes = 0
  /\ fd = [p \in Procs |-> NoFile]
  /\ locked = [p \in Procs |-> NoFile]
  /\ at = [p \in Procs |-> "out"]
  /\ attempts = [p \in Procs |-> 0]
  /\ raced = FALSE

MoveTo(p, l) == at' = [at EXCEPT ![p] = l]

-----------------------------------------------------------------------------
(* Seeded faults: the steps below with a plausible slip. *)

(* LOCK_SH instead of LOCK_EX. *)
FlockShared(p) ==
  /\ at[p] = "flock"
  /\ locked' = [locked EXCEPT ![p] = fd[p]]
  /\ MoveTo(p, "critical")
  /\ UNCHANGED <<link, inodes, fd, attempts, raced>>

(* A lock that outlives its process, as the mere existence of the file      *)
(* would be.                                                                *)
CrashKeepsLock(p) ==
  /\ at[p] # "out"
  /\ fd' = [fd EXCEPT ![p] = NoFile]
  /\ MoveTo(p, "out")
  /\ UNCHANGED <<link, inodes, locked, attempts, raced>>

-----------------------------------------------------------------------------
(* os.open(path, O_CREAT): the file the path names now, or a new one. *)
Open(p) ==
  /\ at[p] = "out"
  /\ attempts[p] < MaxAttempts
  /\ attempts' = [attempts EXCEPT ![p] = @ + 1]
  /\ \/ /\ link = NoFile
        /\ inodes' = inodes + 1
        /\ link' = inodes + 1
     \/ /\ link # NoFile
        /\ UNCHANGED <<inodes, link>>
  /\ fd' = [fd EXCEPT ![p] = link']
  /\ MoveTo(p, "flock")
  /\ UNCHANGED <<locked, raced>>

(* flock(fd, LOCK_EX | LOCK_NB) when nobody holds that inode. *)
Flock(p) ==
  /\ at[p] = "flock"
  /\ \A q \in Procs : locked[q] # fd[p]
  /\ locked' = [locked EXCEPT ![p] = fd[p]]
  /\ MoveTo(p, "critical")
  /\ UNCHANGED <<link, inodes, fd, attempts, raced>>

(* It would block: 'Other NFVbench process is running. Please wait'.  The  *)
(* descriptor stays open in the process but nothing uses it again.         *)
FlockRefused(p) ==
  /\ at[p] = "flock"
  /\ \E q \in Procs : locked[q] = fd[p]
  /\ fd' = [fd EXCEPT ![p] = NoFile]
  /\ MoveTo(p, "out")
  /\ UNCHANGED <<link, inodes, locked, attempts, raced>>

(* __exit__: flock(fd, LOCK_UN) at the end of the run. *)
Unlock(p) ==
  /\ at[p] = "critical"
  /\ locked' = [locked EXCEPT ![p] = NoFile]
  /\ MoveTo(p, "close")
  /\ UNCHANGED <<link, inodes, fd, attempts, raced>>

Close(p) ==
  /\ at[p] = "close"
  /\ fd' = [fd EXCEPT ![p] = NoFile]
  /\ MoveTo(p, "unlink")
  /\ UNCHANGED <<link, inodes, locked, attempts, raced>>

(* os.unlink(path), whatever file the path names by now; the error of a    *)
(* missing file is ignored.                                                *)
Unlink(p) ==
  /\ at[p] = "unlink"
  /\ link' = NoFile
  /\ raced' = (raced \/ \E q \in Procs : fd[q] # NoFile /\ fd[q] = link)
  /\ MoveTo(p, "out")
  /\ UNCHANGED <<inodes, fd, locked, attempts>>

(* The process is killed: the kernel closes its file, which drops the      *)
(* lock; the file stays.                                                   *)
Crash(p) ==
  /\ at[p] # "out"
  /\ fd' = [fd EXCEPT ![p] = NoFile]
  /\ locked' = [locked EXCEPT ![p] = NoFile]
  /\ MoveTo(p, "out")
  /\ UNCHANGED <<link, inodes, attempts, raced>>

LockStep(p) ==
  \/ Open(p)
  \/ Flock(p)
  \/ FlockRefused(p)
  \/ Unlock(p)
  \/ Close(p)
  \/ Unlink(p)

LockNext == \E p \in Procs : LockStep(p) \/ Crash(p)

LockSpec == LockInit /\ [][LockNext]_lockVars

-----------------------------------------------------------------------------
LockTypeOK ==
  /\ link \in 0..inodes
  /\ inodes \in Nat
  /\ fd \in [Procs -> 0..inodes]
  /\ locked \in [Procs -> 0..inodes]
  /\ at \in [Procs -> Places]
  /\ attempts \in [Procs -> 0..MaxAttempts]
  /\ raced \in BOOLEAN

(* utils.py:187-190: the lock runs "current instance of NFVbench as the    *)
(* first, otherwise raises exception": two processes are never between     *)
(* __enter__ and __exit__ together.                                        *)
MutualExclusion ==
  \A p, q \in Procs : at[p] = "critical" /\ at[q] = "critical" => p = q

(* Two runs overlap only after a process, on its way out, has unlinked a   *)
(* file that another one had opened already (utils.py:204-210): everything *)
(* else in the protocol, crashes included, is safe.                        *)
OverlapNeedsUnlinkRace == ~raced => MutualExclusion

(* The file a killed process leaves behind never blocks the next run: an   *)
(* inode is locked only while its holder is between __enter__ and the      *)
(* unlock of __exit__ (utils.py:199, 204).                                 *)
NoStaleLock ==
  \A p \in Procs : locked[p] # NoFile => at[p] = "critical"
=============================================================================
