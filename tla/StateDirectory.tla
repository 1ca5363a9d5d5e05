--------------------------- MODULE StateDirectory ---------------------------
(***************************************************************************)
(* The pinned state directory of qurl/pinned_state_dir*.go: handles that   *)
(* pin one directory, the setup lock, lock-free loads, the atomic save and *)
(* Close, as the system calls other goroutines, processes, crashes and an  *)
(* operator who replaces the directory or the lock file can come between.  *)
(*                                                                         *)
(* An inode is a number.  The content of a state file is the history of    *)
(* the saves that led to it, so that a lost update is visible.  A check    *)
(* that reads several entries (validateContinuity) is one step: an entry   *)
(* that changes during it changes before or after it.                      *)
(***************************************************************************)
EXTENDS Naturals, Sequences, FiniteSets, SequencesExt

CONSTANTS
  None,
  Handles,    \* store handles; each is the only one of its process
  LongLived,  \* handles kept open for the life of their process
  Updaters,   \* goroutines that load and save under the setup lock
  Loaders,    \* goroutines that load without it
  HandleOf,   \* the handle a goroutine was given
  MaxDirs, MaxFiles, MaxLocks,   \* bounds on what is ever created
  MaxFaults   \* crashes, power losses and replacements

Threads == Updaters \cup Loaders

ASSUME StateDirectoryAssumption ==
  /\ HandleOf \in [Threads -> Handles]
  /\ Updaters \cap Loaders = {} /\ LongLived \subseteq Handles
  /\ None \notin Threads /\ IsFiniteSet(Threads)
  /\ {MaxDirs, MaxFiles, MaxLocks, MaxFaults} \subseteq Nat

VARIABLES
  path,      \* the directory the configured path names, 0 when it is missing
  dirs,      \* per directory: state and lock entry, temp files, durable states
  files,     \* the state and temp files ever created
  flock,     \* who holds the advisory lock of each lock file ever created
  handle,    \* pinnedStateDir and pinnedStateDirImpl of each handle
  pc, my,    \* where a goroutine is, and its local variables
  acked,     \* per directory: the state of the last save that returned nil
  orphans,   \* the temp files whose process died while it saved
  faults     \* crashes, power losses and replacements so far

vars == <<path, dirs, files, flock, handle, pc, my, acked, orphans, faults>>
fs == <<path, dirs, files, flock>>

\* trackActiveEntry has seen no entry since the lock was acquired.
Untracked == MaxFiles + 1

Closed == [mode |-> "closed", dir |-> 0, refs |-> 0, active |-> None, tracked |-> Untracked]
Blank == [lock |-> 0, fd |-> 0, base |-> 0, data |-> <<>>, err |-> "none"]
EmptyDir == [state |-> 0, lock |-> 0, temps |-> {}, disk |-> {0}]

Init ==
  /\ path = 0
  /\ dirs = << >>
  /\ files = << >>
  /\ flock = << >>
  /\ handle = [h \in Handles |-> Closed]
  /\ pc = [t \in Threads |-> "idle"]
  /\ my = [t \in Threads |-> Blank]
  /\ acked = [d \in 1..MaxDirs |-> <<>>]
  /\ orphans = {}
  /\ faults = 0

-----------------------------------------------------------------------------
(* What the code can see. *)

Impl(t) == handle[HandleOf[t]]
Held(h) == dirs[handle[h].dir]
Dir(t) == Held(HandleOf[t])

\* validateOpenEntry of the active lock and captureEntry of the tracked state.
LockStands(h) ==
  LET owner == handle[h].active
  IN owner # None =>
       /\ Held(h).lock = my[owner].lock
       /\ handle[h].tracked \in {Untracked, Held(h).state}

\* validateContinuity: the path still names the retained directory, and while
\* a lock is active its entry and the entries seen under it are unchanged.
Continuity(h) == path = handle[h].dir /\ LockStands(h)

\* trackActiveEntry: the first entry seen under the lock must stay the entry.
TrackAccepts(h, ino) ==
  handle[h].active # None => handle[h].tracked \in {Untracked, ino}
Tracked(h, ino) ==
  IF handle[h].active = None THEN handle
  ELSE [handle EXCEPT ![h].tracked = ino]

OwnsSetupLock(t) == Impl(t).active = t

-----------------------------------------------------------------------------
(* Opening and closing a handle. *)

Pinned(d) == [Closed EXCEPT !.mode = "open", !.dir = d, !.refs = 1]

\* openPinnedStatePath pins the directory it finds; a writable handle creates
\* the missing one.
OpenExisting(h) ==
  /\ path # 0
  /\ handle' = [handle EXCEPT ![h] = Pinned(path)]
  /\ UNCHANGED <<path, dirs>>

OpenMissing(h) ==
  /\ path = 0 /\ Len(dirs) < MaxDirs
  /\ dirs' = Append(dirs, EmptyDir)
  /\ path' = Len(dirs')
  /\ handle' = [handle EXCEPT ![h] = Pinned(path')]

Open(h) ==
  /\ handle[h].mode = "closed"
  /\ OpenExisting(h) \/ OpenMissing(h)
  /\ UNCHANGED <<files, flock, pc, my, acked, orphans, faults>>

\* Close drops the owner's reference and waits for the others.
CloseBegins(h) ==
  /\ handle[h].mode = "open" /\ h \notin LongLived
  /\ handle' = [handle EXCEPT ![h].mode = "closing", ![h].refs = @ - 1]
  /\ UNCHANGED <<fs, pc, my, acked, orphans, faults>>

FaultyCloseEnds(h) ==
  /\ handle[h].mode = "closing"
  /\ handle' = [handle EXCEPT ![h] = Closed]
  /\ UNCHANGED <<fs, pc, my, acked, orphans, faults>>

CloseEnds(h) ==
  /\ handle[h].mode = "closing" /\ handle[h].refs = 0
  /\ handle' = [handle EXCEPT ![h] = Closed]
  /\ UNCHANGED <<fs, pc, my, acked, orphans, faults>>

-----------------------------------------------------------------------------
(* The lease of one operation and the setup lock. *)

Goto(t, l) == pc' = [pc EXCEPT ![t] = l]
Fail(t, l, e) ==
  /\ Goto(t, l)
  /\ my' = [my EXCEPT ![t].err = e, ![t].data = <<>>, ![t].base = 0,
                      ![t].fd = IF l = "cleanup" THEN @ ELSE 0]

\* withAgentStoreContinuity: retain the directory, validate it and load.
RetainAndLoad(t) ==
  /\ pc[t] = "idle" /\ t \in Loaders /\ Impl(t).mode = "open"
  /\ Continuity(HandleOf[t])
  /\ handle' = [handle EXCEPT ![HandleOf[t]].refs = @ + 1]
  /\ Goto(t, "reading")
  /\ UNCHANGED <<fs, my, acked, orphans, faults>>

\* openLock opens the lock file, or creates it when there is none.
OpenLock(t) ==
  \/ /\ Dir(t).lock # 0
     /\ my' = [my EXCEPT ![t].lock = Dir(t).lock]
     /\ UNCHANGED <<dirs, flock>>
  \/ /\ Dir(t).lock = 0 /\ Len(flock) < MaxLocks
     /\ flock' = Append(flock, None)
     /\ dirs' = [dirs EXCEPT ![Impl(t).dir].lock = Len(flock')]
     /\ my' = [my EXCEPT ![t].lock = Len(flock')]

\* withAgentSetupLock: retain and validate, then open the lock file.  A refusal
\* so far leaves nothing behind.
RetainAndLock(t) ==
  /\ pc[t] = "idle" /\ t \in Updaters /\ Impl(t).mode = "open"
  /\ Continuity(HandleOf[t])
  /\ OpenLock(t)
  /\ handle' = [handle EXCEPT ![HandleOf[t]].refs = @ + 1]
  /\ Goto(t, "waiting")
  /\ UNCHANGED <<path, files, acked, orphans, faults>>

\* The context ends while the lock is contended.
StopWaiting(t) ==
  /\ pc[t] = "waiting"
  /\ Fail(t, "closing", "refused")
  /\ UNCHANGED <<fs, handle, acked, orphans, faults>>

\* flock(LOCK_EX|LOCK_NB) succeeds on the open lock file, whatever its name is now.
TakeFlock(t) ==
  /\ pc[t] = "waiting" /\ flock[my[t].lock] = None
  /\ flock' = [flock EXCEPT ![my[t].lock] = t]
  /\ Goto(t, "checking")
  /\ UNCHANGED <<path, dirs, files, handle, my, acked, orphans, faults>>

\* The lock file held must still be the one the directory names.
LockEntryStands(t) == Dir(t).lock = my[t].lock

\* The lock becomes active, or the file is closed again.
CheckLock(t) ==
  /\ pc[t] = "checking"
  /\ IF LockEntryStands(t) /\ Continuity(HandleOf[t]) /\ Impl(t).active = None
     THEN /\ handle' = [handle EXCEPT ![HandleOf[t]].active = t,
                                      ![HandleOf[t]].tracked = Untracked]
          /\ Goto(t, "reading")
          /\ UNCHANGED my
     ELSE Fail(t, "closing", "refused") /\ UNCHANGED handle
  /\ UNCHANGED <<fs, acked, orphans, faults>>

-----------------------------------------------------------------------------
(* readFile, under the setup lock or without it. *)

AfterLoad(t) == IF t \in Updaters THEN "loaded" ELSE "release"
AfterRefusal(t) == IF t \in Updaters THEN "unlock" ELSE "release"

\* Open the state entry; fd 0 stands for a missing file.
OpenState(t) ==
  /\ pc[t] = "reading" /\ Continuity(HandleOf[t])
  /\ my' = [my EXCEPT ![t].fd = Dir(t).state]
  /\ Goto(t, "opened")
  /\ UNCHANGED <<fs, handle, acked, orphans, faults>>

\* A missing file is the answer as soon as it is tracked.
TrackState(t) ==
  /\ pc[t] = "opened"
  /\ TrackAccepts(HandleOf[t], my[t].fd)
  /\ handle' = Tracked(HandleOf[t], my[t].fd)
  /\ Goto(t, IF my[t].fd # 0 THEN "tracked" ELSE AfterLoad(t))
  /\ UNCHANGED <<fs, my, acked, orphans, faults>>

\* The bytes are returned only if the entry still is the opened file.
ReadState(t) ==
  /\ pc[t] = "tracked"
  /\ Dir(t).state = my[t].fd /\ Continuity(HandleOf[t])
  /\ my' = [my EXCEPT ![t].data = files[my[t].fd].data, ![t].fd = 0]
  /\ Goto(t, AfterLoad(t))
  /\ UNCHANGED <<fs, handle, acked, orphans, faults>>

\* A check of readFile refuses, or a system call fails.
ReadFails(t) ==
  /\ \/ /\ pc[t] \in {"reading", "tracked"}
        /\ Fail(t, AfterRefusal(t), "refused")
     \/ /\ pc[t] = "opened" /\ ~TrackAccepts(HandleOf[t], my[t].fd)
        /\ Fail(t, AfterRefusal(t), "changed")
  /\ UNCHANGED <<fs, handle, acked, orphans, faults>>

-----------------------------------------------------------------------------
(* writeFileAtomic. *)

\* Take the baseline and write the new state to an exclusive temp file; the file
\* is synced before anything else happens to it.
WriteTemp(t) ==
  /\ pc[t] = "loaded" /\ OwnsSetupLock(t) /\ Len(files) < MaxFiles
  /\ Continuity(HandleOf[t]) /\ TrackAccepts(HandleOf[t], Dir(t).state)
  /\ files' = Append(files, [data |-> Append(my[t].data, t), synced |-> TRUE])
  /\ dirs' = [dirs EXCEPT ![Impl(t).dir].temps = @ \cup {Len(files')}]
  /\ handle' = Tracked(HandleOf[t], Dir(t).state)
  /\ my' = [my EXCEPT ![t].fd = Len(files'), ![t].base = Dir(t).state]
  /\ Goto(t, "synced")
  /\ UNCHANGED <<path, flock, acked, orphans, faults>>

\* The last checks before the rename.
FaultyMayCommit(t) == path = Impl(t).dir

MayCommit(t) ==
  /\ Continuity(HandleOf[t])
  /\ Dir(t).state = my[t].base /\ TrackAccepts(HandleOf[t], Dir(t).state)

PrepareCommit(t) ==
  /\ pc[t] = "synced" /\ MayCommit(t)
  /\ handle' = Tracked(HandleOf[t], Dir(t).state)
  /\ Goto(t, "commit")
  /\ UNCHANGED <<fs, my, acked, orphans, faults>>

\* The rename publishes the temp file; until the directory is synced a power
\* loss may bring back any entry since the last sync.
Rename(t) ==
  /\ pc[t] = "commit"
  /\ dirs' = [dirs EXCEPT ![Impl(t).dir].state = my[t].fd,
                          ![Impl(t).dir].temps = @ \ {my[t].fd},
                          ![Impl(t).dir].disk = @ \cup {my[t].fd}]
  /\ Goto(t, "renamed")
  /\ UNCHANGED <<path, files, flock, handle, my, acked, orphans, faults>>

SyncDirectory(t) ==
  /\ pc[t] = "renamed"
  /\ dirs' = [dirs EXCEPT ![Impl(t).dir].disk = {Dir(t).state}]
  /\ Goto(t, "published")
  /\ UNCHANGED <<path, files, flock, handle, my, acked, orphans, faults>>

\* After the sync the visible entry must be the file just written, and the
\* path and the lock must still stand, before success is reported.
StillPublished(t) ==
  /\ Dir(t).state = my[t].fd
  /\ path = Impl(t).dir /\ LockEntryStands(t)

\* Success is reported; the holder may save again or release the lock.
Acknowledge(t) ==
  /\ pc[t] = "published" /\ StillPublished(t)
  /\ handle' = Tracked(HandleOf[t], my[t].fd)
  /\ acked' = [acked EXCEPT ![Impl(t).dir] = files[my[t].fd].data]
  /\ my' = [my EXCEPT ![t].data = files[my[t].fd].data, ![t].fd = 0, ![t].base = 0]
  /\ \E l \in {"loaded", "unlock"} : Goto(t, l)
  /\ UNCHANGED <<fs, orphans, faults>>

\* The save fails: before the rename the temp file is removed, after it the new
\* state is visible and nobody was told.
FaultySaveFails(t) ==
  /\ \/ pc[t] \in {"synced", "commit"}
        /\ Fail(t, IF Continuity(HandleOf[t]) THEN "cleanup" ELSE "unlock", "refused")
     \/ pc[t] \in {"loaded", "renamed", "published"} /\ Fail(t, "unlock", "refused")
  /\ UNCHANGED <<fs, handle, acked, orphans, faults>>

SaveFails(t) ==
  /\ \/ /\ pc[t] = "loaded"
        /\ Fail(t, "unlock", IF TrackAccepts(HandleOf[t], Dir(t).state) THEN "refused" ELSE "changed")
     \/ pc[t] \in {"synced", "commit"} /\ Fail(t, "cleanup", "refused")
     \/ pc[t] \in {"renamed", "published"} /\ Fail(t, "unlock", "refused")
  /\ UNCHANGED <<fs, handle, acked, orphans, faults>>

\* The deferred unlink of the temp file and the sync that makes it durable.  (An
\* unlink that the system refuses is reported to the caller; none is modelled.)
RemoveTemp(t) ==
  /\ pc[t] = "cleanup"
  /\ dirs' = [dirs EXCEPT ![Impl(t).dir].temps = @ \ {my[t].fd}, ![Impl(t).dir].disk = {Dir(t).state}]
  /\ my' = [my EXCEPT ![t].fd = 0]
  /\ Goto(t, "unlock")
  /\ UNCHANGED <<path, files, flock, handle, acked, orphans, faults>>

-----------------------------------------------------------------------------
(* Giving everything back. *)

\* Close of the lock clears the active lock before the file is closed.
Deactivate(t) ==
  /\ pc[t] = "unlock"
  /\ handle' = [handle EXCEPT ![HandleOf[t]].active = None, ![HandleOf[t]].tracked = Untracked]
  /\ Goto(t, "closing")
  /\ UNCHANGED <<fs, my, acked, orphans, faults>>

\* Closing the descriptor drops the lock, if it was ever obtained.
CloseLock(t) ==
  /\ pc[t] = "closing"
  /\ flock' = [flock EXCEPT ![my[t].lock] = IF @ = t THEN None ELSE @]
  /\ Goto(t, "release")
  /\ UNCHANGED <<path, dirs, files, handle, my, acked, orphans, faults>>

Release(t) ==
  /\ pc[t] = "release"
  /\ handle' = [handle EXCEPT ![HandleOf[t]].refs = @ - 1]
  /\ my' = [my EXCEPT ![t] = Blank]
  /\ Goto(t, "idle")
  /\ UNCHANGED <<fs, acked, orphans, faults>>

-----------------------------------------------------------------------------
(* The world around the process. *)

Fault == faults < MaxFaults /\ faults' = faults + 1

\* Where a goroutine has a temp file to rename or to remove.
InSave == {"synced", "commit", "cleanup"}

\* The goroutines of the handles hs vanish with their descriptors and locks, and
\* leave their temp files behind.
Die(hs) ==
  /\ orphans' = orphans \cup {my[t].fd : t \in {u \in Updaters : HandleOf[u] \in hs /\ pc[u] \in InSave}}
  /\ handle' = [h \in Handles |-> IF h \in hs THEN Closed ELSE handle[h]]
  /\ pc' = [t \in Threads |-> IF HandleOf[t] \in hs THEN "idle" ELSE pc[t]]
  /\ my' = [t \in Threads |-> IF HandleOf[t] \in hs THEN Blank ELSE my[t]]
  /\ flock' = [l \in DOMAIN flock |->
                 IF flock[l] # None /\ HandleOf[flock[l]] \in hs THEN None ELSE flock[l]]

ProcessDies(h) ==
  /\ Fault /\ handle[h].mode # "closed"
  /\ Die({h})
  /\ UNCHANGED <<path, dirs, files, acked>>

\* A file whose data was not synced is torn; the directory entry is one of
\* those since its last sync.
PowerLoss ==
  /\ Fault
  /\ Die(Handles)
  /\ files' = [i \in DOMAIN files |->
                 IF files[i].synced THEN files[i] ELSE [files[i] EXCEPT !.data = <<None>>]]
  /\ \E back \in [DOMAIN dirs -> 0..MaxFiles] :
       /\ \A d \in DOMAIN dirs : back[d] \in dirs[d].disk
       /\ dirs' = [d \in DOMAIN dirs |-> [dirs[d] EXCEPT !.state = back[d], !.disk = {back[d]}]]
  /\ UNCHANGED <<path, acked>>

\* Somebody moves the directory away or another one into its place ...
ReplaceDirectory ==
  /\ Fault
  /\ \/ path # 0 /\ path' = 0 /\ UNCHANGED dirs
     \/ /\ Len(dirs) < MaxDirs
        /\ dirs' = Append(dirs, EmptyDir) /\ path' = Len(dirs')
  /\ UNCHANGED <<files, flock, handle, pc, my, acked, orphans>>

\* ... and puts one back.
RestoreDirectory ==
  /\ path = 0 /\ path' \in DOMAIN dirs
  /\ UNCHANGED <<dirs, files, flock, handle, pc, my, acked, orphans, faults>>

\* Somebody removes the lock file of a directory.  Between a saver's last check
\* and its rename no check of the code can notice, and a second lock holder could
\* be overwritten: that window is the one moment left out.
RemoveLockFile(d) ==
  /\ Fault /\ dirs[d].lock # 0
  /\ \A t \in Updaters : pc[t] = "commit" => Impl(t).dir # d
  /\ dirs' = [dirs EXCEPT ![d].lock = 0]
  /\ UNCHANGED <<path, files, flock, handle, pc, my, acked, orphans>>

-----------------------------------------------------------------------------
Locking(t) == TakeFlock(t) \/ CheckLock(t)
Reading(t) == OpenState(t) \/ TrackState(t) \/ ReadState(t) \/ ReadFails(t)
Saving(t) ==
  \/ WriteTemp(t) \/ PrepareCommit(t) \/ Rename(t) \/ SyncDirectory(t)
  \/ Acknowledge(t) \/ SaveFails(t) \/ RemoveTemp(t)
Ending(t) == Deactivate(t) \/ CloseLock(t) \/ Release(t)

Step(t) == Locking(t) \/ Reading(t) \/ Saving(t) \/ Ending(t)

Next ==
  \/ \E h \in Handles : Open(h) \/ CloseBegins(h) \/ CloseEnds(h) \/ ProcessDies(h)
  \/ \E t \in Threads : RetainAndLoad(t) \/ RetainAndLock(t) \/ StopWaiting(t) \/ Step(t)
  \/ PowerLoss \/ ReplaceDirectory \/ RestoreDirectory
  \/ \E d \in DOMAIN dirs : RemoveLockFile(d)

Spec == Init /\ [][Next]_vars

-----------------------------------------------------------------------------
(* Correctness. *)

Directories == 1..MaxDirs
Visible == [d \in Directories |->
  IF d \notin DOMAIN dirs \/ dirs[d].state = 0 THEN <<>> ELSE files[dirs[d].state].data]

\* Each directory is a register: a load finds the result of whole saves, and no
\* failed save, competing process, replaced lock file or power loss takes the
\* state back before a save that was acknowledged.
Register == INSTANCE StateRegister WITH val <- Visible, Writers <- Updaters
ImplementsRegister == Register!Spec

\* The references of a handle are its owner and its operations: Close neither
\* closes the descriptor under one of them nor waits for one that has ended.
CloseIsExact ==
  \A h \in Handles :
    handle[h].refs = Cardinality({t \in Threads : HandleOf[t] = h /\ pc[t] # "idle"})
                     + (IF handle[h].mode = "open" THEN 1 ELSE 0)

\* A temp file, which holds the whole credential, exists only while its save
\* runs, unless the process of that save died: also when the directory was moved
\* away or the lock file unlinked in the middle of the save, which then refuses.
TempsAreRemoved ==
  \A d \in DOMAIN dirs : \A i \in dirs[d].temps \ orphans :
    \E t \in Updaters : my[t].fd = i /\ pc[t] \in InSave

=============================================================================
